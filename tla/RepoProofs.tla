----------------------------- MODULE RepoProofs -----------------------------
(***************************************************************************)
(* Proofs about Repo.tla, for any number of commands, files and versions:  *)
(* the commands implement the store of SnapshotStore.tla, a backup fails   *)
(* only with a cause, and readers report exactly what is wrong.  They hold *)
(* when nothing sees or kills a backup between the touch of Finished and   *)
(* the close of its list (Exposed = FALSE).                                *)
(***************************************************************************)
EXTENDS Repo, FiniteSetTheorems, SequenceTheorems, NaturalsInduction, TLAPS
-----------------------------------------------------------------------------
(* Types. *)

\* Functions from some of the elements of S to T.
Partial(S, T) == UNION {[D -> T] : D \in SUBSET S}

Lines == [file : Files, ver : Versions \cup {Lost}, idx : Nat \cup {NoIdx}]
Indexes == 0..Cardinality(Files) - 1
Blocks == Procs \X Files

Cmds == [op : {"init", "create"} \cup Readers, name : Names \cup {NoName},
         rebase : BOOLEAN, after : Nat]

Places == {"idle", "mkrepo", "mkid", "scan", "open", "check", "mkdir", "mark", "list",
           "store", "close", "target", "read", "done"}

ProcRecs ==
    [pc : Places, name : Names \cup {NoName}, base : Names \cup {NoName},
     map : Partial(Files, Lines), todo : SUBSET Files, sent : Seq(Lines), alloc : SUBSET Nat,
     used : SUBSET (Nat \cup {NoIdx}), warned : BOOLEAN, hit : BOOLEAN, sure : BOOLEAN,
     result : {"none", "ok", "error", "killed"},
     why : {"none", "repo", "exists", "base", "target", "stat", "block", "hash", "unused"}]

ArchRecs ==
    [dir : BOOLEAN, files : SUBSET {"ID", "List", "Finished"}, lines : Seq(Lines),
     cut : Seq(Lines), blocks : Partial(Indexes, Blocks)]

Typed ==
    /\ cmd \in [Procs -> Cmds]
    /\ \A p \in Procs : cmd[p].op = "create" => cmd[p].name \in {Named, NoName}
    /\ repo \in {"none", "directory", "ready"}
    /\ proc \in [Procs -> ProcRecs]
    /\ arch \in [Names -> ArchRecs]
    /\ data \in Partial(Blocks, Versions)
    /\ damaged \subseteq Blocks
    /\ target \in BOOLEAN
    /\ live \in Partial(Files, Versions)
    /\ deleting \subseteq Names
-----------------------------------------------------------------------------
(* The inductive invariant.  Its parts that speak of one process r with its *)
(* command c, one archive a, blocks b with contents d are operators of      *)
(* these, so that what a step leaves alone is left alone by definition.     *)

\* A list whose lines, one per file and index, describe all blocks there are.
Fits(L, b, d) ==
    /\ \A l \in L : l \in [file : Files, ver : Versions, idx : Nat]
    /\ \A l, m \in L : l.file = m.file \/ l.idx = m.idx => l = m
    /\ \A i \in DOMAIN b : \E l \in L : l.idx = i /\ d[b[i]] = l.ver

\* And the blocks are all there.
Full(L, b, d) ==
    /\ Fits(L, b, d)
    /\ \A l \in L : l.idx \in DOMAIN b

AllFiles == {"ID", "List", "Finished"}

\* Where the process of a command can be.
PlaceOk(c, r) ==
    /\ r.pc \in {"check", "mkdir", "mark", "list", "store", "close"} => c.op = "create"
    /\ r.pc \in {"target", "read"} => c.op \in Readers
    /\ r.pc \in {"mkrepo", "mkid"} => c.op = "init"
    /\ r.pc \in {"scan", "open"} => c.op # "init"

\* What a process knows, and does not know yet.
KnownOk(r) ==
    /\ r.pc # "done" => r.result = "none"
    /\ r.pc \notin {"store", "close"} => r.sent = <<>>
    /\ r.pc \in {"idle", "mkrepo", "mkid", "scan", "open"} =>
          r.map = <<>> /\ r.used = {} /\ r.warned = FALSE /\ r.sure = FALSE
    /\ r.pc \in {"target", "read"} => r.todo \subseteq DOMAIN r.map
    /\ \A f \in DOMAIN r.map : r.map[f].file = f

Past == {"open", "check", "mkdir", "mark", "list", "store", "close", "target", "read"}

\* Whose archive a process works on.
NameOk(p, c, r, del) ==
    r.pc \in Past =>
        /\ c.op = "create" => r.name = IF c.name = NoName THEN p ELSE Named
        /\ c.op \in Readers => r.name = r.base
        /\ r.base \in del => r.hit

\* An archive in the making.
MakingPlaces == {"mkdir", "mark", "list", "store", "close"}
MakingOk(r, a) ==
    /\ a.dir <=> r.pc # "mkdir"
    /\ r.pc \in {"mkdir", "mark"} => a.files = {}
    /\ r.pc \in {"mkdir", "mark", "list"} => a.blocks = <<>>
    /\ r.pc = "list" => a.files = {"ID"}
    /\ r.pc = "store" => a.files = {"ID", "List"}
    /\ r.pc = "close" => a.files = AllFiles

\* The base of a backup, as the process knows it and as it is.
BasePlaces == {"open", "check", "mkdir", "mark", "list", "store"}
BaseOk(r, a, d) ==
    /\ ~r.hit => "Finished" \in a.files
    /\ r.pc = "open" => a.cut = <<>> /\ Fits(ToSet(a.lines), a.blocks, d)
    /\ r.pc # "open" => /\ Fits(Range(r.map), a.blocks, d)
                        /\ ~r.hit => Full(Range(r.map), a.blocks, d)

\* The list that is being written: one line for each file that is done.
SentOk(r, a, d, now) ==
    /\ Full(ToSet(r.sent), a.blocks, d)
    /\ \A l \in ToSet(r.sent) :
          l.file \in DOMAIN now /\ l.file \notin r.todo /\ now[l.file] = l.ver
    /\ r.todo \subseteq DOMAIN now
    /\ \A f \in DOMAIN now : f \in r.todo \/ \E l \in ToSet(r.sent) : l.file = f
    /\ r.pc = "close" => r.todo = {}

\* The index i is taken for f: by its line, or still by its line of the base.
Holds(r, f, i) ==
    \/ \E l \in ToSet(r.sent) : l.file = f /\ l.idx = i
    \/ /\ \E l \in Range(r.map) : l.file = f /\ l.idx = i
       /\ \A l \in ToSet(r.sent) : l.file # f

\* The indexes of the archive and those of the base that are not used yet.
AllocOk(r, own, base) ==
    /\ DOMAIN own \subseteq r.alloc
    /\ \A f \in r.todo \cap DOMAIN r.map :
          r.map[f].idx \in DOMAIN base => r.map[f].idx \in r.alloc \ DOMAIN own
    /\ \A i \in r.alloc : \E f \in Files : Holds(r, f, i)

\* An archive that is finished and closed; deleted blocks may be missing.
ArchOk(a, d, whole) ==
    /\ a.cut = <<>>
    /\ Fits(ToSet(a.lines), a.blocks, d)
    /\ whole => a.files = AllFiles /\ Full(ToSet(a.lines), a.blocks, d)

\* What a reader knows of the archive it reads, and has seen of it.
Rotten(l, a, dam) == l.idx \in DOMAIN a.blocks /\ a.blocks[l.idx] \in dam
Differs(c, l, now) == c.op = "compare" /\ l.file \in DOMAIN now /\ now[l.file] # l.ver
ReadOk(c, r, a, dam, now) ==
    /\ Range(r.map) = ToSet(a.lines)
    /\ r.used = {r.map[f].idx : f \in DOMAIN r.map \ r.todo}
    /\ r.warned <=> \E f \in DOMAIN r.map \ r.todo :
                        Rotten(r.map[f], a, dam) \/ Differs(c, r.map[f], now)
    /\ c.op = "extract" => \A f \in DOMAIN r.map \ r.todo : ~Rotten(r.map[f], a, dam)
    /\ c.op = "compare" => DOMAIN r.map \ r.todo \subseteq DOMAIN now

Cause(c, r) ==
    c.op = "create" /\ r.result = "error" =>
        \/ r.why = "repo"
        \/ r.why = "exists" /\ r.name = Named
        \/ r.why = "base" /\ r.hit

Making(p) == cmd[p].op = "create" /\ proc[p].pc \in MakingPlaces
Based(p) == cmd[p].op = "create" /\ proc[p].pc \in BasePlaces
Trusts(r) == r.pc \in {"target", "read"} /\ r.sure /\ ~r.hit

IPlace == \A p \in Procs : PlaceOk(cmd[p], proc[p])
IKnown == \A p \in Procs : KnownOk(proc[p])
IName == \A p \in Procs : NameOk(p, cmd[p], proc[p], deleting)

\* No two backups that run have been given the same name.
IOwn ==
    \A p, q \in Procs :
        /\ cmd[p].op = "create" /\ Running(p) /\ cmd[p].name # NoName
        /\ cmd[q].op = "create" /\ Running(q) /\ cmd[q].name # NoName
        => p = q

\* Archive directories: what is not there is empty; the archive of a command that
\* was given no name is of its making.
IDirs ==
    /\ \A n \in Names : ~arch[n].dir => arch[n] = NoArch
    /\ \A n \in deleting : arch[n].dir
    /\ \A p \in Procs : arch[p].dir =>
          /\ cmd[p].op = "create" /\ cmd[p].name = NoName
          /\ proc[p].pc \in (MakingPlaces \cup {"done"}) \ {"mkdir"}

IMaking ==
    \A p \in Procs : Making(p) =>
        /\ proc[p].name \notin deleting
        /\ MakingOk(proc[p], arch[proc[p].name])

\* The base of a backup was made by a command that has ended.
OnBase(r) ==
    /\ r.pc = "open" => r.base # NoName
    /\ r.base = NoName => r.map = <<>>
    /\ r.base # NoName => /\ r.base \in Procs /\ At(r.base, "done")
                          /\ BaseOk(r, arch[r.base], data)

IBase == \A p \in Procs : Based(p) => OnBase(proc[p])

IStore ==
    \A p \in Procs :
        /\ proc[p].pc \in {"store", "close"} => SentOk(proc[p], Own(p), data, live)
        /\ proc[p].pc = "store" => AllocOk(proc[p], Own(p).blocks, Base(p).blocks)

\* The blocks are on the disk, and one is named for the command that writes it.
IData ==
    /\ \A n \in Names : \A i \in DOMAIN arch[n].blocks : arch[n].blocks[i] \in DOMAIN data
    /\ \A p \in Procs, f \in Files :
          <<p, f>> \in DOMAIN data =>
              \/ proc[p].pc \in {"close", "done"}
              \/ proc[p].pc = "store" /\ f \notin proc[p].todo

IArch ==
    \A n \in Names :
        "Finished" \in arch[n].files /\ ~Closing(n) => ArchOk(arch[n], data, n \notin deleting)

Sees(c, r) ==
    /\ r.name \in Names
    /\ "Finished" \in arch[r.name].files /\ ~Closing(r.name)
    /\ ReadOk(c, r, arch[r.name], damaged, live)

IRead == \A p \in Procs : Trusts(proc[p]) => Sees(cmd[p], proc[p])

ICause == \A p \in Procs : Cause(cmd[p], proc[p])

Inv ==
    /\ Typed /\ IPlace /\ IKnown /\ IName /\ IOwn /\ IDirs /\ IMaking /\ IBase
    /\ IStore /\ IData /\ IArch /\ IRead /\ ICause
-----------------------------------------------------------------------------
(* Functions and sequences. *)

\* Partial functions are functions on a set of keys.
LEMMA PartialDef ==
    ASSUME NEW S, NEW T, NEW f
    PROVE  f \in Partial(S, T) <=> DOMAIN f \subseteq S /\ f \in [DOMAIN f -> T]
  BY DEF Partial

\* The empty function, and nothing that is in it.
LEMMA EmptyFun ==
    ASSUME NEW S, NEW T
    PROVE  /\ <<>> \in Partial(S, T) /\ <<>> \in Seq(T)
           /\ DOMAIN <<>> = {} /\ Range(<<>>) = {} /\ ToSet(<<>>) = {}
<1>1. <<>> \in [{} -> T]
  OBVIOUS
<1>2. DOMAIN <<>> = {}
  OBVIOUS
<1>3. \A x : x \notin Range(<<>>) /\ x \notin ToSet(<<>>)
  BY <1>2 DEF Range, ToSet
<1>4. <<>> \in Partial(S, T)
  BY <1>1 DEF Partial
<1>5. <<>> \in Seq(T)
  OBVIOUS
<1> QED
  BY <1>2, <1>3, <1>4, <1>5, Zenon

\* A function without keys is the empty one.
LEMMA NoKeys ==
    ASSUME NEW S, NEW T, NEW f \in Partial(S, T), DOMAIN f = {}
    PROVE  f = <<>>
<1>1. f \in [{} -> T] /\ <<>> \in [{} -> T]
  BY DEF Partial
<1> QED
  BY <1>1

\* What Put gives at each key.
LEMMA PutValue ==
    \A f, k, v : /\ DOMAIN Put(f, k, v) = DOMAIN f \cup {k}
                 /\ Put(f, k, v)[k] = v
                 /\ \A x \in DOMAIN f : x # k => Put(f, k, v)[x] = f[x]
<1> SUFFICES ASSUME NEW f, NEW k, NEW v
             PROVE  /\ DOMAIN Put(f, k, v) = DOMAIN f \cup {k}
                    /\ Put(f, k, v)[k] = v
                    /\ \A x \in DOMAIN f : x # k => Put(f, k, v)[x] = f[x]
  OBVIOUS
<1>1. PICK g : g = Put(f, k, v)
  OBVIOUS
<1>2. g = [x \in DOMAIN f \cup {k} |-> IF x = k THEN v ELSE f[x]]
  BY <1>1 DEF Put
<1>3. DOMAIN g = DOMAIN f \cup {k} /\ \A x \in DOMAIN g : g[x] = IF x = k THEN v ELSE f[x]
  BY <1>2
<1> QED
  BY <1>1, <1>3

\* Put keeps partial functions.
LEMMA PutType ==
    ASSUME NEW S, NEW T, NEW f \in Partial(S, T), NEW k \in S, NEW v \in T
    PROVE  Put(f, k, v) \in Partial(S, T)
<1>1. DOMAIN f \subseteq S /\ f \in [DOMAIN f -> T]
  BY PartialDef
<1>2. PICK g : g = Put(f, k, v)
  OBVIOUS
<1>3. g = [x \in DOMAIN f \cup {k} |-> IF x = k THEN v ELSE f[x]]
  BY <1>2 DEF Put
<1>4. DOMAIN g = DOMAIN f \cup {k} /\ \A x \in DOMAIN g : g[x] = IF x = k THEN v ELSE f[x]
  BY <1>3
<1>5. \A x \in DOMAIN g : g[x] \in T
  BY <1>1, <1>4
<1>6. g \in [DOMAIN g -> T]
  BY <1>3, <1>4, <1>5
<1>7. DOMAIN g \subseteq S
  BY <1>1, <1>4
<1> QED
  BY <1>2, <1>6, <1>7, PartialDef

\* So does leaving out a key.
LEMMA DropLemma ==
    ASSUME NEW S, NEW T, NEW f \in Partial(S, T), NEW k,
           NEW g, g = [x \in DOMAIN f \ {k} |-> f[x]]
    PROVE  /\ g \in Partial(S, T) /\ DOMAIN g = DOMAIN f \ {k}
           /\ \A x \in DOMAIN g : g[x] = f[x]
<1>1. DOMAIN f \subseteq S /\ f \in [DOMAIN f -> T]
  BY PartialDef
<1>2. DOMAIN g = DOMAIN f \ {k} /\ \A x \in DOMAIN g : g[x] = f[x]
  OBVIOUS
<1>3. g \in [DOMAIN g -> T]
  BY <1>1, <1>2
<1> QED
  BY <1>1, <1>2, <1>3, PartialDef

\* The elements of a sequence with one more.
LEMMA ToSetAppend ==
    ASSUME NEW S, NEW s \in Seq(S), NEW e \in S
    PROVE  ToSet(Append(s, e)) = ToSet(s) \cup {e} /\ Append(s, e) \in Seq(S)
<1>1. /\ Append(s, e) \in Seq(S) /\ Len(Append(s, e)) = Len(s) + 1
      /\ \A i \in 1..Len(s) : Append(s, e)[i] = s[i]
      /\ Append(s, e)[Len(s) + 1] = e
  BY AppendProperties
<1>2. Len(s) \in Nat /\ DOMAIN s = 1..Len(s) /\ DOMAIN Append(s, e) = 1..Len(s) + 1
  BY <1>1
<1>3. PICK t : t = Append(s, e)
  OBVIOUS
<1>4. ToSet(t) \subseteq ToSet(s) \cup {e}
  BY <1>1, <1>2, <1>3 DEF ToSet
<1>5. \A i \in DOMAIN s : s[i] \in ToSet(t)
  <2> SUFFICES ASSUME NEW i \in 1..Len(s) PROVE s[i] \in ToSet(t)
    BY <1>2
  <2>1. i \in DOMAIN t /\ t[i] = s[i]
    BY <1>1, <1>2, <1>3
  <2> QED
    BY <2>1 DEF ToSet
<1>6. e \in ToSet(t)
  <2>1. Len(s) + 1 \in DOMAIN t /\ t[Len(s) + 1] = e
    BY <1>1, <1>2, <1>3
  <2> QED
    BY <2>1 DEF ToSet
<1>7. ToSet(s) \subseteq ToSet(t)
  BY <1>5 DEF ToSet
<1> QED
  BY <1>1, <1>3, <1>4, <1>6, <1>7

\* The elements of a sequence are of its type.
LEMMA ToSetType ==
    ASSUME NEW S, NEW s \in Seq(S)
    PROVE  ToSet(s) \subseteq S
  BY ElementOfSeq DEF ToSet

\* The table of a list has the lines of the list, each under its file.
LEMMA ByFileRows ==
    ASSUME NEW L, NEW T, L \subseteq [file : Files, ver : T, idx : Nat \cup {NoIdx}]
    PROVE  /\ ByFile(L) \in Partial(Files, L)
           /\ DOMAIN ByFile(L) = {l.file : l \in L}
           /\ \A f \in DOMAIN ByFile(L) : ByFile(L)[f] \in L /\ ByFile(L)[f].file = f
           /\ (\A l, m \in L : l.file = m.file => l = m) => Range(ByFile(L)) = L
<1>1. PICK t : t = ByFile(L)
  OBVIOUS
<1>2. DOMAIN t = {l.file : l \in L}
  BY <1>1 DEF ByFile
<1>3. \A f \in DOMAIN t : t[f] = CHOOSE l \in L : l.file = f
  BY <1>1 DEF ByFile
<1>4. \A f \in DOMAIN t : t[f] \in L /\ t[f].file = f
  BY <1>2, <1>3
<1>5. DOMAIN t \subseteq Files
  BY <1>2
<1>6. t \in [DOMAIN t -> L]
  BY <1>1, <1>4 DEF ByFile
<1>7. t \in Partial(Files, L)
  BY <1>5, <1>6, PartialDef
<1>8. ASSUME \A l, m \in L : l.file = m.file => l = m
      PROVE  Range(t) = L
  <2>1. Range(t) \subseteq L
    BY <1>4 DEF Range
  <2>2. ASSUME NEW l \in L PROVE l \in Range(t)
    <3>1. l.file \in DOMAIN t
      BY <1>2
    <3>2. t[l.file] = l
      BY <3>1, <1>4, <1>8
    <3> QED
      BY <3>1, <3>2 DEF Range
  <2> QED
    BY <2>1, <2>2
<1> QED
  BY <1>1, <1>2, <1>4, <1>7, <1>8
-----------------------------------------------------------------------------
(* Lists and blocks. *)

\* d may have more blocks in e, and those it has are the same.
Grows(d, e) == \A k \in DOMAIN d : k \in DOMAIN e /\ e[k] = d[k]

\* A list stays what it is when blocks are written elsewhere.
LEMMA FitsGrows ==
    ASSUME NEW L, NEW b, NEW d, NEW e, Grows(d, e), \A i \in DOMAIN b : b[i] \in DOMAIN d
    PROVE  /\ Fits(L, b, d) => Fits(L, b, e)
           /\ Full(L, b, d) => Full(L, b, e)
<1>1. \A i \in DOMAIN b : e[b[i]] = d[b[i]]
  BY DEF Grows
<1>2. Fits(L, b, d) => Fits(L, b, e)
  BY <1>1 DEF Fits
<1> QED
  BY <1>2 DEF Full

\* A list fits what rm has left of the blocks.
LEMMA FitsFewer ==
    ASSUME NEW L, NEW b, NEW c, NEW d, Fits(L, b, d),
           \A i \in DOMAIN c : i \in DOMAIN b /\ c[i] = b[i]
    PROVE  Fits(L, c, d)
<1>1. \A i \in DOMAIN c : d[c[i]] = d[b[i]] /\ i \in DOMAIN b
  OBVIOUS
<1> QED
  BY <1>1 DEF Fits

\* No lines fit no blocks.
LEMMA FitsNothing ==
    ASSUME NEW d
    PROVE  Full({}, <<>>, d)
<1>1. DOMAIN <<>> = {}
  OBVIOUS
<1> QED
  BY <1>1 DEF Full, Fits

\* A line for a new file and a new block at its index.
LEMMA FullAdd ==
    ASSUME NEW L, NEW b, NEW d, Full(L, b, d), NEW k,
           NEW l \in [file : Files, ver : Versions, idx : Nat],
           l.idx \notin DOMAIN b, \A m \in L : m.file # l.file, d[k] = l.ver
    PROVE  Full(L \cup {l}, Put(b, l.idx, k), d)
<1>1. PICK c : c = Put(b, l.idx, k)
  OBVIOUS
<1>2. /\ DOMAIN c = DOMAIN b \cup {l.idx} /\ c[l.idx] = k
      /\ \A x \in DOMAIN b : x # l.idx => c[x] = b[x]
  <2>1. DOMAIN c = DOMAIN b \cup {l.idx}
    BY <1>1, PutValue
  <2>2. c[l.idx] = k
    BY <1>1, PutValue
  <2>3. \A x \in DOMAIN b : x # l.idx => c[x] = b[x]
    BY <1>1, PutValue
  <2> QED
    BY <2>1, <2>2, <2>3
<1>3. \A m \in L : m.idx \in DOMAIN b /\ m.idx # l.idx
  BY DEF Full
<1>4. \A x \in DOMAIN b : c[x] = b[x]
  BY <1>2
<1>5. \A m \in L \cup {l} : m.idx \in DOMAIN c
  BY <1>2, <1>3
<1>6. \A m \in L \cup {l} : m \in [file : Files, ver : Versions, idx : Nat]
  BY DEF Full, Fits
<1>7. \A m, n \in L \cup {l} : m.file = n.file \/ m.idx = n.idx => m = n
  <2> SUFFICES ASSUME NEW m \in L \cup {l}, NEW n \in L \cup {l}, m.file = n.file \/ m.idx = n.idx
               PROVE  m = n
    OBVIOUS
  <2>1. m \in L /\ n \in L => m = n
    BY DEF Full, Fits
  <2>2. m \notin L => m = l /\ (n \in L => n.file # l.file /\ n.idx # l.idx)
    BY <1>3
  <2>3. n \notin L => n = l /\ (m \in L => m.file # l.file /\ m.idx # l.idx)
    BY <1>3
  <2> QED
    BY <2>1, <2>2, <2>3
<1>8. \A i \in DOMAIN c : \E m \in L \cup {l} : m.idx = i /\ d[c[i]] = m.ver
  <2> SUFFICES ASSUME NEW i \in DOMAIN c
               PROVE  \E m \in L \cup {l} : m.idx = i /\ d[c[i]] = m.ver
    OBVIOUS
  <2>1. CASE i = l.idx
    BY <2>1, <1>2
  <2>2. CASE i # l.idx
    <3>1. i \in DOMAIN b /\ c[i] = b[i]
      BY <1>2, <2>2
    <3>2. \E m \in L : m.idx = i /\ d[b[i]] = m.ver
      BY <3>1 DEF Full, Fits
    <3> QED
      BY <3>1, <3>2
  <2> QED
    BY <2>1, <2>2
<1>9. Full(L \cup {l}, c, d)
  BY <1>5, <1>6, <1>7, <1>8 DEF Full, Fits
<1> QED
  BY <1>1, <1>9
-----------------------------------------------------------------------------
(* Block indexes. *)

\* Each set of natural numbers that is not empty has a least one.
LEMMA LeastNat ==
    ASSUME NEW T, T \subseteq Nat, T # {}
    PROVE  \E x \in T : \A y \in T : x <= y
<1>1. \E x \in T : \A y \in T : ~ (<<y, x>> \in OpToRel(<, Nat))
  BY NatLessThanWellFounded, WFMin
<1>2. PICK x \in T : \A y \in T : ~ (<<y, x>> \in OpToRel(<, Nat))
  BY <1>1
<1>3. \A y \in T : ~ (y < x)
  BY <1>2, Zenon DEF OpToRel
<1> QED
  BY <1>3

\* BlockList::Alloc gives an index that is free, no greater than the number of
\* those that are taken.
LEMMA LowestFreeLemma ==
    ASSUME NEW S, S \subseteq Nat, IsFiniteSet(S)
    PROVE  LowestFree(S) \in 0..Cardinality(S) /\ LowestFree(S) \notin S
<1> DEFINE c == Cardinality(S)
<1>1. c \in Nat
  BY FS_CardinalityType
<1>2. \E n \in Nat : n \notin S
  <2> SUFFICES ASSUME \A n \in Nat : n \in S PROVE FALSE
    OBVIOUS
  <2>1. 0..c \in SUBSET S
    BY <1>1
  <2>2. Cardinality(0..c) <= c
    BY <2>1, FS_Subset
  <2>3. Cardinality(0..c) = IF 0 > c THEN 0 ELSE c - 0 + 1
    BY <1>1, FS_Interval
  <2> HIDE DEF c
  <2> QED
    BY <1>1, <2>2, <2>3
<1>3. {n \in Nat : n \notin S} # {} /\ {n \in Nat : n \notin S} \subseteq Nat
  BY <1>2
<1>4. PICK i \in {n \in Nat : n \notin S} : \A j \in {n \in Nat : n \notin S} : i <= j
  BY <1>3, LeastNat
<1>5. 0..i - 1 \subseteq S
  <2> SUFFICES ASSUME NEW j \in 0..i - 1 PROVE j \in S
    OBVIOUS
  <2>1. j \in Nat /\ ~(i <= j)
    BY <1>4
  <2> QED
    BY <2>1, <1>4
<1>6. i <= c
  <2>1. Cardinality(0..i - 1) <= c
    BY <1>5, FS_Subset
  <2>2. i \in Nat /\ i - 1 \in Int
    BY <1>4
  <2>3. Cardinality(0..i - 1) = IF 0 > i - 1 THEN 0 ELSE (i - 1) - 0 + 1
    BY <2>2, FS_Interval
  <2> HIDE DEF c
  <2> QED
    BY <1>1, <2>1, <2>2, <2>3
<1>7. i \in 0..Cardinality(S) /\ i \notin S /\ 0..i - 1 \subseteq S
  BY <1>1, <1>4, <1>5, <1>6
<1> QED
  BY <1>7 DEF LowestFree

\* Sets of indexes of which each belongs to a file, and no two to the same.
LEMMA OneIndexEach ==
    ASSUME NEW K, NEW F, IsFiniteSet(F), NEW g \in [K -> F],
           \A i, j \in K : g[i] = g[j] => i = j
    PROVE  IsFiniteSet(K) /\ Cardinality(K) <= Cardinality(F)
<1>1. g \in Injection(K, F)
  BY DEF Injection, IsInjective
<1> QED
  BY <1>1, FS_Injection
-----------------------------------------------------------------------------
(* What is read of a list. *)

\* A line that is cut is a line.
LEMMA CutsType ==
    ASSUME NEW l \in Lines
    PROVE  Cuts(l) \subseteq Lines
<1>1. l.idx \in Nat \cup {NoIdx} /\ l.file \in Files /\ l.ver \in Versions \cup {Lost}
  BY DEF Lines
<1>2. \A i \in {NoIdx} \cup 0..l.idx - 1 : i \in Nat \cup {NoIdx}
  OBVIOUS
<1>3. ASSUME NEW i \in Nat \cup {NoIdx} PROVE [l EXCEPT !.idx = i] \in Lines
  BY DEF Lines
<1>4. [l EXCEPT !.idx = NoIdx, !.ver = Lost] \in Lines
  <2>1. PICK m : m = [l EXCEPT !.idx = NoIdx]
    OBVIOUS
  <2>2. m \in Lines
    BY <1>3, <2>1
  <2>3. [m EXCEPT !.ver = Lost] \in Lines
    BY <2>2 DEF Lines
  <2>4. [l EXCEPT !.idx = NoIdx, !.ver = Lost] = [m EXCEPT !.ver = Lost]
    BY <2>1
  <2> QED
    BY <2>3, <2>4
<1>5. \A m \in Cuts(l) : m \in Lines
  BY <1>2, <1>3, <1>4 DEF Cuts
<1> QED
  BY <1>5

\* What a stream may have written are lines.
LEMMA PartsType ==
    ASSUME NEW s \in Seq(Lines), NEW d \in Parts(s)
    PROVE  /\ d.lines \in Seq(Lines) /\ d.cut \in Seq(Lines)
           /\ d.cut # <<>> => d.cut[1] \in Lines
<1>0. PICK k \in 0..Len(s) :
           \E c \in {<<>>} \cup (IF k < Len(s) THEN {<<s[k + 1]>>} ELSE {}) :
              d = [lines |-> SubSeq(s, 1, k), cut |-> c]
  BY DEF Parts
<1>1. PICK cut \in {<<>>} \cup (IF k < Len(s) THEN {<<s[k + 1]>>} ELSE {}) :
           d = [lines |-> SubSeq(s, 1, k), cut |-> cut]
  BY <1>0
<1>2. SubSeq(s, 1, k) \in Seq(Lines)
  <2>1. Len(s) \in Nat /\ k \in Nat /\ k <= Len(s)
    BY <1>1
  <2>2. \A i \in 1..k : s[i] \in Lines
    BY <2>1, ElementOfSeq
  <2> QED
    BY <2>1, <2>2, SubSeqProperties
<1>3. cut \in Seq(Lines) /\ (cut # <<>> => cut[1] \in Lines)
  <2>1. CASE cut = <<>>
    BY <2>1
  <2>2. CASE cut # <<>>
    <3>1. k + 1 \in 1..Len(s) /\ cut = <<s[k + 1]>>
      BY <2>2, <1>1
    <3>2. s[k + 1] \in Lines
      BY <3>1, ElementOfSeq
    <3> QED
      BY <3>1, <3>2
  <2> QED
    BY <2>1, <2>2
<1> QED
  BY <1>1, <1>2, <1>3

\* The lines that a reader finds in an archive are lines.
LEMMA ListingsType ==
    ASSUME Typed, NEW n \in Names, NEW L \in Listings(n)
    PROVE  L \subseteq Lines
<1>1. PICK d \in OnDisk(n) :
           L \in IF d.cut = <<>> THEN {ToSet(d.lines)}
                 ELSE {ToSet(d.lines) \cup {l} : l \in Cuts(d.cut[1])}
  BY DEF Listings
<1>2. d.lines \in Seq(Lines) /\ (d.cut # <<>> => d.cut[1] \in Lines)
  <2>1. CASE Writers(n) = {}
    <3>1. d = [lines |-> arch[n].lines, cut |-> arch[n].cut]
      BY <2>1 DEF OnDisk
    <3>2. arch[n].lines \in Seq(Lines) /\ arch[n].cut \in Seq(Lines)
      BY DEF Typed, ArchRecs
    <3>3. arch[n].cut # <<>> => arch[n].cut[1] \in Lines
      BY <3>2
    <3> QED
      BY <3>1, <3>2, <3>3
  <2>2. CASE Writers(n) # {}
    <3>1. PICK p \in Writers(n) : d \in Parts(proc[p].sent)
      BY <2>2 DEF OnDisk
    <3>2. p \in Procs /\ proc[p].sent \in Seq(Lines)
      BY <3>1 DEF Writers, Typed, ProcRecs
    <3> QED
      BY <3>1, <3>2, PartsType
  <2> QED
    BY <2>1, <2>2
<1>3. ToSet(d.lines) \subseteq Lines
  BY <1>2, ToSetType
<1>4. CASE d.cut = <<>>
  BY <1>1, <1>3, <1>4
<1>5. CASE d.cut # <<>>
  <2>1. PICK l \in Cuts(d.cut[1]) : L = ToSet(d.lines) \cup {l}
    BY <1>1, <1>5
  <2>2. l \in Lines
    BY <2>1, <1>2, <1>5, CutsType
  <2> QED
    BY <2>1, <2>2, <1>3
<1> QED
  BY <1>4, <1>5
-----------------------------------------------------------------------------
(* Commands and archives. *)

\* What the names are.
LEMMA NameFacts ==
    /\ NoName \notin Names /\ Named \notin Procs /\ NoName # Named /\ NoName \notin Procs
    /\ Procs \subseteq Names /\ Named \in Names
    /\ \A n \in Names : n = Named \/ n \in Procs
<1>1. Cardinality(Procs) \in Nat /\ Procs = 1..Cardinality(Procs)
  BY ProcsAssumption, FS_CardinalityType
<1>2. \A n \in Procs : n \in Nat /\ n >= 1
  BY <1>1
<1> QED
  BY <1>2 DEF Names, Standard, Named, NoName

\* The types of what a process and an archive directory hold.
LEMMA ProcFields ==
    ASSUME Typed, NEW p \in Procs
    PROVE  /\ proc[p] \in ProcRecs /\ cmd[p] \in Cmds
           /\ proc[p].map \in Partial(Files, Lines) /\ proc[p].sent \in Seq(Lines)
           /\ proc[p].name \in Names \cup {NoName} /\ proc[p].base \in Names \cup {NoName}
           /\ proc[p].todo \subseteq Files /\ proc[p].alloc \subseteq Nat
  BY DEF Typed, ProcRecs

LEMMA ArchFields ==
    ASSUME Typed, NEW n \in Names
    PROVE  /\ arch[n] \in ArchRecs
           /\ arch[n].files \subseteq AllFiles
           /\ arch[n].lines \in Seq(Lines) /\ arch[n].cut \in Seq(Lines)
           /\ arch[n].blocks \in Partial(Indexes, Blocks)
  BY DEF Typed, ArchRecs, AllFiles

\* What End leaves of a process.
Ended(r, result, why) ==
    [Idle EXCEPT !.pc = "done", !.result = result, !.why = why, !.warned = r.warned,
                 !.hit  = result = "error" /\ r.hit,
                 !.name = IF result = "error" THEN r.name ELSE NoName]

Results == {"none", "ok", "error", "killed"}
Reasons == {"none", "repo", "exists", "base", "target", "stat", "block", "hash", "unused"}

LEMMA EndedFields ==
    \A r \in ProcRecs, result \in Results, why \in Reasons : \A e :
        e = Ended(r, result, why) =>
           /\ e \in ProcRecs
           /\ e.pc = "done" /\ e.result = result /\ e.why = why
           /\ e.warned = r.warned /\ e.sent = <<>> /\ e.map = <<>> /\ e.sure = FALSE
           /\ result = "error" => e.hit = r.hit /\ e.name = r.name
<1> SUFFICES
      ASSUME NEW r \in ProcRecs, NEW result \in Results, NEW why \in Reasons,
             NEW e, e = Ended(r, result, why)
      PROVE  /\ e \in ProcRecs
             /\ e.pc = "done" /\ e.result = result /\ e.why = why
             /\ e.warned = r.warned /\ e.sent = <<>> /\ e.map = <<>> /\ e.sure = FALSE
             /\ result = "error" => e.hit = r.hit /\ e.name = r.name
  OBVIOUS
<1>1. e = [pc |-> "done", name |-> IF result = "error" THEN r.name ELSE NoName,
           base |-> NoName, map |-> <<>>, todo |-> {}, sent |-> <<>>, alloc |-> {},
           used |-> {}, warned |-> r.warned, hit |-> (result = "error" /\ r.hit),
           sure |-> FALSE, result |-> result, why |-> why]
  BY DEF Ended, Idle
<1>2. <<>> \in Partial(Files, Lines) /\ <<>> \in Seq(Lines)
  BY EmptyFun
<1>3. r.name \in Names \cup {NoName} /\ r.warned \in BOOLEAN /\ r.hit \in BOOLEAN
  BY DEF ProcRecs
<1>4. "done" \in Places
  BY DEF Places
<1>5. e \in ProcRecs
  BY <1>1, <1>2, <1>3, <1>4 DEF ProcRecs, Results, Reasons
<1>6. /\ e.pc = "done" /\ e.result = result /\ e.why = why
      /\ e.sent = <<>> /\ e.map = <<>> /\ e.sure = FALSE
  BY <1>1
<1>7. e.warned = r.warned
  BY <1>1
<1>8. result = "error" => e.hit = r.hit /\ e.name = r.name
  BY <1>1, <1>3
<1> QED
  BY <1>5, <1>6, <1>7, <1>8
-----------------------------------------------------------------------------
(* Steps of one command that write no archive.  For the other commands nothing *)
(* changes, as their bases are archives of commands that have ended.           *)

LEMMA LocalKeeps ==
    ASSUME Inv, NEW p \in Procs, NEW r \in ProcRecs, proc' = [proc EXCEPT ![p] = r],
           UNCHANGED <<cmd, arch, data, damaged, live, deleting>>,
           repo' \in {"none", "directory", "ready"}, target' \in BOOLEAN,
           proc[p].pc \notin {"store", "close", "done"}, r.pc \notin {"store", "close"},
           proc[p].pc \in {"mark", "list"} => r.pc = "done",
           PlaceOk(cmd[p], r), KnownOk(r), NameOk(p, cmd[p], r, deleting), Cause(cmd[p], r),
           Running(p) \/ IOwn',
           cmd[p].op = "create" /\ r.pc \in MakingPlaces =>
               r.name \in Names /\ r.name \notin deleting /\ MakingOk(r, arch[r.name]),
           cmd[p].op = "create" /\ r.pc \in BasePlaces => OnBase(r),
           Trusts(r) => Sees(cmd[p], r)
    PROVE  Inv'
<1>t. Typed
  BY DEF Inv
<1>p. /\ \A q \in Procs : proc'[q] = IF q = p THEN r ELSE proc[q]
      /\ proc' \in [Procs -> ProcRecs]
  BY <1>t DEF Typed
<1>c. \A n : Closing(n)' <=> Closing(n)
  <2> SUFFICES ASSUME NEW n PROVE Closing(n)' <=> Closing(n)
    OBVIOUS
  <2>1. \A q \in Procs : q # p => proc'[q] = proc[q]
    BY <1>p
  <2>2. proc'[p].pc # "close" /\ proc[p].pc # "close"
    BY <1>p
  <2> QED
    BY <2>1, <2>2 DEF Closing, At
<1>d. \A n : At(n, "done") /\ n \in Procs => At(n, "done")'
  BY <1>p DEF At
<1>1. Typed'
  BY <1>t, <1>p DEF Typed
<1>2. IPlace'
  BY <1>p DEF Inv, IPlace
<1>3. IKnown'
  BY <1>p DEF Inv, IKnown
<1>4. IName'
  BY <1>p DEF Inv, IName
<1>5. IOwn'
  <2> SUFFICES ASSUME Running(p) PROVE IOwn'
    OBVIOUS
  <2>1. \A q \in Procs : Running(q)' => Running(q)
    BY <1>p DEF Running
  <2> QED
    BY <2>1 DEF Inv, IOwn
<1>6. IDirs'
  <2>1. \A q \in Procs : arch[q].dir => proc'[q].pc \in (MakingPlaces \cup {"done"}) \ {"mkdir"}
    <3> SUFFICES ASSUME NEW q \in Procs, arch[q].dir
                 PROVE  proc'[q].pc \in (MakingPlaces \cup {"done"}) \ {"mkdir"}
      OBVIOUS
    <3>1. proc[q].pc \in (MakingPlaces \cup {"done"}) \ {"mkdir"}
      BY DEF Inv, IDirs
    <3>2. CASE q = p
      <4>1. proc[p].pc \in {"mark", "list"}
        BY <3>1, <3>2 DEF MakingPlaces
      <4>2. r.pc = "done"
        BY <4>1
      <4> QED
        BY <4>2, <1>p, <3>2
    <3> QED
      BY <3>1, <3>2, <1>p
  <2> QED
    BY <2>1 DEF Inv, IDirs
<1>7. IMaking'
  <2> SUFFICES ASSUME NEW q \in Procs, Making(q)'
               PROVE  /\ proc'[q].name \notin deleting
                      /\ MakingOk(proc'[q], arch[proc'[q].name])
    BY DEF IMaking
  <2>1. CASE q = p
    BY <2>1, <1>p DEF Making
  <2>2. CASE q # p
    BY <2>2, <1>p DEF Making, Inv, IMaking
  <2> QED
    BY <2>1, <2>2
<1>8. IBase'
  <2> SUFFICES ASSUME NEW q \in Procs, Based(q)' PROVE OnBase(proc[q])'
    BY DEF IBase
  <2>1. CASE q = p
    <3>1. OnBase(r)
      BY <2>1, <1>p DEF Based
    <3> QED
      BY <3>1, <2>1, <1>p, <1>d DEF OnBase
  <2>2. CASE q # p
    <3>1. OnBase(proc[q])
      BY <2>2, <1>p DEF Based, Inv, IBase
    <3>2. proc'[q] = proc[q]
      BY <2>2, <1>p
    <3> QED
      BY <3>1, <3>2, <1>d DEF OnBase
  <2> QED
    BY <2>1, <2>2
<1>9. IStore'
  <2> SUFFICES ASSUME NEW q \in Procs
               PROVE  /\ proc'[q].pc \in {"store", "close"} => SentOk(proc[q], Own(q), data, live)'
                      /\ proc'[q].pc = "store" => AllocOk(proc[q], Own(q).blocks, Base(q).blocks)'
    BY DEF IStore
  <2>1. CASE q = p
    BY <2>1, <1>p
  <2>2. CASE q # p
    <3>1. proc'[q] = proc[q]
      BY <2>2, <1>p
    <3>2. Own(q)' = Own(q) /\ Base(q)' = Base(q)
      BY <3>1 DEF Own, Base
    <3> QED
      BY <3>1, <3>2 DEF Inv, IStore
  <2> QED
    BY <2>1, <2>2
<1>10. IData'
  <2>1. \A q \in Procs, f \in Files :
          <<q, f>> \in DOMAIN data =>
              \/ proc'[q].pc \in {"close", "done"}
              \/ proc'[q].pc = "store" /\ f \notin proc'[q].todo
    <3> SUFFICES ASSUME NEW q \in Procs, NEW f \in Files, <<q, f>> \in DOMAIN data
                 PROVE  \/ proc'[q].pc \in {"close", "done"}
                        \/ proc'[q].pc = "store" /\ f \notin proc'[q].todo
      OBVIOUS
    <3>1. \/ proc[q].pc \in {"close", "done"}
          \/ proc[q].pc = "store" /\ f \notin proc[q].todo
      BY DEF Inv, IData
    <3>2. q # p
      BY <3>1
    <3> QED
      BY <3>1, <3>2, <1>p
  <2> QED
    BY <2>1 DEF Inv, IData
<1>11. IArch'
  BY <1>c DEF Inv, IArch
<1>12. IRead'
  <2> SUFFICES ASSUME NEW q \in Procs, Trusts(proc'[q]) PROVE Sees(cmd[q], proc[q])'
    BY DEF IRead, Trusts
  <2>1. CASE q = p
    BY <2>1, <1>p, <1>c DEF Sees
  <2>2. CASE q # p
    <3>1. proc'[q] = proc[q]
      BY <2>2, <1>p
    <3>2. Sees(cmd[q], proc[q])
      BY <3>1 DEF Inv, IRead
    <3> QED
      BY <3>1, <3>2, <1>c DEF Sees
  <2> QED
    BY <2>1, <2>2
<1>13. ICause'
  BY <1>p DEF Inv, ICause
<1> QED
  BY <1>1, <1>2, <1>3, <1>4, <1>5, <1>6, <1>7, <1>8, <1>9, <1>10, <1>11, <1>12, <1>13 DEF Inv

\* A command that ends, and not with its archive half written.
LEMMA LocalEnds ==
    ASSUME Inv, NEW p \in Procs, NEW result \in Results, NEW why \in Reasons,
           End(p, result, why),
           UNCHANGED <<cmd, arch, data, damaged, live, deleting>>,
           repo' \in {"none", "directory", "ready"}, target' \in BOOLEAN,
           proc[p].pc \notin {"store", "close", "done"},
           cmd[p].op = "create" /\ result = "error" =>
               \/ why = "repo"
               \/ why = "exists" /\ proc[p].name = Named
               \/ why = "base" /\ proc[p].hit
    PROVE  Inv'
<1>1. proc[p] \in ProcRecs
  BY DEF Inv, Typed
<1>2. PICK e : e = Ended(proc[p], result, why)
  OBVIOUS
<1>3. /\ e \in ProcRecs
      /\ e.pc = "done" /\ e.result = result /\ e.why = why
      /\ e.warned = proc[p].warned /\ e.sent = <<>> /\ e.map = <<>> /\ e.sure = FALSE
      /\ result = "error" => e.hit = proc[p].hit /\ e.name = proc[p].name
  BY <1>1, <1>2, EndedFields
<1>4. proc' = [proc EXCEPT ![p] = e]
  BY <1>2 DEF End, Ended
<1>5. PlaceOk(cmd[p], e) /\ KnownOk(e) /\ NameOk(p, cmd[p], e, deleting)
  <2>1. DOMAIN e.map = {}
    BY <1>3
  <2> QED
    BY <1>3, <2>1 DEF PlaceOk, KnownOk, NameOk, Past
<1>6. Cause(cmd[p], e)
  BY <1>3 DEF Cause
<1>7. Running(p) \/ IOwn'
  <2>1. SUFFICES ASSUME ~Running(p) PROVE IOwn'
    OBVIOUS
  <2>2. \A q \in Procs : Running(q)' => Running(q)
    BY <1>3, <1>4 DEF Running, Inv, Typed
  <2> QED
    BY <2>2 DEF Inv, IOwn
<1>8. e.pc \notin MakingPlaces /\ e.pc \notin BasePlaces /\ ~Trusts(e)
  BY <1>3 DEF MakingPlaces, BasePlaces, Trusts
<1> QED
  BY <1>1, <1>3, <1>4, <1>5, <1>6, <1>7, <1>8, LocalKeeps

\* A command that starts.
LEMMA StartKeeps ==
    ASSUME Inv, NEW p \in Procs, Start(p)
    PROVE  Inv'
<1>0. Typed /\ proc[p].pc = "idle"
  BY DEF Inv, Start, At
<1>u. UNCHANGED <<cmd, arch, data, damaged, live, deleting, repo, target>>
  BY DEF Start
<1>t. repo' \in {"none", "directory", "ready"} /\ target' \in BOOLEAN
  BY <1>0, <1>u DEF Typed
<1>1. CASE cmd[p].op # "init" /\ repo # "ready"
  <2>1. End(p, "error", "repo")
    BY <1>1 DEF Start, Fail
  <2> QED
    BY <2>1, <1>0, <1>u, <1>t, LocalEnds DEF Results, Reasons
<1>2. CASE ~(cmd[p].op # "init" /\ repo # "ready")
  <2>1. PICK r : r = [proc[p] EXCEPT !.pc = IF cmd[p].op = "init" THEN "mkrepo" ELSE "scan"]
    OBVIOUS
  <2>2. proc[p] \in ProcRecs
    BY <1>0 DEF Typed
  <2>3. r \in ProcRecs /\ r.pc = IF cmd[p].op = "init" THEN "mkrepo" ELSE "scan"
    BY <2>1, <2>2 DEF ProcRecs, Places
  <2>4. r.result = proc[p].result /\ r.sent = proc[p].sent /\ r.map = proc[p].map
        /\ r.used = proc[p].used /\ r.warned = proc[p].warned /\ r.sure = proc[p].sure
    BY <2>1, <2>2 DEF ProcRecs
  <2>5. proc' = [proc EXCEPT ![p] = r]
    BY <2>1, <1>2, <1>0 DEF Start, Typed
  <2>6. PlaceOk(cmd[p], r) /\ NameOk(p, cmd[p], r, deleting)
    BY <2>3 DEF PlaceOk, NameOk, Past
  <2>7. KnownOk(r)
    <3>1. KnownOk(proc[p])
      BY DEF Inv, IKnown
    <3> QED
      BY <3>1, <1>0, <2>3, <2>4 DEF KnownOk
  <2>8. Cause(cmd[p], r)
    BY <2>3, <2>4, <2>7 DEF Cause, KnownOk
  <2>9. IOwn'
    <3>1. \A q \in Procs : q # p => (Running(q)' <=> Running(q))
      BY <2>5, <1>0 DEF Running, Typed
    <3>2. cmd[p].op = "create" /\ cmd[p].name # NoName =>
              \A q \in Procs : Running(q) /\ cmd[q].op = "create" => cmd[q].name # cmd[p].name
      BY DEF Start
    <3>3. \A q \in Procs : cmd[q].op = "create" => cmd[q].name \in {Named, NoName}
      BY <1>0 DEF Typed
    <3> QED
      BY <3>1, <3>2, <3>3, <1>u DEF Inv, IOwn
  <2>10. r.pc \notin MakingPlaces /\ r.pc \notin BasePlaces /\ ~Trusts(r)
    BY <2>3 DEF MakingPlaces, BasePlaces, Trusts
  <2> QED
    BY <2>3, <2>5, <2>6, <2>7, <2>8, <2>9, <2>10, <1>0, <1>u, <1>t, LocalKeeps
<1> QED
  BY <1>1, <1>2

\* init.
LEMMA MakeRepoKeeps ==
    ASSUME Inv, NEW p \in Procs, MakeRepo(p) \/ MarkRepo(p)
    PROVE  Inv'
<1>0. Typed /\ proc[p].pc \in {"mkrepo", "mkid"}
  BY DEF Inv, MakeRepo, MarkRepo, At
<1>i. cmd[p].op = "init"
  BY <1>0 DEF Inv, IPlace, PlaceOk
<1>u. UNCHANGED <<cmd, arch, data, damaged, live, deleting, target>>
  BY DEF MakeRepo, MarkRepo
<1>t. repo' \in {"none", "directory", "ready"} /\ target' \in BOOLEAN
  BY <1>0, <1>u DEF Typed, MakeRepo, MarkRepo
<1>1. CASE MarkRepo(p)
  <2>1. End(p, "ok", "none")
    BY <1>1 DEF MarkRepo
  <2> QED
    BY <2>1, <1>0, <1>u, <1>t, LocalEnds DEF Results, Reasons
<1>2. CASE MakeRepo(p)
  <2>1. PICK r : r = [proc[p] EXCEPT !.pc = "mkid"]
    OBVIOUS
  <2>2. proc[p] \in ProcRecs
    BY <1>0 DEF Typed
  <2>3. r \in ProcRecs /\ r.pc = "mkid"
    BY <2>1, <2>2 DEF ProcRecs, Places
  <2>4. r.result = proc[p].result /\ r.sent = proc[p].sent /\ r.map = proc[p].map
        /\ r.used = proc[p].used /\ r.warned = proc[p].warned /\ r.sure = proc[p].sure
    BY <2>1, <2>2 DEF ProcRecs
  <2>5. proc' = [proc EXCEPT ![p] = r]
    BY <2>1, <1>2, <1>0 DEF MakeRepo, Goto, Typed
  <2>6. PlaceOk(cmd[p], r) /\ NameOk(p, cmd[p], r, deleting)
    BY <2>3, <1>i DEF PlaceOk, NameOk, Past
  <2>7. KnownOk(r)
    <3>1. KnownOk(proc[p])
      BY DEF Inv, IKnown
    <3> QED
      BY <3>1, <1>0, <2>3, <2>4 DEF KnownOk
  <2>8. Cause(cmd[p], r)
    BY <2>3, <2>4, <2>7 DEF Cause, KnownOk
  <2>9. Running(p)
    BY <1>0 DEF Running
  <2>10. r.pc \notin MakingPlaces /\ r.pc \notin BasePlaces /\ ~Trusts(r)
    BY <2>3 DEF MakingPlaces, BasePlaces, Trusts
  <2> QED
    BY <2>3, <2>5, <2>6, <2>7, <2>8, <2>9, <2>10, <1>0, <1>u, <1>t, LocalKeeps
<1> QED
  BY <1>1, <1>2

\* The latest archive, if there is one, is finished; so the command that made it
\* has ended, when nobody sees it between Finished and the close of its list.
LEMMA LatestFacts ==
    ASSUME Inv, ~Exposed, ~Hidden, Latest # NoName
    PROVE  /\ Latest \in Procs /\ At(Latest, "done")
           /\ "Finished" \in arch[Latest].files /\ ~Closing(Latest)
<1> DEFINE fin == {n \in Procs : {"ID", "Finished"} \subseteq arch[n].files}
<1>1. Cardinality(Procs) \in Nat /\ Procs = 1..Cardinality(Procs)
  BY ProcsAssumption, FS_CardinalityType
<1>2. Latest = CHOOSE n \in fin \cup {NoName} : \A m \in fin : m <= n
  BY DEF Latest, Standard
<1>3. \E n \in fin \cup {NoName} : \A m \in fin : m <= n
  <2> DEFINE N == Cardinality(Procs)
             T == {N - m : m \in fin}
  <2>1. CASE fin = {}
    BY <2>1
  <2>2. CASE fin # {}
    <3>1. \A m \in fin : m \in 1..N
      BY <1>1
    <3>2. T \subseteq Nat /\ T # {}
      <4>1. \A m \in 1..N : N - m \in Nat
        BY <1>1
      <4> HIDE DEF fin, N
      <4> QED
        BY <3>1, <2>2, <4>1
    <3>3. PICK x \in T : \A y \in T : x <= y
      <4> HIDE DEF T
      <4> QED
        BY <3>2, LeastNat
    <3>4. PICK n \in fin : x = N - n
      BY <3>3
    <3>5. \A m \in fin : N - n <= N - m
      BY <3>3, <3>4
    <3>6. \A m \in fin : m <= n
      <4> SUFFICES ASSUME NEW m \in fin PROVE m <= n
        OBVIOUS
      <4>1. N - n <= N - m /\ m \in 1..N /\ n \in 1..N /\ N \in Nat
        BY <3>1, <3>5, <1>1
      <4> HIDE DEF N, fin
      <4> QED
        BY <4>1
    <3> QED
      BY <3>6
  <2> QED
    BY <2>1, <2>2
<1>4. Latest \in fin \cup {NoName}
  <2> HIDE DEF fin
  <2> QED
    BY <1>2, <1>3
<1>5. Latest \in Procs /\ "Finished" \in arch[Latest].files
  BY <1>4
<1>6. ~Closing(Latest)
  BY <1>5, NameFacts DEF Hidden
<1>7. At(Latest, "done")
  <2> DEFINE n == Latest
  <2>1. n \in Names /\ n \in Procs /\ "Finished" \in arch[n].files
    BY <1>5, NameFacts
  <2> HIDE DEF n
  <2>2. arch[n].dir
    BY <2>1 DEF Inv, IDirs, NoArch
  <2>3. /\ cmd[n].op = "create" /\ cmd[n].name = NoName
        /\ proc[n].pc \in (MakingPlaces \cup {"done"}) \ {"mkdir"}
    BY <2>1, <2>2 DEF Inv, IDirs
  <2>4. SUFFICES ASSUME proc[n].pc \in MakingPlaces PROVE FALSE
    BY <2>3 DEF At, n
  <2>5. proc[n].name = n
    BY <2>1, <2>3, <2>4 DEF Inv, IName, NameOk, Past, MakingPlaces
  <2>6. MakingOk(proc[n], arch[n])
    BY <2>1, <2>3, <2>4, <2>5 DEF Inv, IMaking, Making
  <2>7. proc[n].pc = "close"
    BY <2>1, <2>3, <2>4, <2>6 DEF MakingOk, MakingPlaces
  <2>8. Closing(n)
    BY <2>1, <2>5, <2>7 DEF Closing, At
  <2> QED
    BY <2>8, <1>6 DEF n
<1> QED
  BY <1>5, <1>6, <1>7

\* What Scan makes of a process.
Scanned(s, n, b, h, c) == [s EXCEPT !.name = n, !.base = b, !.hit = h, !.pc = c]

LEMMA ScannedType ==
    ASSUME NEW s \in ProcRecs, NEW n \in Names \cup {NoName}, NEW b \in Names \cup {NoName},
           NEW h \in BOOLEAN, NEW c \in Places
    PROVE  Scanned(s, n, b, h, c) \in ProcRecs
<1>0. PICK r : r = Scanned(s, n, b, h, c)
  OBVIOUS
<1>1. PICK x : x = [s EXCEPT !.name = n]
  OBVIOUS
<1>2. PICK y : y = [x EXCEPT !.base = b]
  OBVIOUS
<1>3. PICK z : z = [y EXCEPT !.hit = h]
  OBVIOUS
<1>4. r = [z EXCEPT !.pc = c]
  BY <1>0, <1>1, <1>2, <1>3 DEF Scanned
<1>5. x \in ProcRecs /\ y \in ProcRecs
  BY <1>1, <1>2 DEF ProcRecs
<1>6. z \in ProcRecs
  BY <1>3, <1>5 DEF ProcRecs
<1>7. r \in ProcRecs
  BY <1>4, <1>6 DEF ProcRecs
<1> QED
  BY <1>0, <1>7

\* A command that knows its archive.
LEMMA ScanKeeps ==
    ASSUME Inv, NEW p \in Procs, ~Exposed, Scan(p)
    PROVE  Inv'
<1>0. Typed /\ proc[p].pc = "scan" /\ ~Hidden /\ proc[p] \in ProcRecs
  BY DEF Inv, Scan, At, Typed
<1>i. cmd[p].op # "init"
  BY <1>0 DEF Inv, IPlace, PlaceOk
<1>u. UNCHANGED <<cmd, arch, data, damaged, live, deleting, repo, target>>
  BY DEF Scan
<1>t. repo' \in {"none", "directory", "ready"} /\ target' \in BOOLEAN
  BY <1>0, <1>u DEF Typed
<1>c. cmd[p].name \in Names \cup {NoName} /\ cmd[p].op \in {"init", "create"} \cup Readers
      /\ (cmd[p].op = "create" => cmd[p].name \in {Named, NoName})
  BY <1>0 DEF Typed, Cmds
<1>l. Latest \in Names \cup {NoName}
  BY <1>0, LatestFacts, NameFacts
<1>k. /\ proc[p].result = "none" /\ proc[p].sent = <<>> /\ proc[p].map = <<>>
      /\ proc[p].used = {} /\ proc[p].warned = FALSE /\ proc[p].sure = FALSE
  BY <1>0 DEF Inv, IKnown, KnownOk
<1>w. Running(p)
  BY <1>0 DEF Running
<1>b. \A n : (n \in deleting) \in BOOLEAN
  OBVIOUS
<1>e. DOMAIN <<>> = {}
  OBVIOUS
<1>1. CASE cmd[p].op = "create"
  <2> DEFINE n == IF cmd[p].name = NoName THEN p ELSE cmd[p].name
             b == IF cmd[p].rebase THEN NoName ELSE Latest
             h == b \in deleting
             c == IF b = NoName THEN "check" ELSE "open"
  <2>1. /\ n \in Names /\ b \in Names \cup {NoName} /\ h \in BOOLEAN /\ c \in Places
        /\ n = IF cmd[p].name = NoName THEN p ELSE Named
    BY <1>c, <1>l, <1>1, NameFacts DEF Places
  <2>2. PICK r : r = Scanned(proc[p], n, b, h, c)
    OBVIOUS
  <2>3. proc' = [proc EXCEPT ![p] = r]
    <3>1. proc' = [proc EXCEPT ![p].name = n, ![p].base = b, ![p].hit = h, ![p].pc = c]
      BY <1>1 DEF Scan
    <3> HIDE DEF n, b, h, c
    <3> QED
      BY <3>1, <2>2, <1>0 DEF Typed, Scanned
  <2>b. b # NoName => /\ b \in Procs /\ At(b, "done")
                      /\ "Finished" \in arch[b].files /\ ~Closing(b)
    BY <1>0, LatestFacts
  <2>h. (b \in deleting => h) /\ (c = "open" => b # NoName) /\ c \in {"check", "open"}
    OBVIOUS
  <2> HIDE DEF n, b, h, c
  <2>4. /\ r \in ProcRecs /\ r.name = n /\ r.base = b /\ r.hit = h /\ r.pc = c
        /\ r.result = "none" /\ r.sent = <<>> /\ r.map = <<>>
        /\ r.used = {} /\ r.warned = FALSE /\ r.sure = FALSE
    <3>1. r \in ProcRecs
      BY <1>0, <2>1, <2>2, ScannedType
    <3>2. r.name = n /\ r.base = b /\ r.pc = c
      BY <1>0, <2>2 DEF Scanned, ProcRecs
    <3>3. r.hit = h
      BY <1>0, <2>2 DEF Scanned, ProcRecs
    <3>4. r.result = "none" /\ r.sent = <<>> /\ r.map = <<>> /\ r.used = {}
      BY <1>0, <1>k, <2>2 DEF Scanned, ProcRecs
    <3>5. r.warned = FALSE /\ r.sure = FALSE
      BY <1>0, <1>k, <2>2 DEF Scanned, ProcRecs
    <3> QED
      BY <3>1, <3>2, <3>3, <3>4, <3>5
  <2>5. PlaceOk(cmd[p], r) /\ KnownOk(r) /\ Cause(cmd[p], r)
    BY <2>4, <2>h, <1>1, <1>e DEF PlaceOk, KnownOk, Cause
  <2>6. NameOk(p, cmd[p], r, deleting)
    BY <2>4, <2>1, <2>h, <1>1 DEF NameOk, Readers
  <2>7. r.pc \notin MakingPlaces /\ ~Trusts(r) /\ r.pc \notin {"store", "close"}
    BY <2>4, <2>h DEF MakingPlaces, Trusts
  <2>8. OnBase(r)
    <3>1. SUFFICES ASSUME b # NoName PROVE BaseOk(r, arch[b], data)
      BY <2>b, <2>4, <2>h DEF OnBase
    <3>2. b \in Names /\ "Finished" \in arch[b].files /\ ~Closing(b)
      BY <2>b, <3>1, NameFacts
    <3>3. ArchOk(arch[b], data, b \notin deleting)
      BY <3>2 DEF Inv, IArch
    <3>4. r.pc # "open" => FALSE
      BY <2>4, <3>1 DEF c
    <3> QED
      BY <3>2, <3>3, <3>4 DEF BaseOk, ArchOk
  <2> QED
    BY <2>3, <2>4, <2>5, <2>6, <2>7, <2>8, <1>0, <1>u, <1>t, <1>w, LocalKeeps
<1>2. CASE cmd[p].op # "create"
  <2> DEFINE b == IF cmd[p].name = NoName THEN Latest ELSE cmd[p].name
             h == b \in deleting
  <2>1. b \in Names \cup {NoName} /\ h \in BOOLEAN /\ "open" \in Places
    BY <1>c, <1>l DEF Places
  <2>2. PICK r : r = Scanned(proc[p], b, b, h, "open")
    OBVIOUS
  <2>3. proc' = [proc EXCEPT ![p] = r]
    <3>1. proc' = [proc EXCEPT ![p].name = b, ![p].base = b, ![p].hit = h, ![p].pc = "open"]
      BY <1>2 DEF Scan
    <3> HIDE DEF b, h
    <3> QED
      BY <3>1, <2>2, <1>0 DEF Typed, Scanned
  <2>h. b \in deleting => h
    OBVIOUS
  <2> HIDE DEF b, h
  <2>4. /\ r \in ProcRecs /\ r.name = b /\ r.base = b /\ r.hit = h /\ r.pc = "open"
        /\ r.result = "none" /\ r.sent = <<>> /\ r.map = <<>>
        /\ r.used = {} /\ r.warned = FALSE /\ r.sure = FALSE
    <3>1. r \in ProcRecs
      BY <1>0, <2>1, <2>2, ScannedType
    <3>2. r.name = b /\ r.base = b /\ r.pc = "open"
      BY <1>0, <2>2 DEF Scanned, ProcRecs
    <3>3. r.hit = h
      BY <1>0, <2>2 DEF Scanned, ProcRecs
    <3>4. r.result = "none" /\ r.sent = <<>> /\ r.map = <<>> /\ r.used = {}
      BY <1>0, <1>k, <2>2 DEF Scanned, ProcRecs
    <3>5. r.warned = FALSE /\ r.sure = FALSE
      BY <1>0, <1>k, <2>2 DEF Scanned, ProcRecs
    <3> QED
      BY <3>1, <3>2, <3>3, <3>4, <3>5
  <2>5. PlaceOk(cmd[p], r) /\ KnownOk(r) /\ Cause(cmd[p], r)
    BY <2>4, <1>2, <1>i, <1>e DEF PlaceOk, KnownOk, Cause
  <2>6. NameOk(p, cmd[p], r, deleting)
    BY <2>4, <2>h, <1>2 DEF NameOk
  <2>7. ~Trusts(r)
    BY <2>4 DEF Trusts
  <2> QED
    BY <2>3, <2>4, <2>5, <2>6, <2>7, <1>0, <1>2, <1>u, <1>t, <1>w, LocalKeeps
<1> QED
  BY <1>1, <1>2

\* No backup works on an archive whose own command has ended.
LEMMA NobodyWrites ==
    ASSUME Inv, NEW n \in Procs, At(n, "done")
    PROVE  /\ \A q \in Procs : cmd[q].op = "create" /\ proc[q].pc \in Past => proc[q].name # n
           /\ ~Closing(n) /\ Writers(n) = {}
<1>1. ASSUME NEW q \in Procs, cmd[q].op = "create", proc[q].pc \in Past
      PROVE  proc[q].name # n
  <2>1. proc[q].name = IF cmd[q].name = NoName THEN q ELSE Named
    BY <1>1 DEF Inv, IName, NameOk
  <2>2. q # n
    BY <1>1 DEF At, Past
  <2> QED
    BY <2>1, <2>2, NameFacts
<1>2. \A q \in Procs : proc[q].pc \in {"store", "close"} =>
          cmd[q].op = "create" /\ proc[q].pc \in Past
  BY DEF Inv, IPlace, PlaceOk, Past
<1>3. ~Closing(n)
  BY <1>1, <1>2 DEF Closing, At
<1>4. Writers(n) = {}
  BY <1>1, <1>2 DEF Writers
<1> QED
  BY <1>1, <1>3, <1>4

\* Nor on one that has its Finished file, but to close its list.
LEMMA NobodyWritesFinished ==
    ASSUME Inv, NEW n \in Names, "Finished" \in arch[n].files, ~Closing(n)
    PROVE  /\ \A q \in Procs : Making(q) => proc[q].name # n
           /\ Writers(n) = {}
<1>1. ASSUME NEW q \in Procs, Making(q), proc[q].name = n
      PROVE  FALSE
  <2>1. MakingOk(proc[q], arch[n])
    BY <1>1 DEF Inv, IMaking
  <2>2. proc[q].pc \in MakingPlaces
    BY <1>1 DEF Making
  <2>3. proc[q].pc = "close"
    BY <2>1, <2>2 DEF MakingOk, MakingPlaces
  <2> QED
    BY <1>1, <2>3 DEF Closing, At
<1>2. \A q \in Procs : proc[q].pc \in {"store", "close"} => Making(q)
  BY DEF Inv, IPlace, PlaceOk, Making, MakingPlaces
<1> QED
  BY <1>1, <1>2 DEF Writers

\* The list of an archive that nobody writes is read as it is.
LEMMA ListingsQuiet ==
    ASSUME NEW n, Writers(n) = {}, arch[n].cut = <<>>
    PROVE  Listings(n) = {ToSet(arch[n].lines)} /\ \A d \in OnDisk(n) : d.cut = <<>>
<1>1. OnDisk(n) = {[lines |-> arch[n].lines, cut |-> arch[n].cut]}
  BY DEF OnDisk
<1> QED
  BY <1>1 DEF Listings

\* A base that has not been deleted is whole.
LEMMA BaseWhole ==
    ASSUME Inv, NEW p \in Procs, Based(p), proc[p].base # NoName, ~proc[p].hit
    PROVE  /\ proc[p].base \notin deleting /\ arch[proc[p].base].dir
           /\ ArchOk(arch[proc[p].base], data, TRUE)
<1>1. OnBase(proc[p])
  BY DEF Inv, IBase
<1>2. proc[p].base \in Procs /\ At(proc[p].base, "done") /\ "Finished" \in arch[proc[p].base].files
  BY <1>1 DEF OnBase, BaseOk
<1>3. ~Closing(proc[p].base) /\ proc[p].base \in Names
  BY <1>2, NobodyWrites, NameFacts
<1>4. proc[p].base \notin deleting
  <2>1. proc[p].pc \in Past
    BY DEF Based, BasePlaces, Past
  <2> QED
    BY <2>1 DEF Inv, IName, NameOk
<1>5. ArchOk(arch[proc[p].base], data, TRUE)
  BY <1>2, <1>3, <1>4 DEF Inv, IArch
<1>6. arch[proc[p].base].dir
  BY <1>2, <1>3 DEF Inv, IDirs, NoArch
<1> QED
  BY <1>4, <1>5, <1>6

\* A command that cannot open its archive.
LEMMA OpenFailsKeeps ==
    ASSUME Inv, NEW p \in Procs, ~Exposed, OpenFails(p)
    PROVE  Inv'
<1>0. Typed /\ proc[p].pc = "open"
  BY DEF Inv, OpenFails, At
<1>u. UNCHANGED <<cmd, arch, data, damaged, live, deleting, repo, target>>
  BY DEF OpenFails
<1>t. repo' \in {"none", "directory", "ready"} /\ target' \in BOOLEAN
  BY <1>0, <1>u DEF Typed
<1> DEFINE why == IF proc[p].base = NoName THEN "none" ELSE "base"
<1>1. End(p, "error", why)
  BY DEF OpenFails, Fail
<1>2. cmd[p].op = "create" => why = "base" /\ proc[p].hit
  <2> SUFFICES ASSUME cmd[p].op = "create" PROVE why = "base" /\ proc[p].hit
    OBVIOUS
  <2>1. Based(p)
    BY <1>0 DEF Based, BasePlaces
  <2>2. OnBase(proc[p])
    BY <2>1 DEF Inv, IBase
  <2>3. proc[p].base # NoName /\ proc[p].base \in Procs /\ At(proc[p].base, "done")
    BY <2>2, <1>0 DEF OnBase
  <2>4. ASSUME ~proc[p].hit PROVE FALSE
    <3>1. ArchOk(arch[proc[p].base], data, TRUE)
      BY <2>1, <2>3, <2>4, BaseWhole
    <3>2. Readable(proc[p].base)
      BY <3>1, <2>3 DEF ArchOk, Readable, AllFiles
    <3>3. \A d \in OnDisk(proc[p].base) : d.cut = <<>>
      BY <3>1, <2>3, NobodyWrites, ListingsQuiet DEF ArchOk
    <3> QED
      BY <3>2, <3>3 DEF OpenFails
  <2> QED
    BY <2>3, <2>4
<1>3. why \in Reasons /\ "error" \in Results
  BY DEF Reasons, Results
<1> HIDE DEF why
<1> QED
  BY <1>0, <1>1, <1>2, <1>3, <1>u, <1>t, LocalEnds

\* What Open makes of a process.
Opened(s, m, t, u, c) == [s EXCEPT !.map = m, !.todo = t, !.sure = u, !.pc = c]

LEMMA OpenedType ==
    ASSUME NEW s \in ProcRecs, NEW m \in Partial(Files, Lines), NEW t \in SUBSET Files,
           NEW u \in BOOLEAN, NEW c \in Places
    PROVE  Opened(s, m, t, u, c) \in ProcRecs
<1>0. PICK r : r = Opened(s, m, t, u, c)
  OBVIOUS
<1>1. PICK x : x = [s EXCEPT !.map = m]
  OBVIOUS
<1>2. PICK y : y = [x EXCEPT !.todo = t]
  OBVIOUS
<1>3. PICK z : z = [y EXCEPT !.sure = u]
  OBVIOUS
<1>4. r = [z EXCEPT !.pc = c]
  BY <1>0, <1>1, <1>2, <1>3 DEF Opened
<1>5. x \in ProcRecs /\ y \in ProcRecs
  BY <1>1, <1>2 DEF ProcRecs
<1>6. z \in ProcRecs
  BY <1>3, <1>5 DEF ProcRecs
<1>7. r \in ProcRecs
  BY <1>4, <1>6 DEF ProcRecs
<1> QED
  BY <1>0, <1>7

\* A command that opens its archive.
LEMMA OpenKeeps ==
    ASSUME Inv, NEW p \in Procs, ~Exposed, Open(p)
    PROVE  Inv'
<1>0. Typed /\ proc[p].pc = "open" /\ ~Hidden /\ proc[p] \in ProcRecs /\ Readable(proc[p].base)
  BY DEF Inv, Open, At, Typed
<1>i. cmd[p].op \in {"create"} \cup Readers
  BY <1>0 DEF Inv, IPlace, PlaceOk, Typed, Cmds
<1>u. UNCHANGED <<cmd, arch, data, damaged, live, deleting, repo, target>>
  BY DEF Open
<1>t. repo' \in {"none", "directory", "ready"} /\ target' \in BOOLEAN
  BY <1>0, <1>u DEF Typed
<1> DEFINE b == proc[p].base
<1>b. b \in Names
  BY <1>0 DEF Readable, ProcRecs
<1>w. Running(p)
  BY <1>0 DEF Running
<1>k. /\ proc[p].result = "none" /\ proc[p].sent = <<>>
      /\ proc[p].used = {} /\ proc[p].warned = FALSE
  BY <1>0 DEF Inv, IKnown, KnownOk
<1>n. NameOk(p, cmd[p], proc[p], deleting)
  BY DEF Inv, IName
<1>1. PICK L \in Listings(b) :
           proc' = [proc EXCEPT ![p].map  = ByFile(L),
                                ![p].todo = IF cmd[p].op = "create" THEN {} ELSE DOMAIN ByFile(L),
                                ![p].sure = "Finished" \in arch[b].files,
                                ![p].pc   = CASE cmd[p].op = "create"  -> "check"
                                              [] cmd[p].op = "extract" -> "target"
                                              [] OTHER -> "read"]
  BY DEF Open
<1> DEFINE m == ByFile(L)
           t == IF cmd[p].op = "create" THEN {} ELSE DOMAIN m
           u == "Finished" \in arch[b].files
           c == CASE cmd[p].op = "create"  -> "check"
                  [] cmd[p].op = "extract" -> "target"
                  [] OTHER -> "read"
<1>2. L \subseteq Lines
  BY <1>0, <1>b, ListingsType
<1>3. /\ m \in Partial(Files, L) /\ \A f \in DOMAIN m : m[f] \in L /\ m[f].file = f
      /\ (\A l, k \in L : l.file = k.file => l = k) => Range(m) = L
  BY <1>2, ByFileRows DEF Lines
<1>4. m \in Partial(Files, Lines)
  BY <1>2, <1>3, PartialDef
<1>5. /\ t \in SUBSET Files /\ u \in BOOLEAN /\ c \in {"check", "target", "read"} /\ c \in Places
      /\ cmd[p].op = "create" => c = "check"
      /\ cmd[p].op # "create" => c \in {"target", "read"} /\ t = DOMAIN m
  BY <1>4, PartialDef DEF Places
<1>6. PICK r : r = Opened(proc[p], m, t, u, c)
  OBVIOUS
<1>7. proc' = [proc EXCEPT ![p] = r]
  <2>1. proc' = [proc EXCEPT ![p].map = m, ![p].todo = t, ![p].sure = u, ![p].pc = c]
    BY <1>1
  <2> HIDE DEF m, t, u, c
  <2> QED
    BY <2>1, <1>6, <1>0 DEF Typed, Opened
<1>8. u => "Finished" \in arch[b].files
  OBVIOUS
<1> HIDE DEF b, m, t, u, c
<1>9. r \in ProcRecs
  BY <1>0, <1>4, <1>5, <1>6, OpenedType
<1>10. r.map = m /\ r.todo = t /\ r.pc = c
  BY <1>0, <1>6 DEF Opened, ProcRecs
<1>11. r.sure = u
  BY <1>0, <1>6 DEF Opened, ProcRecs
<1>12. /\ r.result = "none" /\ r.sent = <<>> /\ r.used = {}
       /\ r.name = proc[p].name /\ r.base = proc[p].base
  BY <1>0, <1>6, <1>k DEF Opened, ProcRecs
<1>13. r.warned = FALSE
  BY <1>0, <1>6, <1>k DEF Opened, ProcRecs
<1>14. r.hit = proc[p].hit
  BY <1>0, <1>6, <1>k DEF Opened, ProcRecs
<1>15. PlaceOk(cmd[p], r) /\ KnownOk(r) /\ Cause(cmd[p], r)
  BY <1>3, <1>5, <1>10, <1>12, <1>i DEF PlaceOk, KnownOk, Cause, Readers
<1>16. NameOk(p, cmd[p], r, deleting)
  BY <1>0, <1>n, <1>12, <1>14 DEF NameOk, Past
<1>17. r.pc \notin MakingPlaces /\ r.pc \notin {"store", "close"}
  BY <1>5, <1>10 DEF MakingPlaces
<1>18. cmd[p].op = "create" => OnBase(r)
  <2> SUFFICES ASSUME cmd[p].op = "create" PROVE OnBase(r)
    OBVIOUS
  <2>1. Based(p)
    BY <1>0 DEF Based, BasePlaces
  <2>2. OnBase(proc[p])
    BY <2>1 DEF Inv, IBase
  <2>3. b \in Procs /\ At(b, "done") /\ BaseOk(proc[p], arch[b], data) /\ b # NoName
    BY <2>2, <1>0 DEF OnBase, b
  <2>4. arch[b].cut = <<>> /\ Fits(ToSet(arch[b].lines), arch[b].blocks, data)
    BY <2>3, <1>0 DEF BaseOk
  <2>5. L = ToSet(arch[b].lines)
    BY <2>3, <2>4, NobodyWrites, ListingsQuiet
  <2>6. Range(m) = L
    BY <2>4, <2>5, <1>3 DEF Fits
  <2>7. ~proc[p].hit => Full(L, arch[b].blocks, data)
    BY <2>1, <2>3, <2>5, BaseWhole DEF ArchOk, b
  <2>8. BaseOk(r, arch[b], data)
    BY <2>3, <2>4, <2>5, <2>6, <2>7, <1>10, <1>14, <1>5 DEF BaseOk
  <2> QED
    BY <2>3, <2>8, <1>5, <1>10, <1>12 DEF OnBase, b
<1>19. Trusts(r) => Sees(cmd[p], r)
  <2> SUFFICES ASSUME Trusts(r) PROVE Sees(cmd[p], r)
    OBVIOUS
  <2>1. cmd[p].op # "create" /\ cmd[p].op \in Readers /\ ~proc[p].hit
    BY <1>5, <1>10, <1>14, <1>i DEF Trusts, Readers
  <2>2. proc[p].name = b /\ b \notin deleting
    BY <1>0, <1>n, <2>1 DEF NameOk, Past, b
  <2>3. "Finished" \in arch[b].files /\ ~Closing(b)
    BY <1>0, <1>8, <1>11, <1>b DEF Trusts, Hidden
  <2>4. ArchOk(arch[b], data, TRUE)
    BY <2>2, <2>3, <1>b DEF Inv, IArch
  <2>5. L = ToSet(arch[b].lines)
    BY <2>3, <2>4, <1>b, NobodyWritesFinished, ListingsQuiet DEF ArchOk
  <2>6. Range(m) = L
    BY <2>4, <2>5, <1>3 DEF Fits, ArchOk
  <2>7. DOMAIN r.map \ r.todo = {}
    BY <2>1, <1>5, <1>10
  <2>8. r.used = {r.map[f].idx : f \in DOMAIN r.map \ r.todo}
    BY <2>7, <1>12
  <2>9. ReadOk(cmd[p], r, arch[b], damaged, live)
    BY <2>1, <2>5, <2>6, <2>7, <2>8, <1>5, <1>10, <1>13 DEF ReadOk
  <2> QED
    BY <2>2, <2>3, <2>9, <1>12, <1>b DEF Sees
<1> QED
  BY <1>7, <1>9, <1>15, <1>16, <1>17, <1>18, <1>19, <1>0, <1>u, <1>t, <1>w, LocalKeeps
-----------------------------------------------------------------------------
(* Readers. *)

\* Extract makes its directory.
LEMMA MakeTargetKeeps ==
    ASSUME Inv, NEW p \in Procs, MakeTarget(p)
    PROVE  Inv'
<1>0. Typed /\ proc[p].pc = "target"
  BY DEF Inv, MakeTarget, At
<1>i. cmd[p].op \in Readers
  BY <1>0 DEF Inv, IPlace, PlaceOk
<1>u. UNCHANGED <<cmd, arch, data, damaged, live, deleting, repo>>
  BY DEF MakeTarget
<1>t. repo' \in {"none", "directory", "ready"} /\ target' \in BOOLEAN
  BY <1>0, <1>u DEF Typed, MakeTarget
<1>1. CASE target
  <2>1. End(p, "error", "target")
    BY <1>1 DEF MakeTarget, Fail
  <2> QED
    BY <2>1, <1>0, <1>i, <1>u, <1>t, LocalEnds DEF Results, Reasons, Readers
<1>2. CASE ~target
  <2>1. PICK r : r = [proc[p] EXCEPT !.pc = "read"]
    OBVIOUS
  <2>2. proc[p] \in ProcRecs
    BY <1>0 DEF Typed
  <2>3. r \in ProcRecs /\ r.pc = "read"
    BY <2>1, <2>2 DEF ProcRecs, Places
  <2>4. /\ r.result = proc[p].result /\ r.sent = proc[p].sent /\ r.map = proc[p].map
        /\ r.used = proc[p].used /\ r.todo = proc[p].todo
        /\ r.name = proc[p].name /\ r.base = proc[p].base
    BY <2>1, <2>2 DEF ProcRecs
  <2>5. r.warned = proc[p].warned /\ r.sure = proc[p].sure /\ r.hit = proc[p].hit
    BY <2>1, <2>2 DEF ProcRecs
  <2>6. proc' = [proc EXCEPT ![p] = r]
    BY <2>1, <1>2, <1>0 DEF MakeTarget, Goto, Typed
  <2>7. PlaceOk(cmd[p], r)
    BY <2>3, <1>i DEF PlaceOk
  <2>8. KnownOk(r)
    <3>1. KnownOk(proc[p])
      BY DEF Inv, IKnown
    <3> QED
      BY <3>1, <1>0, <2>3, <2>4 DEF KnownOk
  <2>9. NameOk(p, cmd[p], r, deleting)
    <3>1. NameOk(p, cmd[p], proc[p], deleting)
      BY DEF Inv, IName
    <3> QED
      BY <3>1, <1>0, <2>3, <2>4, <2>5 DEF NameOk, Past
  <2>10. Cause(cmd[p], r)
    BY <1>i DEF Cause, Readers
  <2>11. Running(p)
    BY <1>0 DEF Running
  <2>12. r.pc \notin MakingPlaces /\ r.pc \notin BasePlaces
    BY <2>3 DEF MakingPlaces, BasePlaces
  <2>13. Trusts(r) => Sees(cmd[p], r)
    <3> SUFFICES ASSUME Trusts(r) PROVE Sees(cmd[p], r)
      OBVIOUS
    <3>1. Trusts(proc[p])
      BY <2>5, <1>0 DEF Trusts
    <3>2. Sees(cmd[p], proc[p])
      BY <3>1 DEF Inv, IRead
    <3> QED
      BY <3>2, <2>4, <2>5 DEF Sees, ReadOk
  <2> QED
    BY <2>3, <2>6, <2>7, <2>8, <2>9, <2>10, <2>11, <2>12, <2>13, <1>0, <1>u, <1>t, LocalKeeps
<1> QED
  BY <1>1, <1>2

\* The archive that a reader trusts is whole, and its table is the list.
LEMMA TrustedWhole ==
    ASSUME Inv, NEW p \in Procs, Trusts(proc[p])
    PROVE  /\ proc[p].name \in Names
           /\ ArchOk(Own(p), data, TRUE)
           /\ Range(proc[p].map) = ToSet(Own(p).lines)
           /\ ReadOk(cmd[p], proc[p], Own(p), damaged, live)
           /\ \A f \in DOMAIN proc[p].map :
                 /\ proc[p].map[f] \in ToSet(Own(p).lines) /\ proc[p].map[f].file = f
                 /\ proc[p].map[f].idx \in DOMAIN Own(p).blocks
                 /\ proc[p].map[f].idx # NoIdx
<1>1. Sees(cmd[p], proc[p])
  BY DEF Inv, IRead
<1>2. proc[p].pc \in Past /\ cmd[p].op \in Readers
  BY DEF Trusts, Past, Inv, IPlace, PlaceOk
<1>3. NameOk(p, cmd[p], proc[p], deleting)
  BY DEF Inv, IName
<1>4. proc[p].name \notin deleting
  BY <1>2, <1>3 DEF NameOk, Trusts
<1>5. ArchOk(Own(p), data, TRUE)
  BY <1>1, <1>4 DEF Sees, Inv, IArch, Own
<1>6. Range(proc[p].map) = ToSet(Own(p).lines)
  BY <1>1 DEF Sees, ReadOk, Own
<1>7. ASSUME NEW f \in DOMAIN proc[p].map
      PROVE  /\ proc[p].map[f] \in ToSet(Own(p).lines) /\ proc[p].map[f].file = f
             /\ proc[p].map[f].idx \in DOMAIN Own(p).blocks
             /\ proc[p].map[f].idx # NoIdx
  <2>1. proc[p].map[f] \in Range(proc[p].map)
    BY DEF Range
  <2>2. PICK l \in ToSet(Own(p).lines) : l = proc[p].map[f]
    BY <2>1, <1>6
  <2>3. l.idx \in DOMAIN Own(p).blocks /\ l.idx \in Nat
    BY <1>5 DEF ArchOk, Full, Fits
  <2>4. l.idx # NoIdx
    BY <2>3 DEF NoIdx
  <2>5. proc[p].map[f].file = f
    BY DEF Inv, IKnown, KnownOk
  <2> QED
    BY <2>2, <2>3, <2>4, <2>5
<1> QED
  BY <1>1, <1>5, <1>6, <1>7 DEF Sees, Own

\* What the job of a line makes of a process.
Looked(s, f, i, w) == [s EXCEPT !.todo = @ \ {f}, !.used = @ \cup {i}, !.warned = w]

LEMMA LookedType ==
    ASSUME NEW s \in ProcRecs, NEW f, NEW i \in Nat \cup {NoIdx}, NEW w \in BOOLEAN
    PROVE  Looked(s, f, i, w) \in ProcRecs
<1>0. PICK r : r = Looked(s, f, i, w)
  OBVIOUS
<1>1. PICK x : x = [s EXCEPT !.todo = s.todo \ {f}]
  OBVIOUS
<1>2. PICK y : y = [x EXCEPT !.used = s.used \cup {i}]
  OBVIOUS
<1>3. x \in ProcRecs
  <2>1. s.todo \ {f} \in SUBSET Files
    BY DEF ProcRecs
  <2> QED
    BY <1>1, <2>1 DEF ProcRecs
<1>4. y \in ProcRecs
  <2>1. s.used \cup {i} \in SUBSET (Nat \cup {NoIdx})
    BY DEF ProcRecs
  <2> QED
    BY <1>2, <1>3, <2>1 DEF ProcRecs
<1>5. [y EXCEPT !.warned = w] \in ProcRecs
  BY <1>4 DEF ProcRecs
<1>6. r = [y EXCEPT !.warned = w]
  BY <1>0, <1>1, <1>2 DEF Looked, ProcRecs
<1> QED
  BY <1>0, <1>5, <1>6

\* A job that finds nothing that ends the command.
LEMMA LookKeeps ==
    ASSUME Inv, NEW p \in Procs, At(p, "read"), NEW f \in proc[p].todo,
           NEW rotten \in BOOLEAN, NEW other \in BOOLEAN,
           proc' = [proc EXCEPT ![p].todo = @ \ {f},
                                ![p].used = @ \cup {proc[p].map[f].idx},
                                ![p].warned = @ \/ rotten \/ other],
           UNCHANGED <<cmd, repo, arch, data, damaged, target, live, deleting>>,
           cmd[p].op = "compare" => f \in DOMAIN live,
           Trusts(proc[p]) =>
               /\ rotten \/ other <=> \/ Rotten(proc[p].map[f], Own(p), damaged)
                                      \/ Differs(cmd[p], proc[p].map[f], live)
               /\ cmd[p].op = "extract" => ~Rotten(proc[p].map[f], Own(p), damaged)
    PROVE  Inv'
<1>0. Typed /\ proc[p].pc = "read" /\ proc[p] \in ProcRecs
  BY DEF Inv, At, Typed
<1>i. cmd[p].op \in Readers
  BY <1>0 DEF Inv, IPlace, PlaceOk
<1>t. repo' \in {"none", "directory", "ready"} /\ target' \in BOOLEAN
  BY <1>0 DEF Typed
<1>k. KnownOk(proc[p])
  BY DEF Inv, IKnown
<1> DEFINE i == proc[p].map[f].idx
           w == proc[p].warned \/ rotten \/ other
<1>1. i \in Nat \cup {NoIdx} /\ w \in BOOLEAN
  <2>1. f \in DOMAIN proc[p].map
    BY <1>0, <1>k DEF KnownOk
  <2>2. proc[p].map[f] \in Lines
    BY <2>1, <1>0, PartialDef DEF ProcRecs
  <2> QED
    BY <2>2 DEF Lines
<1>2. PICK r : r = Looked(proc[p], f, i, w)
  OBVIOUS
<1>3. proc' = [proc EXCEPT ![p] = r]
  BY <1>0, <1>2 DEF Looked, Typed
<1>w. w <=> proc[p].warned \/ rotten \/ other
  OBVIOUS
<1> HIDE DEF w
<1>4. r \in ProcRecs
  BY <1>0, <1>1, <1>2, LookedType
<1>5. /\ r.todo = proc[p].todo \ {f} /\ r.used = proc[p].used \cup {i}
      /\ r.pc = proc[p].pc /\ r.map = proc[p].map /\ r.sent = proc[p].sent
      /\ r.name = proc[p].name /\ r.base = proc[p].base /\ r.result = proc[p].result
  BY <1>0, <1>2 DEF Looked, ProcRecs
<1>6. r.warned = w
  BY <1>0, <1>2 DEF Looked, ProcRecs
<1>7. r.hit = proc[p].hit /\ r.sure = proc[p].sure
  BY <1>0, <1>2 DEF Looked, ProcRecs
<1>8. PlaceOk(cmd[p], r) /\ KnownOk(r) /\ Cause(cmd[p], r)
  BY <1>0, <1>i, <1>k, <1>5 DEF PlaceOk, KnownOk, Cause, Readers
<1>9. NameOk(p, cmd[p], r, deleting)
  <2>1. NameOk(p, cmd[p], proc[p], deleting)
    BY DEF Inv, IName
  <2> QED
    BY <2>1, <1>5, <1>7 DEF NameOk
<1>10. Running(p) /\ r.pc \notin MakingPlaces /\ r.pc \notin BasePlaces /\ r.pc = "read"
  BY <1>0, <1>5 DEF Running, MakingPlaces, BasePlaces
<1>11. Trusts(r) => Sees(cmd[p], r)
  <2> SUFFICES ASSUME Trusts(r) PROVE Sees(cmd[p], r)
    OBVIOUS
  <2>1. Trusts(proc[p])
    BY <1>5, <1>7 DEF Trusts
  <2>2. Sees(cmd[p], proc[p])
    BY <2>1 DEF Inv, IRead
  <2> DEFINE m == proc[p].map
             old == DOMAIN m \ proc[p].todo
             new == DOMAIN m \ r.todo
  <2>3. f \in DOMAIN m /\ f \notin old /\ new = old \cup {f}
    BY <1>0, <1>k, <1>5 DEF KnownOk
  <2>4. m[f].file = f
    BY <1>k, <2>3 DEF KnownOk
  <2>5. ReadOk(cmd[p], proc[p], Own(p), damaged, live)
    BY <2>2 DEF Sees, Own
  <2> HIDE DEF m, old, new
  <2>6. r.used = {m[g].idx : g \in new}
    <3>1. proc[p].used = {m[g].idx : g \in old}
      BY <2>5 DEF ReadOk, m, old
    <3>2. i = m[f].idx
      BY DEF m
    <3> QED
      BY <3>1, <3>2, <2>3, <1>5
  <2>7. r.warned <=> \E g \in new : Rotten(m[g], Own(p), damaged) \/ Differs(cmd[p], m[g], live)
    <3>1. proc[p].warned <=>
             \E g \in old : Rotten(m[g], Own(p), damaged) \/ Differs(cmd[p], m[g], live)
      BY <2>5 DEF ReadOk, m, old
    <3>2. rotten \/ other <=> Rotten(m[f], Own(p), damaged) \/ Differs(cmd[p], m[f], live)
      BY <2>1 DEF m
    <3>3. r.warned <=> proc[p].warned \/ rotten \/ other
      BY <1>6, <1>w
    <3> QED
      BY <3>1, <3>2, <3>3, <2>3
  <2>8. cmd[p].op = "extract" => \A g \in new : ~Rotten(m[g], Own(p), damaged)
    <3>1. cmd[p].op = "extract" => \A g \in old : ~Rotten(m[g], Own(p), damaged)
      BY <2>5 DEF ReadOk, m, old
    <3>2. cmd[p].op = "extract" => ~Rotten(m[f], Own(p), damaged)
      BY <2>1 DEF m
    <3> QED
      BY <3>1, <3>2, <2>3
  <2>9. cmd[p].op = "compare" => new \subseteq DOMAIN live
    <3>1. cmd[p].op = "compare" => old \subseteq DOMAIN live
      BY <2>5 DEF ReadOk, m, old
    <3> QED
      BY <3>1, <2>3
  <2>10. r.map = m /\ new = DOMAIN r.map \ r.todo /\ Range(m) = ToSet(Own(p).lines)
    BY <1>5, <2>5 DEF ReadOk, m, new
  <2>11. ReadOk(cmd[p], r, Own(p), damaged, live)
    BY <2>6, <2>7, <2>8, <2>9, <2>10 DEF ReadOk
  <2> QED
    BY <2>2, <2>11, <1>5 DEF Sees, Own
<1> QED
  BY <1>3, <1>4, <1>8, <1>9, <1>10, <1>11, <1>0, <1>t, LocalKeeps

\* The job of one line.
LEMMA ReadLineKeeps ==
    ASSUME Inv, NEW p \in Procs, NEW f \in Files, ReadLine(p, f)
    PROVE  Inv'
<1>0. Typed /\ proc[p].pc = "read" /\ At(p, "read") /\ f \in proc[p].todo
  BY DEF Inv, ReadLine, At
<1>i. cmd[p].op \in Readers
  BY <1>0 DEF Inv, IPlace, PlaceOk
<1>u. UNCHANGED <<cmd, repo, arch, data, damaged, target, live, deleting>>
  BY DEF ReadLine
<1>t. repo' \in {"none", "directory", "ready"} /\ target' \in BOOLEAN
  BY <1>0, <1>u DEF Typed
<1>f. \A why \in {"stat", "block", "hash"} : Fail(p, why) => Inv'
  <2> SUFFICES ASSUME NEW why \in {"stat", "block", "hash"}, Fail(p, why) PROVE Inv'
    OBVIOUS
  <2>1. End(p, "error", why) /\ why \in Reasons /\ "error" \in Results /\ cmd[p].op # "create"
    BY <1>i DEF Fail, Reasons, Results, Readers
  <2> QED
    BY <2>1, <1>0, <1>u, <1>t, LocalEnds
<1> DEFINE l == proc[p].map[f]
           blocks == arch[proc[p].name].blocks
           other == cmd[p].op = "compare" /\ f \in DOMAIN live /\ live[f] # l.ver
<1>1. PICK read \in IF other THEN BOOLEAN ELSE {TRUE} :
        LET block  == read /\ l.idx # NoIdx
            rotten == block /\ l.idx \in DOMAIN blocks /\ blocks[l.idx] \in damaged
        IN  IF cmd[p].op = "compare" /\ f \notin DOMAIN live THEN Fail(p, "stat")
            ELSE IF block /\ l.idx \notin DOMAIN blocks THEN Fail(p, "block")
            ELSE IF rotten /\ cmd[p].op = "extract" THEN Fail(p, "hash")
            ELSE proc' = [proc EXCEPT ![p].todo = @ \ {f},
                                      ![p].used = @ \cup {l.idx},
                                      ![p].warned = @ \/ rotten \/ other]
  BY DEF ReadLine
<1> DEFINE block == read /\ l.idx # NoIdx
           rotten == block /\ l.idx \in DOMAIN blocks /\ blocks[l.idx] \in damaged
<1>2. CASE cmd[p].op = "compare" /\ f \notin DOMAIN live
  BY <1>1, <1>2, <1>f
<1>3. CASE ~(cmd[p].op = "compare" /\ f \notin DOMAIN live) /\ block /\ l.idx \notin DOMAIN blocks
  BY <1>1, <1>3, <1>f
<1>4. CASE /\ ~(cmd[p].op = "compare" /\ f \notin DOMAIN live)
           /\ ~(block /\ l.idx \notin DOMAIN blocks)
           /\ rotten /\ cmd[p].op = "extract"
  BY <1>1, <1>4, <1>f
<1>5. CASE /\ ~(cmd[p].op = "compare" /\ f \notin DOMAIN live)
           /\ ~(block /\ l.idx \notin DOMAIN blocks)
           /\ ~(rotten /\ cmd[p].op = "extract")
  <2>1. proc' = [proc EXCEPT ![p].todo = @ \ {f},
                             ![p].used = @ \cup {proc[p].map[f].idx},
                             ![p].warned = @ \/ rotten \/ other]
    BY <1>1, <1>5
  <2>2. rotten \in BOOLEAN /\ other \in BOOLEAN
    OBVIOUS
  <2>3. ASSUME Trusts(proc[p])
        PROVE  /\ rotten \/ other <=> \/ Rotten(proc[p].map[f], Own(p), damaged)
                                      \/ Differs(cmd[p], proc[p].map[f], live)
               /\ cmd[p].op = "extract" => ~Rotten(proc[p].map[f], Own(p), damaged)
    <3>1. f \in DOMAIN proc[p].map
      BY <1>0 DEF Inv, IKnown, KnownOk
    <3>2. l.idx # NoIdx /\ l.file = f
      BY <2>3, <3>1, TrustedWhole
    <3>3. other <=> Differs(cmd[p], l, live)
      BY <3>2 DEF Differs
    <3>4. rotten => Rotten(l, Own(p), damaged)
      BY DEF Rotten, Own
    <3>5. ~other => (Rotten(l, Own(p), damaged) => rotten)
      <4>1. ~other => read = TRUE
        BY <1>1
      <4> QED
        BY <4>1, <3>2 DEF Rotten, Own
    <3>6. cmd[p].op = "extract" => ~other
      OBVIOUS
    <3> QED
      BY <3>3, <3>4, <3>5, <3>6, <1>5
  <2>4. cmd[p].op = "compare" => f \in DOMAIN live
    BY <1>5
  <2> HIDE DEF rotten, other
  <2> QED
    BY <2>1, <2>2, <2>3, <2>4, <1>0, <1>u, LookKeeps
<1> QED
  BY <1>2, <1>3, <1>4, <1>5

\* The end of a reader.
LEMMA VerdictKeeps ==
    ASSUME Inv, NEW p \in Procs, Verdict(p)
    PROVE  Inv'
<1>0. Typed /\ proc[p].pc = "read"
  BY DEF Inv, Verdict, At
<1>i. cmd[p].op # "create"
  BY <1>0 DEF Inv, IPlace, PlaceOk, Readers
<1>u. UNCHANGED <<cmd, repo, arch, data, damaged, target, live, deleting>>
  BY DEF Verdict
<1>t. repo' \in {"none", "directory", "ready"} /\ target' \in BOOLEAN
  BY <1>0, <1>u DEF Typed
<1>1. End(p, "error", "unused") \/ End(p, "ok", "none")
  BY DEF Verdict, Fail
<1> QED
  BY <1>0, <1>i, <1>u, <1>t, <1>1, LocalEnds DEF Results, Reasons
-----------------------------------------------------------------------------
(* Backups. *)

\* Two backups that run work on different archives.
LEMMA OwnNames ==
    ASSUME Inv, NEW p \in Procs, NEW q \in Procs, p # q,
           cmd[p].op = "create", proc[p].pc \in Past,
           cmd[q].op = "create", proc[q].pc \in Past
    PROVE  proc[p].name # proc[q].name
<1>1. Running(p) /\ Running(q)
  BY DEF Running, Past
<1>2. proc[p].name = IF cmd[p].name = NoName THEN p ELSE Named
  BY DEF Inv, IName, NameOk
<1>3. proc[q].name = IF cmd[q].name = NoName THEN q ELSE Named
  BY DEF Inv, IName, NameOk
<1>4. cmd[p].name = NoName \/ cmd[q].name = NoName
  BY <1>1 DEF Inv, IOwn
<1> QED
  BY <1>2, <1>3, <1>4, NameFacts

\* A backup looks whether its name is taken.
LEMMA CheckKeeps ==
    ASSUME Inv, NEW p \in Procs, Check(p)
    PROVE  Inv'
<1>0. Typed /\ proc[p].pc = "check" /\ proc[p] \in ProcRecs
  BY DEF Inv, Check, At, Typed
<1>i. cmd[p].op = "create"
  BY <1>0 DEF Inv, IPlace, PlaceOk
<1>u. UNCHANGED <<cmd, repo, arch, data, damaged, target, live, deleting>>
  BY DEF Check
<1>t. repo' \in {"none", "directory", "ready"} /\ target' \in BOOLEAN
  BY <1>0, <1>u DEF Typed
<1>n. NameOk(p, cmd[p], proc[p], deleting)
  BY DEF Inv, IName
<1>m. proc[p].name = (IF cmd[p].name = NoName THEN p ELSE Named) /\ proc[p].name \in Names
  BY <1>0, <1>i, <1>n, NameFacts DEF NameOk, Past
<1>1. CASE Own(p).dir
  <2>1. End(p, "error", "exists")
    BY <1>1 DEF Check, Fail
  <2>2. proc[p].name # p
    <3>1. arch[p].dir => proc[p].pc \in (MakingPlaces \cup {"done"}) \ {"mkdir"}
      BY DEF Inv, IDirs
    <3> QED
      BY <3>1, <1>1, <1>0 DEF Own, MakingPlaces
  <2>3. proc[p].name = Named
    BY <2>2, <1>m
  <2> QED
    BY <2>1, <2>3, <1>0, <1>u, <1>t, LocalEnds DEF Results, Reasons
<1>2. CASE ~Own(p).dir
  <2>1. PICK r : r = [proc[p] EXCEPT !.pc = "mkdir"]
    OBVIOUS
  <2>2. r \in ProcRecs /\ r.pc = "mkdir"
    BY <2>1, <1>0 DEF ProcRecs, Places
  <2>3. /\ r.result = proc[p].result /\ r.sent = proc[p].sent /\ r.map = proc[p].map
        /\ r.name = proc[p].name /\ r.base = proc[p].base
    BY <2>1, <1>0 DEF ProcRecs
  <2>4. r.hit = proc[p].hit
    BY <2>1, <1>0 DEF ProcRecs
  <2>5. proc' = [proc EXCEPT ![p] = r]
    BY <2>1, <1>2, <1>0 DEF Check, Goto, Typed
  <2>6. PlaceOk(cmd[p], r) /\ ~Trusts(r)
    BY <2>2, <1>i DEF PlaceOk, Trusts
  <2>7. KnownOk(r) /\ Cause(cmd[p], r)
    <3>1. KnownOk(proc[p])
      BY DEF Inv, IKnown
    <3> QED
      BY <3>1, <1>0, <2>2, <2>3 DEF KnownOk, Cause
  <2>8. NameOk(p, cmd[p], r, deleting)
    BY <1>0, <1>n, <2>3, <2>4 DEF NameOk, Past
  <2>9. Running(p)
    BY <1>0 DEF Running
  <2>10. r.name \in Names /\ r.name \notin deleting /\ MakingOk(r, arch[r.name])
    <3>1. arch[r.name] = NoArch /\ r.name \notin deleting
      BY <1>2, <1>m, <2>3 DEF Inv, IDirs, Own
    <3> QED
      BY <3>1, <2>2, <2>3, <1>m DEF MakingOk, NoArch
  <2>11. OnBase(r)
    <3>1. OnBase(proc[p])
      BY <1>0, <1>i DEF Inv, IBase, Based, BasePlaces
    <3> QED
      BY <3>1, <1>0, <2>2, <2>3, <2>4 DEF OnBase, BaseOk
  <2> QED
    BY <2>2, <2>5, <2>6, <2>7, <2>8, <2>9, <2>10, <2>11, <1>0, <1>u, <1>t, LocalKeeps
<1> QED
  BY <1>1, <1>2

\* Steps of one backup that write its archive.  Nobody else works on this archive,
\* it is no base, and readers do not trust it yet.
LEMMA OwnKeeps ==
    ASSUME Inv, NEW p \in Procs, Making(p), NEW r \in ProcRecs, NEW a \in ArchRecs,
           proc' = [proc EXCEPT ![p] = r], arch' = [arch EXCEPT ![proc[p].name] = a],
           UNCHANGED <<cmd, repo, damaged, target, live, deleting>>,
           data' \in Partial(Blocks, Versions), Grows(data, data'),
           \A q \in Procs, f \in Files :
               <<q, f>> \in DOMAIN data' /\ <<q, f>> \notin DOMAIN data => q = p,
           r.pc \in (MakingPlaces \cup {"done"}) \ {"mkdir"},
           PlaceOk(cmd[p], r), KnownOk(r), NameOk(p, cmd[p], r, deleting), Cause(cmd[p], r),
           a.dir = TRUE,
           r.pc \in MakingPlaces => r.name = proc[p].name /\ MakingOk(r, a),
           r.pc \in BasePlaces => /\ proc[p].pc \in BasePlaces
                                  /\ r.base = proc[p].base /\ r.map = proc[p].map
                                  /\ r.hit = proc[p].hit,
           r.pc \in {"store", "close"} => SentOk(r, a, data', live),
           r.pc = "store" => AllocOk(r, a.blocks, Base(p).blocks),
           \A i \in DOMAIN a.blocks : a.blocks[i] \in DOMAIN data',
           \A f \in Files : <<p, f>> \in DOMAIN data' =>
               r.pc \in {"close", "done"} \/ (r.pc = "store" /\ f \notin r.todo),
           "Finished" \in a.files => r.pc = "close" \/ ArchOk(a, data', TRUE)
    PROVE  Inv'
<1> DEFINE n == proc[p].name
<1>t. Typed
  BY DEF Inv
<1>m. /\ cmd[p].op = "create" /\ proc[p].pc \in MakingPlaces /\ proc[p].pc \in Past
      /\ r.pc \in MakingPlaces => r.pc \in Past
  BY DEF Making, MakingPlaces, Past
<1>n. n \in Names /\ n = (IF cmd[p].name = NoName THEN p ELSE Named) /\ n \notin deleting
  BY <1>m, NameFacts DEF Inv, IName, NameOk, IMaking
<1>p. /\ proc'[p] = r /\ \A q \in Procs : q # p => proc'[q] = proc[q]
      /\ proc' \in [Procs -> ProcRecs]
  BY <1>t DEF Typed
<1>a. /\ arch'[n] = a /\ \A m \in Names : m # n => arch'[m] = arch[m]
      /\ arch' \in [Names -> ArchRecs]
  BY <1>t, <1>n DEF Typed
<1> HIDE DEF n
<1>c. \A m : m # n => (Closing(m)' <=> Closing(m))
  <2> SUFFICES ASSUME NEW m, m # n PROVE Closing(m)' <=> Closing(m)
    OBVIOUS
  <2>1. r.pc = "close" => r.name # m
    BY DEF MakingPlaces, n
  <2>2. proc[p].pc = "close" => proc[p].name # m
    BY DEF n
  <2> QED
    BY <2>1, <2>2, <1>p DEF Closing, At
<1>d. \A q \in Procs : At(q, "done") => At(q, "done")' /\ q # n /\ q # p
  <2> SUFFICES ASSUME NEW q \in Procs, At(q, "done") PROVE At(q, "done")' /\ q # n /\ q # p
    OBVIOUS
  <2>1. q # p
    BY <1>m DEF At, Past
  <2>2. q # n
    BY <1>m, NobodyWrites DEF n
  <2> QED
    BY <2>1, <2>2, <1>p DEF At
<1>o. \A q \in Procs : q # p /\ cmd[q].op = "create" /\ proc[q].pc \in Past => proc[q].name # n
  BY <1>m, OwnNames DEF n
<1>g. \A L, m : m \in Names =>
         /\ Fits(L, arch[m].blocks, data) => Fits(L, arch[m].blocks, data')
         /\ Full(L, arch[m].blocks, data) => Full(L, arch[m].blocks, data')
  <2> SUFFICES ASSUME NEW L, NEW m \in Names
               PROVE  /\ Fits(L, arch[m].blocks, data) => Fits(L, arch[m].blocks, data')
                      /\ Full(L, arch[m].blocks, data) => Full(L, arch[m].blocks, data')
    OBVIOUS
  <2>1. \A i \in DOMAIN arch[m].blocks : arch[m].blocks[i] \in DOMAIN data
    BY DEF Inv, IData
  <2> QED
    BY <2>1, FitsGrows
<1>1. Typed'
  BY <1>t, <1>p, <1>a DEF Typed
<1>2. IPlace'
  BY <1>p DEF Inv, IPlace
<1>3. IKnown'
  BY <1>p DEF Inv, IKnown
<1>4. IName'
  BY <1>p DEF Inv, IName
<1>5. IOwn'
  <2>1. \A q \in Procs : Running(q)' => Running(q)
    BY <1>p, <1>m DEF Running, Past
  <2> QED
    BY <2>1 DEF Inv, IOwn
<1>6. IDirs'
  <2>1. \A m \in Names : ~arch'[m].dir => arch'[m] = NoArch
    BY <1>a DEF Inv, IDirs
  <2>2. \A m \in deleting : arch'[m].dir
    BY <1>a, <1>n, <1>t DEF Inv, IDirs, Typed
  <2>3. ASSUME NEW q \in Procs, arch'[q].dir
        PROVE  /\ cmd[q].op = "create" /\ cmd[q].name = NoName
               /\ proc'[q].pc \in (MakingPlaces \cup {"done"}) \ {"mkdir"}
    <3>1. CASE q = p
      <4>1. proc'[q].pc \in (MakingPlaces \cup {"done"}) \ {"mkdir"}
        BY <3>1, <1>p
      <4>2. cmd[q].name = NoName
        <5>1. CASE n = p
          BY <5>1, <3>1, <1>n, NameFacts
        <5>2. CASE n # p
          BY <5>2, <3>1, <2>3, <1>a, NameFacts DEF Inv, IDirs
        <5> QED
          BY <5>1, <5>2
      <4> QED
        BY <4>1, <4>2, <3>1, <1>m
    <3>2. CASE q # p
      <4>1. q # n
        BY <3>2, <1>n, NameFacts
      <4>2. arch[q].dir
        BY <4>1, <2>3, <1>a, NameFacts
      <4> QED
        BY <4>2, <3>2, <1>p DEF Inv, IDirs
    <3> QED
      BY <3>1, <3>2
  <2> QED
    BY <2>1, <2>2, <2>3 DEF IDirs
<1>7. IMaking'
  <2> SUFFICES ASSUME NEW q \in Procs, Making(q)'
               PROVE  /\ proc'[q].name \notin deleting
                      /\ MakingOk(proc'[q], arch'[proc'[q].name])
    BY DEF IMaking
  <2>1. CASE q = p
    <3>1. r.pc \in MakingPlaces
      BY <2>1, <1>p DEF Making
    <3> QED
      BY <3>1, <2>1, <1>p, <1>n, <1>a DEF n
  <2>2. CASE q # p
    <3>1. proc'[q] = proc[q] /\ Making(q)
      BY <2>2, <1>p DEF Making
    <3>2. proc[q].pc \in Past /\ cmd[q].op = "create"
      BY <3>1 DEF Making, MakingPlaces, Past
    <3>3. proc[q].name # n /\ proc[q].name \in Names
      BY <2>2, <3>2, <1>o, NameFacts DEF Inv, IName, NameOk
    <3> QED
      BY <3>1, <3>3, <1>a DEF Inv, IMaking
  <2> QED
    BY <2>1, <2>2
<1>8. IBase'
  <2> SUFFICES ASSUME NEW q \in Procs, Based(q)' PROVE OnBase(proc[q])'
    BY DEF IBase
  <2>1. ASSUME NEW s, OnBase(s)
        PROVE  s.base # NoName => /\ s.base \in Procs /\ At(s.base, "done")'
                                  /\ arch'[s.base] = arch[s.base] /\ BaseOk(s, arch[s.base], data')
    <3> SUFFICES ASSUME s.base # NoName
                 PROVE  /\ s.base \in Procs /\ At(s.base, "done")'
                        /\ arch'[s.base] = arch[s.base] /\ BaseOk(s, arch[s.base], data')
      OBVIOUS
    <3>1. s.base \in Procs /\ At(s.base, "done") /\ BaseOk(s, arch[s.base], data)
      BY <2>1 DEF OnBase
    <3>2. At(s.base, "done")' /\ s.base # n /\ s.base \in Names
      BY <3>1, <1>d, NameFacts
    <3>3. BaseOk(s, arch[s.base], data')
      BY <3>1, <3>2, <1>g DEF BaseOk
    <3> QED
      BY <3>1, <3>2, <3>3, <1>a
  <2>2. CASE q = p
    <3>1. r.pc \in BasePlaces /\ r.pc # "open"
      BY <2>2, <1>p DEF Based, MakingPlaces
    <3>2. Based(p) /\ proc[p].pc # "open"
      BY <3>1, <1>m DEF Based, MakingPlaces
    <3>3. OnBase(proc[p])
      BY <3>2 DEF Inv, IBase
    <3>4. OnBase(r)
      BY <3>1, <3>2, <3>3 DEF OnBase, BaseOk
    <3> QED
      BY <3>4, <2>1, <2>2, <1>p DEF OnBase
  <2>3. CASE q # p
    <3>1. OnBase(proc[q]) /\ proc'[q] = proc[q]
      BY <2>3, <1>p DEF Based, Inv, IBase
    <3> QED
      BY <3>1, <2>1 DEF OnBase
  <2> QED
    BY <2>2, <2>3
<1>9. IStore'
  <2> SUFFICES ASSUME NEW q \in Procs
               PROVE  /\ proc'[q].pc \in {"store", "close"} => SentOk(proc[q], Own(q), data, live)'
                      /\ proc'[q].pc = "store" => AllocOk(proc[q], Own(q).blocks, Base(q).blocks)'
    BY DEF IStore
  <2>b. ASSUME NEW s \in Procs, proc[s].pc = "store", proc'[s].base = proc[s].base
        PROVE  Base(s)' = Base(s)
    <3>1. Based(s)
      BY <2>b DEF Based, BasePlaces, Inv, IPlace, PlaceOk
    <3>2. OnBase(proc[s])
      BY <3>1 DEF Inv, IBase
    <3>3. proc[s].base # NoName => proc[s].base # n /\ proc[s].base \in Names
      BY <3>2, <1>d, NameFacts DEF OnBase
    <3> QED
      BY <3>3, <2>b, <1>a DEF Base
  <2>1. CASE q = p
    <3>1. r.pc \in {"store", "close"} => Own(p)' = a
      BY <1>p, <1>a DEF Own, n, MakingPlaces
    <3>2. r.pc \in {"store", "close"} => SentOk(r, a, data', live)
      OBVIOUS
    <3>3. r.pc = "store" => AllocOk(r, a.blocks, Base(p)'.blocks)
      <4> SUFFICES ASSUME r.pc = "store" PROVE AllocOk(r, a.blocks, Base(p)'.blocks)
        OBVIOUS
      <4>1. proc[p].pc \in BasePlaces /\ r.base = proc[p].base
        BY DEF BasePlaces
      <4>2. Based(p)
        BY <4>1, <1>m DEF Based
      <4>3. proc[p].base # NoName => proc[p].base # n /\ proc[p].base \in Names
        BY <4>2, <1>d, NameFacts DEF OnBase, Inv, IBase
      <4>4. Base(p)' = Base(p)
        BY <4>1, <4>3, <1>a, <1>p DEF Base
      <4> QED
        BY <4>4
    <3> QED
      BY <2>1, <3>1, <3>2, <3>3, <1>p
  <2>2. CASE q # p
    <3>1. proc'[q] = proc[q]
      BY <2>2, <1>p
    <3> SUFFICES ASSUME proc[q].pc \in {"store", "close"}
                 PROVE  /\ SentOk(proc[q], Own(q), data, live)'
                        /\ proc[q].pc = "store" => AllocOk(proc[q], Own(q).blocks, Base(q).blocks)'
      BY <3>1
    <3>2. proc[q].pc \in Past /\ cmd[q].op = "create"
      BY DEF Past, Inv, IPlace, PlaceOk
    <3>3. proc[q].name # n /\ proc[q].name \in Names
      BY <2>2, <3>2, <1>o, NameFacts DEF Inv, IName, NameOk
    <3>4. Own(q)' = Own(q)
      BY <3>1, <3>3, <1>a DEF Own
    <3>5. SentOk(proc[q], Own(q), data, live)
      BY DEF Inv, IStore
    <3>6. SentOk(proc[q], Own(q), data', live)
      BY <3>5, <3>3, <1>g DEF SentOk, Own
    <3>7. proc[q].pc = "store" => AllocOk(proc[q], Own(q).blocks, Base(q).blocks)
      BY DEF Inv, IStore
    <3>8. proc[q].pc = "store" => Base(q)' = Base(q)
      BY <2>b, <3>1
    <3> QED
      BY <3>1, <3>4, <3>6, <3>7, <3>8
  <2> QED
    BY <2>1, <2>2
<1>10. IData'
  <2>1. ASSUME NEW m \in Names, NEW i \in DOMAIN arch'[m].blocks
        PROVE  arch'[m].blocks[i] \in DOMAIN data'
    <3>1. CASE m = n
      BY <3>1, <1>a
    <3>2. CASE m # n
      <4>1. arch[m].blocks[i] \in DOMAIN data /\ arch'[m] = arch[m]
        BY <3>2, <1>a, <2>1 DEF Inv, IData
      <4> QED
        BY <4>1 DEF Grows
    <3> QED
      BY <3>1, <3>2
  <2>2. ASSUME NEW q \in Procs, NEW f \in Files, <<q, f>> \in DOMAIN data'
        PROVE  \/ proc'[q].pc \in {"close", "done"}
               \/ proc'[q].pc = "store" /\ f \notin proc'[q].todo
    <3>1. CASE q = p
      BY <3>1, <2>2, <1>p
    <3>2. CASE q # p
      <4>1. <<q, f>> \in DOMAIN data
        BY <3>2, <2>2
      <4> QED
        BY <4>1, <3>2, <1>p DEF Inv, IData
    <3> QED
      BY <3>1, <3>2
  <2> QED
    BY <2>1, <2>2 DEF IData
<1>11. IArch'
  <2> SUFFICES ASSUME NEW m \in Names, "Finished" \in arch'[m].files, ~Closing(m)'
               PROVE  ArchOk(arch'[m], data', m \notin deleting)
    BY DEF IArch
  <2>1. CASE m = n
    <3>1. r.pc # "close"
      <4> SUFFICES ASSUME r.pc = "close" PROVE FALSE
        OBVIOUS
      <4>1. r.name = n
        BY DEF n, MakingPlaces
      <4>2. Closing(m)'
        BY <2>1, <4>1, <1>p DEF Closing, At
      <4> QED
        BY <4>2
    <3>2. ArchOk(a, data', TRUE)
      BY <2>1, <3>1, <1>a
    <3> QED
      BY <2>1, <3>2, <1>a DEF ArchOk
  <2>2. CASE m # n
    <3>1. arch'[m] = arch[m] /\ ~Closing(m)
      BY <2>2, <1>a, <1>c
    <3>2. ArchOk(arch[m], data, m \notin deleting)
      BY <3>1 DEF Inv, IArch
    <3>3. ArchOk(arch[m], data', m \notin deleting)
      BY <3>2, <1>g DEF ArchOk
    <3> QED
      BY <3>1, <3>3
  <2> QED
    BY <2>1, <2>2
<1>12. IRead'
  <2> SUFFICES ASSUME NEW q \in Procs, Trusts(proc'[q]) PROVE Sees(cmd[q], proc[q])'
    BY DEF IRead, Trusts
  <2>1. q # p
    BY <1>p DEF Trusts, MakingPlaces
  <2>2. proc'[q] = proc[q] /\ Trusts(proc[q])
    BY <2>1, <1>p
  <2>3. Sees(cmd[q], proc[q])
    BY <2>2 DEF Inv, IRead
  <2>4. proc[q].name # n
    BY <2>3, NobodyWritesFinished DEF Sees, n
  <2>5. arch'[proc[q].name] = arch[proc[q].name]
    BY <2>3, <2>4, <1>a DEF Sees
  <2>6. ~Closing(proc[q].name)'
    <3>1. PICK m \in Names : m = proc[q].name
      BY <2>3 DEF Sees
    <3>2. ~Closing(m)'
      BY <3>1, <2>3, <2>4, <1>c DEF Sees
    <3> QED
      BY <3>1, <3>2, <2>2
  <2> QED
    BY <2>2, <2>3, <2>5, <2>6 DEF Sees
<1>13. ICause'
  BY <1>p DEF Inv, ICause
<1> QED
  BY <1>1, <1>2, <1>3, <1>4, <1>5, <1>6, <1>7, <1>8, <1>9, <1>10, <1>11, <1>12, <1>13 DEF Inv

\* A backup that goes on from one place to another.
LEMMA OwnMoves ==
    ASSUME Inv, NEW p \in Procs, Making(p), NEW c, Goto(p, c), NEW a \in ArchRecs,
           <<proc[p].pc, c>> \in {<<"mkdir", "mark">>, <<"mark", "list">>, <<"store", "close">>},
           arch' = [arch EXCEPT ![proc[p].name] = a],
           UNCHANGED <<cmd, repo, data, damaged, target, live, deleting>>,
           a.dir = TRUE, a.blocks = Own(p).blocks,
           c = "close" => proc[p].todo = {},
           c = "mark" => a.files = {}, c = "list" => a.files = {"ID"},
           c = "close" => a.files = AllFiles
    PROVE  Inv'
<1>0. /\ Typed /\ proc[p] \in ProcRecs /\ cmd[p].op = "create"
      /\ c \in {"mark", "list", "close"}
      /\ proc[p].pc \in {"mkdir", "mark", "store"}
      /\ c = "close" <=> proc[p].pc = "store"
  BY DEF Inv, Typed, Making
<1>1. PICK r : r = [proc[p] EXCEPT !.pc = c]
  OBVIOUS
<1>2. r \in ProcRecs /\ r.pc = c
  BY <1>1, <1>0 DEF ProcRecs, Places
<1>3. /\ r.result = proc[p].result /\ r.sent = proc[p].sent /\ r.map = proc[p].map
      /\ r.todo = proc[p].todo /\ r.name = proc[p].name /\ r.base = proc[p].base
  BY <1>1, <1>0 DEF ProcRecs
<1>4. r.hit = proc[p].hit
  BY <1>1, <1>0 DEF ProcRecs
<1>5. proc' = [proc EXCEPT ![p] = r]
  BY <1>1, <1>0 DEF Goto, Typed
<1>6. data' \in Partial(Blocks, Versions) /\ Grows(data, data') /\ data' = data
  BY <1>0 DEF Typed, Grows
<1>7. PlaceOk(cmd[p], r)
  BY <1>0, <1>2 DEF PlaceOk
<1>8. KnownOk(r) /\ Cause(cmd[p], r)
  <2>1. KnownOk(proc[p])
    BY DEF Inv, IKnown
  <2> QED
    BY <2>1, <1>0, <1>2, <1>3 DEF KnownOk, Cause
<1>9. NameOk(p, cmd[p], r, deleting)
  <2>1. NameOk(p, cmd[p], proc[p], deleting)
    BY DEF Inv, IName
  <2> QED
    BY <2>1, <1>0, <1>2, <1>3, <1>4 DEF NameOk, Past
<1>10. MakingOk(r, a)
  <2>1. MakingOk(proc[p], Own(p))
    BY DEF Inv, IMaking, Own
  <2> QED
    BY <2>1, <1>0, <1>2 DEF MakingOk, Making, MakingPlaces
<1>11. r.pc \in {"store", "close"} => SentOk(r, a, data', live)
  <2> SUFFICES ASSUME c = "close" PROVE SentOk(r, a, data', live)
    BY <1>0, <1>2
  <2>1. SentOk(proc[p], Own(p), data, live)
    BY <1>0 DEF Inv, IStore
  <2> QED
    BY <2>1, <1>3, <1>6 DEF SentOk
<1>12. \A f \in Files : <<p, f>> \in DOMAIN data' =>
           r.pc \in {"close", "done"} \/ (r.pc = "store" /\ f \notin r.todo)
  <2>1. CASE c = "close"
    <3>1. r.pc = "close"
      BY <2>1, <1>2
    <3> QED
      BY <3>1
  <2>2. CASE c # "close"
    <3>1. proc[p].pc \notin {"close", "done", "store"}
      BY <2>2, <1>0
    <3> QED
      BY <3>1, <1>6 DEF Inv, IData
  <2> QED
    BY <2>1, <2>2
<1>13. \A i \in DOMAIN a.blocks : a.blocks[i] \in DOMAIN data'
  <2>1. proc[p].name \in Names
    BY <1>0, NameFacts DEF Inv, IName, NameOk, Past
  <2> QED
    BY <2>1, <1>6 DEF Inv, IData, Own
<1>14. "Finished" \in a.files => r.pc = "close" \/ ArchOk(a, data', TRUE)
  <2>1. c = "mark" \/ c = "list" => "Finished" \notin a.files
    OBVIOUS
  <2> QED
    BY <2>1, <1>0, <1>2
<1>15. /\ r.pc \in (MakingPlaces \cup {"done"}) \ {"mkdir"} /\ r.pc # "store"
       /\ r.pc \in BasePlaces => proc[p].pc \in BasePlaces
  BY <1>0, <1>2 DEF MakingPlaces, BasePlaces
<1> QED
  BY <1>2, <1>3, <1>4, <1>5, <1>6, <1>7, <1>8, <1>9, <1>10, <1>11, <1>12, <1>13, <1>14, <1>15,
     OwnKeeps

\* A backup that ends with its archive written, or part of it.
LEMMA OwnEnds ==
    ASSUME Inv, NEW p \in Procs, Making(p), NEW result \in Results, NEW why \in Reasons,
           End(p, result, why), NEW a \in ArchRecs,
           arch' = [arch EXCEPT ![proc[p].name] = a],
           UNCHANGED <<cmd, repo, data, damaged, target, live, deleting>>,
           a.dir = TRUE, a.blocks = Own(p).blocks,
           result = "error" => why = "base" /\ proc[p].hit,
           "Finished" \in a.files => ArchOk(a, data, TRUE)
    PROVE  Inv'
<1>0. Typed /\ proc[p] \in ProcRecs /\ cmd[p].op = "create" /\ proc[p].pc \in MakingPlaces
  BY DEF Inv, Typed, Making
<1>1. PICK r : r = Ended(proc[p], result, why)
  OBVIOUS
<1>2. /\ r \in ProcRecs
      /\ r.pc = "done" /\ r.result = result /\ r.why = why
      /\ r.warned = proc[p].warned /\ r.sent = <<>> /\ r.map = <<>> /\ r.sure = FALSE
      /\ result = "error" => r.hit = proc[p].hit /\ r.name = proc[p].name
  BY <1>0, <1>1, EndedFields
<1>3. proc' = [proc EXCEPT ![p] = r]
  BY <1>1 DEF End, Ended
<1>4. PlaceOk(cmd[p], r) /\ KnownOk(r) /\ NameOk(p, cmd[p], r, deleting)
  <2>1. DOMAIN r.map = {}
    BY <1>2
  <2> QED
    BY <1>2, <2>1 DEF PlaceOk, KnownOk, NameOk, Past
<1>5. Cause(cmd[p], r)
  BY <1>2 DEF Cause
<1>6. data' \in Partial(Blocks, Versions) /\ Grows(data, data') /\ data' = data
  BY <1>0 DEF Typed, Grows
<1>7. \A i \in DOMAIN a.blocks : a.blocks[i] \in DOMAIN data'
  <2>1. proc[p].name \in Names
    BY <1>0, NameFacts DEF Inv, IName, NameOk, Past, MakingPlaces
  <2> QED
    BY <2>1, <1>6 DEF Inv, IData, Own
<1>8. /\ r.pc \notin MakingPlaces /\ r.pc \notin BasePlaces
      /\ r.pc \notin {"store", "close"} /\ r.pc # "store"
      /\ r.pc \in (MakingPlaces \cup {"done"}) \ {"mkdir"}
  BY <1>2 DEF MakingPlaces, BasePlaces
<1>9. \A q \in Procs, f \in Files :
         <<q, f>> \in DOMAIN data' /\ <<q, f>> \notin DOMAIN data => q = p
  BY <1>6
<1>10. "Finished" \in a.files => r.pc = "close" \/ ArchOk(a, data', TRUE)
  BY <1>6
<1>11. \A f \in Files : <<p, f>> \in DOMAIN data' =>
           r.pc \in {"close", "done"} \/ (r.pc = "store" /\ f \notin r.todo)
  <2>1. r.pc \in {"close", "done"}
    BY <1>2
  <2> QED
    BY <2>1
<1>12. /\ r.pc \in MakingPlaces => r.name = proc[p].name /\ MakingOk(r, a)
       /\ r.pc \in BasePlaces => /\ proc[p].pc \in BasePlaces
                                 /\ r.base = proc[p].base /\ r.map = proc[p].map
                                 /\ r.hit = proc[p].hit
       /\ r.pc \in {"store", "close"} => SentOk(r, a, data', live)
       /\ r.pc = "store" => AllocOk(r, a.blocks, Base(p).blocks)
  BY <1>8
<1> QED
  BY <1>2, <1>3, <1>4, <1>5, <1>6, <1>7, <1>8, <1>9, <1>10, <1>11, <1>12, OwnKeeps

\* The archive of a backup in the making.
LEMMA MakingFacts ==
    ASSUME Inv, NEW p \in Procs, proc[p].pc \in MakingPlaces
    PROVE  /\ Making(p) /\ cmd[p].op = "create" /\ proc[p].pc \in Past
           /\ proc[p].name \in Names /\ proc[p].name \notin deleting
           /\ Own(p) \in ArchRecs /\ MakingOk(proc[p], Own(p))
           /\ proc[p].pc # "mkdir" => Own(p).dir = TRUE
<1>1. cmd[p].op = "create" /\ proc[p].pc \in Past
  BY DEF Inv, IPlace, PlaceOk, MakingPlaces, Past
<1>2. Making(p)
  BY <1>1 DEF Making
<1>3. proc[p].name \in Names /\ proc[p].name \notin deleting
  BY <1>1, <1>2, NameFacts DEF Inv, IName, NameOk, IMaking
<1>4. Own(p) \in ArchRecs /\ MakingOk(proc[p], Own(p))
  BY <1>2, <1>3 DEF Inv, Typed, IMaking, Own
<1>5. proc[p].pc # "mkdir" => Own(p).dir = TRUE
  BY <1>4 DEF MakingOk, ArchRecs
<1> QED
  BY <1>1, <1>2, <1>3, <1>4, <1>5

\* The directory and the ID file of an archive.
LEMMA MakeDirKeeps ==
    ASSUME Inv, NEW p \in Procs, MakeDir(p)
    PROVE  Inv'
<1>0. proc[p].pc = "mkdir" /\ proc[p].pc \in MakingPlaces /\ Goto(p, "mark")
  BY DEF MakeDir, At, MakingPlaces
<1>u. UNCHANGED <<cmd, repo, data, damaged, target, live, deleting>>
  BY DEF MakeDir
<1>1. Making(p) /\ Own(p) \in ArchRecs /\ Own(p).files = {}
  BY <1>0, MakingFacts DEF MakingOk
<1>2. PICK a : a = [Own(p) EXCEPT !.dir = TRUE]
  OBVIOUS
<1>3. a \in ArchRecs /\ a.dir = TRUE /\ a.blocks = Own(p).blocks /\ a.files = {}
  BY <1>1, <1>2 DEF ArchRecs
<1>4. arch' = [arch EXCEPT ![proc[p].name] = a]
  BY <1>2 DEF MakeDir, WithOwn
<1>5. <<proc[p].pc, "mark">> \in {<<"mkdir", "mark">>, <<"mark", "list">>, <<"store", "close">>}
  BY <1>0
<1>6. /\ "mark" = "close" => proc[p].todo = {} /\ a.files = AllFiles
      /\ "mark" = "mark" => a.files = {}
      /\ "mark" = "list" => a.files = {"ID"}
  BY <1>3
<1> QED
  BY <1>0, <1>u, <1>1, <1>3, <1>4, <1>5, <1>6, OwnMoves

LEMMA MarkKeeps ==
    ASSUME Inv, NEW p \in Procs, Mark(p)
    PROVE  Inv'
<1>0. proc[p].pc = "mark" /\ proc[p].pc \in MakingPlaces /\ Goto(p, "list")
  BY DEF Mark, At, MakingPlaces
<1>u. UNCHANGED <<cmd, repo, data, damaged, target, live, deleting>>
  BY DEF Mark
<1>1. Making(p) /\ Own(p) \in ArchRecs /\ Own(p).files = {} /\ Own(p).dir = TRUE
  BY <1>0, MakingFacts DEF MakingOk
<1>2. PICK a : a = [Own(p) EXCEPT !.files = {"ID"}]
  OBVIOUS
<1>3. a \in ArchRecs /\ a.dir = TRUE /\ a.blocks = Own(p).blocks /\ a.files = {"ID"}
  BY <1>1, <1>2 DEF ArchRecs
<1>4. arch' = [arch EXCEPT ![proc[p].name] = a]
  <2>1. {} \cup {"ID"} = {"ID"}
    OBVIOUS
  <2> QED
    BY <2>1, <1>1, <1>2 DEF Mark, WithOwn
<1>5. <<proc[p].pc, "list">> \in {<<"mkdir", "mark">>, <<"mark", "list">>, <<"store", "close">>}
  BY <1>0
<1>6. /\ "list" = "close" => proc[p].todo = {} /\ a.files = AllFiles
      /\ "list" = "mark" => a.files = {}
      /\ "list" = "list" => a.files = {"ID"}
  BY <1>3
<1> QED
  BY <1>0, <1>u, <1>1, <1>3, <1>4, <1>5, <1>6, OwnMoves

\* All files are stored.
LEMMA FinishKeeps ==
    ASSUME Inv, NEW p \in Procs, Finish(p)
    PROVE  Inv'
<1>0. /\ proc[p].pc = "store" /\ proc[p].pc \in MakingPlaces /\ Goto(p, "close")
      /\ proc[p].todo = {}
  BY DEF Finish, At, MakingPlaces
<1>u. UNCHANGED <<cmd, repo, data, damaged, target, live, deleting>>
  BY DEF Finish
<1>1. Making(p) /\ Own(p) \in ArchRecs /\ Own(p).files = {"ID", "List"} /\ Own(p).dir = TRUE
  BY <1>0, MakingFacts DEF MakingOk
<1>2. PICK a : a = [Own(p) EXCEPT !.files = AllFiles]
  OBVIOUS
<1>3. a \in ArchRecs /\ a.dir = TRUE /\ a.blocks = Own(p).blocks /\ a.files = AllFiles
  BY <1>1, <1>2 DEF ArchRecs, AllFiles
<1>4. arch' = [arch EXCEPT ![proc[p].name] = a]
  <2>1. {"ID", "List"} \cup {"Finished"} = AllFiles
    BY DEF AllFiles
  <2> QED
    BY <2>1, <1>1, <1>2 DEF Finish, WithOwn
<1> QED
  BY <1>0, <1>u, <1>1, <1>3, <1>4, OwnMoves

\* The list of a finished archive is closed.
LEMMA CloseKeeps ==
    ASSUME Inv, NEW p \in Procs, Close(p)
    PROVE  /\ Inv'
           /\ proc[p].name \in Names
           /\ SentOk(proc[p], Own(p), data, live) /\ proc[p].todo = {}
<1>0. proc[p].pc = "close" /\ proc[p].pc \in MakingPlaces /\ End(p, "ok", "none")
  BY DEF Close, At, MakingPlaces
<1>u. UNCHANGED <<cmd, repo, data, damaged, target, live, deleting>>
  BY DEF Close
<1>1. /\ Making(p) /\ Own(p) \in ArchRecs /\ Own(p).files = AllFiles /\ Own(p).dir = TRUE
      /\ proc[p].name \in Names
  BY <1>0, MakingFacts DEF MakingOk
<1>2. PICK x : x = [Own(p) EXCEPT !.lines = proc[p].sent]
  OBVIOUS
<1>3. PICK a : a = [x EXCEPT !.cut = <<>>]
  OBVIOUS
<1>4. proc[p].sent \in Seq(Lines) /\ <<>> \in Seq(Lines)
  BY EmptyFun DEF Inv, Typed, ProcRecs
<1>5. x \in ArchRecs /\ x.dir = TRUE /\ x.blocks = Own(p).blocks /\ x.files = AllFiles
      /\ x.lines = proc[p].sent
  BY <1>1, <1>2, <1>4 DEF ArchRecs
<1>6. a \in ArchRecs /\ a.dir = TRUE /\ a.blocks = Own(p).blocks /\ a.files = AllFiles
      /\ a.lines = proc[p].sent /\ a.cut = <<>>
  BY <1>3, <1>4, <1>5 DEF ArchRecs
<1>7. arch' = [arch EXCEPT ![proc[p].name] = a]
  <2>1. [Own(p) EXCEPT !.lines = proc[p].sent, !.cut = <<>>] = a
    BY <1>2, <1>3
  <2> QED
    BY <2>1 DEF Close, WithOwn
<1>8. SentOk(proc[p], Own(p), data, live)
  BY <1>0 DEF Inv, IStore
<1>9. ArchOk(a, data, TRUE)
  BY <1>6, <1>8 DEF ArchOk, SentOk, Full
<1>10. proc[p].todo = {}
  BY <1>0, <1>8 DEF SentOk
<1>11. Inv'
  BY <1>0, <1>u, <1>1, <1>6, <1>7, <1>9, OwnEnds DEF Results, Reasons
<1> QED
  BY <1>1, <1>8, <1>10, <1>11

\* A process that ends with the list it was writing cut anywhere.
LEMMA LeaveKeeps ==
    ASSUME Inv, NEW p \in Procs, proc[p].pc = "store",
           NEW result \in Results, NEW why \in Reasons, End(p, result, why), LeaveList(p),
           UNCHANGED <<cmd, repo, data, damaged, target, live, deleting>>,
           result = "error" => why = "base" /\ proc[p].hit
    PROVE  Inv'
<1>0. proc[p].pc \in MakingPlaces
  BY DEF MakingPlaces
<1>1. /\ Making(p) /\ Own(p) \in ArchRecs /\ Own(p).files = {"ID", "List"} /\ Own(p).dir = TRUE
      /\ proc[p].name \in Names
  BY <1>0, MakingFacts DEF MakingOk
<1>2. p \in Writers(proc[p].name)
  BY DEF Writers
<1>3. PICK d \in Parts(proc[p].sent) :
          WithOwn(p, [Own(p) EXCEPT !.lines = d.lines, !.cut = d.cut])
  BY <1>2 DEF LeaveList
<1>4. d.lines \in Seq(Lines) /\ d.cut \in Seq(Lines)
  <2>1. proc[p].sent \in Seq(Lines)
    BY DEF Inv, Typed, ProcRecs
  <2> QED
    BY <2>1, PartsType
<1>5. PICK x : x = [Own(p) EXCEPT !.lines = d.lines]
  OBVIOUS
<1>6. PICK a : a = [x EXCEPT !.cut = d.cut]
  OBVIOUS
<1>7. x \in ArchRecs /\ x.dir = TRUE /\ x.blocks = Own(p).blocks /\ x.files = {"ID", "List"}
  BY <1>1, <1>4, <1>5 DEF ArchRecs
<1>8. a \in ArchRecs /\ a.dir = TRUE /\ a.blocks = Own(p).blocks /\ a.files = {"ID", "List"}
  BY <1>4, <1>6, <1>7 DEF ArchRecs
<1>9. arch' = [arch EXCEPT ![proc[p].name] = a]
  <2>1. [Own(p) EXCEPT !.lines = d.lines, !.cut = d.cut] = a
    BY <1>5, <1>6
  <2> QED
    BY <2>1, <1>3 DEF WithOwn
<1>10. "Finished" \notin a.files
  BY <1>8
<1> QED
  BY <1>1, <1>8, <1>9, <1>10, OwnEnds

\* Indexes are natural numbers.
LEMMA IndexNat == Indexes \subseteq Nat
<1>1. Cardinality(Files) \in Nat
  BY FilesAssumption, FS_CardinalityType
<1> QED
  BY <1>1 DEF Indexes

\* What the base has for a file that is to be stored.
LEMMA StoreBase ==
    ASSUME Inv, NEW p \in Procs, proc[p].pc = "store", NEW f \in proc[p].todo, InBase(p, f)
    PROVE  /\ proc[p].base \in Procs /\ proc[p].base # proc[p].name
           /\ Base(p) = arch[proc[p].base]
           /\ Fits(Range(proc[p].map), Base(p).blocks, data)
           /\ proc[p].map[f] \in Range(proc[p].map) /\ proc[p].map[f].file = f
           /\ BaseIdx(p, f) \in Nat /\ BaseIdx(p, f) # NoIdx
           /\ BaseIdx(p, f) \in DOMAIN Base(p).blocks =>
                 BaseIdx(p, f) \in proc[p].alloc \ DOMAIN Own(p).blocks
           /\ ~proc[p].hit => BaseIdx(p, f) \in DOMAIN Base(p).blocks
<1>0. Based(p) /\ cmd[p].op = "create" /\ proc[p].pc \in Past
  BY DEF Inv, IPlace, PlaceOk, Based, BasePlaces, Past
<1>1. OnBase(proc[p])
  BY <1>0 DEF Inv, IBase
<1>2. f \in DOMAIN proc[p].map
  BY DEF InBase
<1>3. proc[p].base # NoName
  <2>1. DOMAIN <<>> = {}
    OBVIOUS
  <2> QED
    BY <2>1, <1>1, <1>2 DEF OnBase
<1>4. /\ proc[p].base \in Procs /\ At(proc[p].base, "done")
      /\ BaseOk(proc[p], arch[proc[p].base], data)
  BY <1>1, <1>3 DEF OnBase
<1>5. proc[p].base # proc[p].name
  BY <1>0, <1>4, NobodyWrites
<1>6. Base(p) = arch[proc[p].base]
  BY <1>3 DEF Base
<1>7. Fits(Range(proc[p].map), Base(p).blocks, data)
  BY <1>4, <1>6 DEF BaseOk
<1>8. proc[p].map[f] \in Range(proc[p].map)
  BY <1>2 DEF Range
<1>9. BaseIdx(p, f) \in Nat /\ BaseIdx(p, f) # NoIdx
  <2>1. BaseIdx(p, f) \in Nat
    BY <1>7, <1>8 DEF Fits, BaseIdx
  <2> QED
    BY <2>1 DEF NoIdx
<1>10. BaseIdx(p, f) \in DOMAIN Base(p).blocks =>
           BaseIdx(p, f) \in proc[p].alloc \ DOMAIN Own(p).blocks
  BY <1>2 DEF Inv, IStore, AllocOk, BaseIdx
<1>11. ~proc[p].hit => BaseIdx(p, f) \in DOMAIN Base(p).blocks
  BY <1>4, <1>6, <1>8 DEF BaseOk, Full, BaseIdx
<1>12. proc[p].map[f].file = f
  BY <1>2 DEF Inv, IKnown, KnownOk
<1> QED
  BY <1>4, <1>5, <1>6, <1>7, <1>8, <1>9, <1>10, <1>11, <1>12

\* The base does not serve a file, which happens only when it is being deleted.
LEMMA StoreFailsKeeps ==
    ASSUME Inv, NEW p \in Procs, NEW f \in Files, StoreFails(p, f)
    PROVE  Inv'
<1>0. proc[p].pc = "store" /\ f \in proc[p].todo /\ ~BaseServes(p, f)
  BY DEF StoreFails, At
<1>1. InBase(p, f) /\ ~(/\ BaseIdx(p, f) \in DOMAIN Base(p).blocks
                        /\ IF Same(p, f) THEN BaseIdx(p, f) \notin DOMAIN Own(p).blocks
                                         ELSE BaseIdx(p, f) \in proc[p].alloc)
  BY <1>0 DEF BaseServes
<1>2. proc[p].hit
  BY <1>0, <1>1, StoreBase
<1>3. End(p, "error", "base") /\ LeaveList(p)
  BY DEF StoreFails, Fail
<1> QED
  BY <1>0, <1>2, <1>3, LeaveKeeps DEF StoreFails, Results, Reasons

\* A command is killed.
LEMMA KillKeeps ==
    ASSUME Inv, NEW p \in Procs, ~Exposed, Kill(p)
    PROVE  Inv'
<1>0. /\ proc[p].pc \notin {"idle", "done", "close"} /\ End(p, "killed", "none") /\ LeaveList(p)
      /\ Typed
  BY DEF Kill, At, Running, Inv
<1>u. UNCHANGED <<cmd, repo, data, damaged, target, live, deleting>>
  BY DEF Kill
<1>r. "killed" \in Results /\ "none" \in Reasons
  BY DEF Results, Reasons
<1>1. CASE proc[p].pc = "store"
  BY <1>0, <1>u, <1>r, <1>1, LeaveKeeps
<1>2. CASE proc[p].pc # "store"
  <2>1. UNCHANGED arch
    BY <1>0, <1>2 DEF LeaveList, Writers
  <2>2. repo' \in {"none", "directory", "ready"} /\ target' \in BOOLEAN
    BY <1>0, <1>u DEF Typed
  <2> QED
    BY <2>1, <2>2, <1>0, <1>2, <1>u, <1>r, LocalEnds
<1> QED
  BY <1>1, <1>2

\* What OpenList makes of a process.
Listed(s, al, t) == [s EXCEPT !.alloc = al, !.todo = t, !.pc = "store"]

LEMMA ListedType ==
    ASSUME NEW s \in ProcRecs, NEW al \in SUBSET Nat, NEW t \in SUBSET Files
    PROVE  Listed(s, al, t) \in ProcRecs
<1>0. PICK r : r = Listed(s, al, t)
  OBVIOUS
<1>1. PICK x : x = [s EXCEPT !.alloc = al]
  OBVIOUS
<1>2. PICK y : y = [x EXCEPT !.todo = t]
  OBVIOUS
<1>3. r = [y EXCEPT !.pc = "store"]
  BY <1>0, <1>1, <1>2 DEF Listed
<1>4. x \in ProcRecs /\ y \in ProcRecs
  BY <1>1, <1>2 DEF ProcRecs
<1>5. r \in ProcRecs
  BY <1>3, <1>4 DEF ProcRecs, Places
<1> QED
  BY <1>0, <1>5

\* A backup takes over the block indexes of its base and starts its list.
LEMMA OpenListKeeps ==
    ASSUME Inv, NEW p \in Procs, OpenList(p)
    PROVE  Inv'
<1>0. /\ proc[p].pc = "list" /\ proc[p].pc \in MakingPlaces /\ Typed /\ proc[p] \in ProcRecs
  BY DEF OpenList, At, MakingPlaces, Inv, Typed
<1>u. UNCHANGED <<cmd, repo, data, damaged, target, live, deleting>>
  BY DEF OpenList
<1>1. /\ Making(p) /\ Own(p) \in ArchRecs /\ Own(p).files = {"ID"} /\ Own(p).dir = TRUE
      /\ Own(p).blocks = <<>> /\ proc[p].name \in Names /\ cmd[p].op = "create"
  BY <1>0, MakingFacts DEF MakingOk
<1>2. Based(p) /\ OnBase(proc[p])
  BY <1>0, <1>1 DEF Based, BasePlaces, Inv, IBase
<1>3. CASE /\ proc[p].base # NoName
           /\ ~Base(p).dir \/ (proc[p].base \in deleting /\ Base(p).blocks = <<>>)
           /\ Fail(p, "base")
           /\ UNCHANGED arch
  <2>1. proc[p].hit
    BY <1>2, <1>3, BaseWhole DEF Base
  <2>2. repo' \in {"none", "directory", "ready"} /\ target' \in BOOLEAN
    BY <1>0, <1>u DEF Typed
  <2>3. End(p, "error", "base")
    BY <1>3 DEF Fail
  <2> QED
    BY <2>1, <2>2, <2>3, <1>0, <1>1, <1>3, <1>u, LocalEnds DEF Results, Reasons
<1>4. CASE /\ proc[p].base # NoName => Base(p).dir
           /\ WithOwn(p, [Own(p) EXCEPT !.files = @ \cup {"List"}, !.lines = <<>>, !.cut = <<>>])
           /\ proc' = [proc EXCEPT ![p].alloc = DOMAIN Base(p).blocks,
                                   ![p].todo  = DOMAIN live,
                                   ![p].pc    = "store"]
  <2>1. /\ \A i \in DOMAIN Base(p).blocks :
              \E l \in Range(proc[p].map) : l.idx = i /\ l.file \in Files
        /\ DOMAIN Base(p).blocks \in SUBSET Nat
    <3>1. CASE proc[p].base = NoName
      <4>1. DOMAIN <<>> = {}
        OBVIOUS
      <4>2. DOMAIN Base(p).blocks = {}
        BY <3>1, <4>1 DEF Base, NoArch
      <4> QED
        BY <4>2
    <3>2. CASE proc[p].base # NoName
      <4>1. Base(p) = arch[proc[p].base] /\ proc[p].base \in Names
        BY <3>2, <1>2, NameFacts DEF Base, OnBase
      <4>2. Fits(Range(proc[p].map), Base(p).blocks, data)
        BY <3>2, <4>1, <1>0, <1>2 DEF OnBase, BaseOk
      <4>3. Base(p).blocks \in Partial(Indexes, Blocks)
        BY <4>1, <1>0, ArchFields
      <4>4. DOMAIN Base(p).blocks \subseteq Nat
        BY <4>3, PartialDef, IndexNat
      <4> QED
        BY <4>2, <4>4 DEF Fits
    <3> QED
      BY <3>1, <3>2
  <2>2. live \in Partial(Files, Versions) /\ DOMAIN live \in SUBSET Files
    BY <1>0, PartialDef DEF Typed
  <2>3. PICK r : r = Listed(proc[p], DOMAIN Base(p).blocks, DOMAIN live)
    OBVIOUS
  <2>4. proc' = [proc EXCEPT ![p] = r]
    BY <1>0, <1>4, <2>3 DEF Listed, Typed
  <2>5. r \in ProcRecs
    BY <1>0, <2>1, <2>2, <2>3, ListedType
  <2>6. /\ r.alloc = DOMAIN Base(p).blocks /\ r.todo = DOMAIN live /\ r.pc = "store"
        /\ r.result = proc[p].result /\ r.sent = proc[p].sent /\ r.map = proc[p].map
        /\ r.name = proc[p].name /\ r.base = proc[p].base
    BY <1>0, <2>3 DEF Listed, ProcRecs
  <2>7. r.hit = proc[p].hit
    BY <1>0, <2>3 DEF Listed, ProcRecs
  <2>8. PICK x : x = [Own(p) EXCEPT !.files = {"ID", "List"}]
    OBVIOUS
  <2>9. PICK y : y = [x EXCEPT !.lines = <<>>]
    OBVIOUS
  <2>10. PICK a : a = [y EXCEPT !.cut = <<>>]
    OBVIOUS
  <2>11. <<>> \in Seq(Lines) /\ ToSet(<<>>) = {} /\ DOMAIN <<>> = {}
    BY EmptyFun
  <2>12. x \in ArchRecs /\ x.dir = TRUE /\ x.blocks = <<>> /\ x.files = {"ID", "List"}
    BY <1>1, <2>8 DEF ArchRecs
  <2>13. y \in ArchRecs /\ y.dir = TRUE /\ y.blocks = <<>> /\ y.files = {"ID", "List"}
    BY <2>9, <2>11, <2>12 DEF ArchRecs
  <2>14. a \in ArchRecs /\ a.dir = TRUE /\ a.blocks = <<>> /\ a.files = {"ID", "List"}
    BY <2>10, <2>11, <2>13 DEF ArchRecs
  <2>15. arch' = [arch EXCEPT ![proc[p].name] = a]
    <3>1. {"ID"} \cup {"List"} = {"ID", "List"}
      OBVIOUS
    <3>2. [Own(p) EXCEPT !.files = @ \cup {"List"}, !.lines = <<>>, !.cut = <<>>] = a
      BY <3>1, <1>1, <2>8, <2>9, <2>10 DEF ArchRecs
    <3> QED
      BY <3>2, <1>4 DEF WithOwn
  <2>k. KnownOk(proc[p])
    BY DEF Inv, IKnown
  <2>16. PlaceOk(cmd[p], r) /\ KnownOk(r) /\ Cause(cmd[p], r)
    BY <1>0, <1>1, <2>6, <2>k DEF KnownOk, PlaceOk, Cause
  <2>17. NameOk(p, cmd[p], r, deleting)
    <3>1. NameOk(p, cmd[p], proc[p], deleting)
      BY DEF Inv, IName
    <3> QED
      BY <3>1, <1>0, <2>6, <2>7 DEF NameOk, Past
  <2>18. MakingOk(r, a)
    BY <2>6, <2>14 DEF MakingOk
  <2>19. data' \in Partial(Blocks, Versions) /\ Grows(data, data') /\ data' = data
    BY <1>0, <1>u DEF Typed, Grows
  <2>20. r.sent = <<>> /\ ToSet(r.sent) = {}
    BY <1>0, <2>6, <2>11, <2>k DEF KnownOk
  <2>21. SentOk(r, a, data', live)
    <3>1. Full(ToSet(r.sent), a.blocks, data')
      BY <2>14, <2>20, FitsNothing
    <3> QED
      BY <3>1, <2>6, <2>20 DEF SentOk
  <2>22. AllocOk(r, a.blocks, Base(p).blocks)
    <3>1. \A i \in r.alloc : \E f \in Files : Holds(r, f, i)
      <4> SUFFICES ASSUME NEW i \in r.alloc PROVE \E f \in Files : Holds(r, f, i)
        OBVIOUS
      <4>1. PICK l \in Range(proc[p].map) : l.idx = i /\ l.file \in Files
        BY <2>1, <2>6
      <4>2. Holds(r, l.file, i)
        BY <4>1, <2>6, <2>20 DEF Holds
      <4> QED
        BY <4>1, <4>2
    <3>2. DOMAIN a.blocks = {}
      BY <2>11, <2>14
    <3> QED
      BY <3>1, <3>2, <2>6 DEF AllocOk
  <2>23. \A i \in DOMAIN a.blocks : a.blocks[i] \in DOMAIN data'
    BY <2>11, <2>14
  <2>24. \A f \in Files : <<p, f>> \in DOMAIN data' =>
             r.pc \in {"close", "done"} \/ (r.pc = "store" /\ f \notin r.todo)
    <3>1. \A f \in Files : <<p, f>> \notin DOMAIN data
      BY <1>0 DEF Inv, IData
    <3> QED
      BY <3>1, <2>19
  <2>25. "Finished" \notin a.files
    BY <2>14
  <2>26. /\ r.pc \in (MakingPlaces \cup {"done"}) \ {"mkdir"} /\ r.pc # "close"
         /\ proc[p].pc \in BasePlaces
    BY <1>0, <2>6 DEF MakingPlaces, BasePlaces
  <2>27. \A q \in Procs, f \in Files :
            <<q, f>> \in DOMAIN data' /\ <<q, f>> \notin DOMAIN data => q = p
    BY <2>19
  <2> QED
    BY <1>1, <1>u, <2>4, <2>5, <2>6, <2>7, <2>14, <2>15, <2>16, <2>17, <2>18, <2>19, <2>21,
       <2>22, <2>23, <2>24, <2>25, <2>26, <2>27, OwnKeeps
<1> QED
  BY <1>3, <1>4 DEF OpenList

\* What a stored file makes of a process.
Pushed(s, l, al, f) == [s EXCEPT !.sent = Append(@, l), !.alloc = al, !.todo = @ \ {f}]

LEMMA PushedType ==
    ASSUME NEW s \in ProcRecs, NEW l \in Lines, NEW al \in SUBSET Nat, NEW f
    PROVE  Pushed(s, l, al, f) \in ProcRecs
<1>0. PICK r : r = Pushed(s, l, al, f)
  OBVIOUS
<1>1. PICK x : x = [s EXCEPT !.sent = Append(s.sent, l)]
  OBVIOUS
<1>2. PICK y : y = [x EXCEPT !.alloc = al]
  OBVIOUS
<1>3. r = [y EXCEPT !.todo = s.todo \ {f}]
  BY <1>0, <1>1, <1>2 DEF Pushed, ProcRecs
<1>4. Append(s.sent, l) \in Seq(Lines) /\ s.todo \ {f} \in SUBSET Files
  BY DEF ProcRecs
<1>5. x \in ProcRecs
  BY <1>1, <1>4 DEF ProcRecs
<1>6. y \in ProcRecs
  BY <1>2, <1>5 DEF ProcRecs
<1>7. r \in ProcRecs
  BY <1>3, <1>4, <1>6 DEF ProcRecs
<1> QED
  BY <1>0, <1>7

\* The index i is for f, and the indexes al are for it and what other files need.
Spares(p, f, i, al) ==
    /\ i \in al /\ DOMAIN Own(p).blocks \subseteq al
    /\ \A g \in (proc[p].todo \ {f}) \cap DOMAIN proc[p].map :
          proc[p].map[g].idx \in DOMAIN Base(p).blocks => proc[p].map[g].idx \in al \ {i}
    /\ \A j \in al : j = i \/ (/\ j \in proc[p].alloc
                               /\ ~\E l \in Range(proc[p].map) : l.file = f /\ l.idx = j)

\* No block is new in e but b.
AddsOnly(d, e, b) == \A x : x \in DOMAIN e /\ x \notin DOMAIN d => x = b

\* A file is stored, at an index that no other file needs and in a block that
\* holds what the file is now.
LEMMA PushKeeps ==
    ASSUME Inv, NEW p \in Procs, proc[p].pc = "store", NEW f \in proc[p].todo,
           NEW i \in Indexes, i \notin DOMAIN Own(p).blocks, NEW k \in Blocks,
           NEW al \in SUBSET Nat, Spares(p, f, i, al),
           proc' = [proc EXCEPT ![p] = Pushed(proc[p], Line(f, live[f], i), al, f)],
           WithOwn(p, [Own(p) EXCEPT !.blocks = Put(Own(p).blocks, i, k)]),
           UNCHANGED <<cmd, repo, damaged, target, live, deleting>>,
           data' \in Partial(Blocks, Versions), Grows(data, data'),
           k \in DOMAIN data', data'[k] = live[f],
           AddsOnly(data, data', <<p, f>>)
    PROVE  Inv'
<1>0. /\ proc[p].pc \in MakingPlaces /\ Typed /\ proc[p] \in ProcRecs /\ p \in Procs
  BY DEF MakingPlaces, Inv, Typed
<1>1. /\ Making(p) /\ Own(p) \in ArchRecs /\ Own(p).files = {"ID", "List"} /\ Own(p).dir = TRUE
      /\ proc[p].name \in Names /\ cmd[p].op = "create"
  BY <1>0, MakingFacts DEF MakingOk
<1>2. SentOk(proc[p], Own(p), data, live) /\ AllocOk(proc[p], Own(p).blocks, Base(p).blocks)
  BY DEF Inv, IStore
<1>3. f \in DOMAIN live /\ f \in Files /\ live \in Partial(Files, Versions) /\ live[f] \in Versions
  <2>1. f \in DOMAIN live /\ f \in Files
    BY <1>0, <1>2 DEF SentOk, ProcRecs
  <2>2. live \in Partial(Files, Versions)
    BY <1>0 DEF Typed
  <2> QED
    BY <2>1, <2>2, PartialDef
<1>r. PICK r : r = Pushed(proc[p], Line(f, live[f], i), al, f)
  OBVIOUS
<1>a. /\ i \in al /\ DOMAIN Own(p).blocks \subseteq al
      /\ \A g \in (proc[p].todo \ {f}) \cap DOMAIN proc[p].map :
            proc[p].map[g].idx \in DOMAIN Base(p).blocks => proc[p].map[g].idx \in al \ {i}
      /\ \A j \in al : j = i \/ (/\ j \in proc[p].alloc
                                 /\ ~\E l \in Range(proc[p].map) : l.file = f /\ l.idx = j)
  BY DEF Spares
<1>s. proc' = [proc EXCEPT ![p] = r]
  BY <1>r
<1>4. PICK l : l = Line(f, live[f], i)
  OBVIOUS
<1>5. /\ l \in [file : Files, ver : Versions, idx : Nat] /\ l \in Lines
      /\ l.file = f /\ l.ver = live[f] /\ l.idx = i
  BY <1>3, <1>4, IndexNat DEF Line, Lines
<1>6. r = Pushed(proc[p], l, al, f)
  BY <1>4, <1>r
<1>7. /\ r \in ProcRecs /\ r.sent = Append(proc[p].sent, l) /\ r.alloc = al
      /\ r.todo = proc[p].todo \ {f}
      /\ r.pc = proc[p].pc /\ r.name = proc[p].name /\ r.base = proc[p].base
      /\ r.map = proc[p].map /\ r.result = proc[p].result
  <2>1. r \in ProcRecs
    BY <1>0, <1>5, <1>6, PushedType
  <2> QED
    BY <2>1, <1>0, <1>6 DEF Pushed, ProcRecs
<1>8. r.hit = proc[p].hit
  BY <1>0, <1>6 DEF Pushed, ProcRecs
<1>9. ToSet(r.sent) = ToSet(proc[p].sent) \cup {l}
  <2>1. proc[p].sent \in Seq(Lines)
    BY <1>0 DEF ProcRecs
  <2> QED
    BY <2>1, <1>5, <1>7, ToSetAppend
<1>10. PICK bl : bl = Put(Own(p).blocks, i, k)
  OBVIOUS
<1>11. /\ bl \in Partial(Indexes, Blocks)
       /\ DOMAIN bl = DOMAIN Own(p).blocks \cup {i} /\ bl[i] = k
       /\ \A j \in DOMAIN Own(p).blocks : j # i => bl[j] = Own(p).blocks[j]
  <2>1. Own(p).blocks \in Partial(Indexes, Blocks)
    BY <1>1 DEF ArchRecs
  <2>2. bl \in Partial(Indexes, Blocks)
    BY <2>1, <1>10, PutType
  <2>o. PICK o : o = Own(p).blocks
    OBVIOUS
  <2>p. bl = Put(o, i, k)
    BY <2>o, <1>10
  <2>3. DOMAIN bl = DOMAIN o \cup {i}
    BY <2>p, PutValue
  <2>4. bl[i] = k
    BY <2>p, PutValue
  <2>5. \A j \in DOMAIN o : j # i => bl[j] = o[j]
    BY <2>p, PutValue
  <2> QED
    BY <2>o, <2>2, <2>3, <2>4, <2>5
<1>12. PICK a : a = [Own(p) EXCEPT !.blocks = bl]
  OBVIOUS
<1>13. a \in ArchRecs /\ a.dir = TRUE /\ a.files = {"ID", "List"} /\ a.blocks = bl
  BY <1>1, <1>11, <1>12 DEF ArchRecs
<1>14. arch' = [arch EXCEPT ![proc[p].name] = a]
  BY <1>10, <1>12 DEF WithOwn
<1>15. PlaceOk(cmd[p], r) /\ NameOk(p, cmd[p], r, deleting) /\ r.result = "none"
  <2>1. NameOk(p, cmd[p], proc[p], deleting) /\ KnownOk(proc[p])
    BY DEF Inv, IName, IKnown
  <2> QED
    BY <2>1, <1>1, <1>7, <1>8 DEF PlaceOk, NameOk, KnownOk
<1>16. KnownOk(r) /\ Cause(cmd[p], r)
  <2>1. KnownOk(proc[p])
    BY DEF Inv, IKnown
  <2> QED
    BY <2>1, <1>7, <1>15 DEF KnownOk, Cause
<1>17. MakingOk(r, a)
  BY <1>7, <1>13 DEF MakingOk
<1>18. Full(ToSet(proc[p].sent), Own(p).blocks, data')
  <2>1. \A j \in DOMAIN Own(p).blocks : Own(p).blocks[j] \in DOMAIN data
    BY <1>1 DEF Inv, IData, Own
  <2> QED
    BY <2>1, <1>2, FitsGrows DEF SentOk
<1>19. \A m \in ToSet(proc[p].sent) : m.file # f
  BY <1>2 DEF SentOk
<1>20. SentOk(r, a, data', live)
  <2>1. Full(ToSet(proc[p].sent) \cup {l}, Put(Own(p).blocks, l.idx, k), data')
    BY <1>5, <1>18, <1>19, FullAdd
  <2>2. Full(ToSet(r.sent), a.blocks, data')
    BY <2>1, <1>5, <1>9, <1>10, <1>13
  <2>3. \A m \in ToSet(r.sent) : m.file \in DOMAIN live /\ m.file \notin r.todo /\ live[m.file] = m.ver
    BY <1>2, <1>3, <1>5, <1>7, <1>9 DEF SentOk
  <2>4. \A g \in DOMAIN live : g \in r.todo \/ \E m \in ToSet(r.sent) : m.file = g
    BY <1>2, <1>5, <1>7, <1>9 DEF SentOk
  <2>5. r.todo \subseteq DOMAIN live /\ r.pc # "close"
    BY <1>2, <1>7 DEF SentOk
  <2> QED
    BY <2>2, <2>3, <2>4, <2>5 DEF SentOk
<1>21. AllocOk(r, a.blocks, Base(p).blocks)
  <2>1. DOMAIN a.blocks \subseteq r.alloc
    BY <1>a, <1>7, <1>11, <1>13
  <2>2. \A g \in r.todo \cap DOMAIN r.map :
           r.map[g].idx \in DOMAIN Base(p).blocks => r.map[g].idx \in r.alloc \ DOMAIN a.blocks
    BY <1>a, <1>2, <1>7, <1>11, <1>13 DEF AllocOk
  <2>3. ASSUME NEW j \in r.alloc PROVE \E g \in Files : Holds(r, g, j)
    <3>1. CASE j = i
      <4>1. Holds(r, f, j)
        BY <3>1, <1>5, <1>9 DEF Holds
      <4> QED
        BY <4>1, <1>3
    <3>2. CASE j # i
      <4>1. j \in proc[p].alloc /\ ~\E m \in Range(proc[p].map) : m.file = f /\ m.idx = j
        BY <2>3, <3>2, <1>a, <1>7
      <4>2. PICK g \in Files : Holds(proc[p], g, j)
        BY <4>1, <1>2 DEF AllocOk
      <4>3. Holds(r, g, j)
        BY <4>1, <4>2, <1>5, <1>7, <1>9 DEF Holds
      <4> QED
        BY <4>3
    <3> QED
      BY <3>1, <3>2
  <2> QED
    BY <2>1, <2>2, <2>3 DEF AllocOk
<1>22. \A j \in DOMAIN a.blocks : a.blocks[j] \in DOMAIN data'
  <2> SUFFICES ASSUME NEW j \in DOMAIN a.blocks PROVE a.blocks[j] \in DOMAIN data'
    OBVIOUS
  <2>1. CASE j = i
    BY <2>1, <1>11, <1>13
  <2>2. CASE j # i
    <3>1. j \in DOMAIN Own(p).blocks /\ a.blocks[j] = Own(p).blocks[j]
      BY <2>2, <1>11, <1>13
    <3>2. Own(p).blocks[j] \in DOMAIN data
      BY <3>1, <1>1 DEF Inv, IData, Own
    <3> QED
      BY <3>1, <3>2 DEF Grows
  <2> QED
    BY <2>1, <2>2
<1>23. \A g \in Files : <<p, g>> \in DOMAIN data' =>
           r.pc \in {"close", "done"} \/ (r.pc = "store" /\ g \notin r.todo)
  <2> SUFFICES ASSUME NEW g \in Files, <<p, g>> \in DOMAIN data'
               PROVE  r.pc = "store" /\ g \notin r.todo
    OBVIOUS
  <2>1. CASE g = f
    BY <2>1, <1>7
  <2>2. CASE g # f
    <3>1. <<p, g>> \in DOMAIN data
      BY <2>2 DEF AddsOnly
    <3>2. g \notin proc[p].todo
      BY <3>1 DEF Inv, IData
    <3> QED
      BY <3>2, <1>7
  <2> QED
    BY <2>1, <2>2
<1>24. "Finished" \in a.files => r.pc = "close" \/ ArchOk(a, data', TRUE)
  BY <1>13
<1>25. /\ r.pc \in (MakingPlaces \cup {"done"}) \ {"mkdir"} /\ r.pc = "store"
       /\ proc[p].pc \in BasePlaces
  BY <1>7 DEF MakingPlaces, BasePlaces
<1>26. \A q \in Procs, g \in Files :
          <<q, g>> \in DOMAIN data' /\ <<q, g>> \notin DOMAIN data => q = p
  <2> SUFFICES ASSUME NEW q \in Procs, NEW g \in Files,
                      <<q, g>> \in DOMAIN data', <<q, g>> \notin DOMAIN data
               PROVE  q = p
    OBVIOUS
  <2>1. <<q, g>> = <<p, f>>
    BY DEF AddsOnly
  <2> QED
    BY <2>1
<1> QED
  BY <1>1, <1>s, <1>7, <1>8, <1>13, <1>14, <1>15, <1>16, <1>17, <1>20, <1>21, <1>22, <1>23,
     <1>24, <1>25, <1>26, OwnKeeps

\* The lines of the base of a file to be stored, and of the other files.
LEMMA StoreLines ==
    ASSUME Inv, NEW p \in Procs, proc[p].pc = "store", NEW f \in proc[p].todo, InBase(p, f)
    PROVE  /\ \A l \in Range(proc[p].map) :
                  l.file = f \/ l.idx = BaseIdx(p, f) => l = proc[p].map[f]
           /\ \A g \in DOMAIN proc[p].map : proc[p].map[g] \in Range(proc[p].map)
                                            /\ proc[p].map[g].file = g
<1>1. /\ Fits(Range(proc[p].map), Base(p).blocks, data)
      /\ proc[p].map[f] \in Range(proc[p].map) /\ proc[p].map[f].file = f
  BY StoreBase
<1>2. \A l \in Range(proc[p].map) :
          l.file = f \/ l.idx = BaseIdx(p, f) => l = proc[p].map[f]
  BY <1>1 DEF Fits, BaseIdx
<1>3. \A g \in DOMAIN proc[p].map : proc[p].map[g] \in Range(proc[p].map)
  BY DEF Range
<1>4. \A g \in DOMAIN proc[p].map : proc[p].map[g].file = g
  BY DEF Inv, IKnown, KnownOk
<1> QED
  BY <1>2, <1>3, <1>4

\* A file that is as it was in the base is linked.
LEMMA LinkFileKeeps ==
    ASSUME Inv, NEW p \in Procs, NEW f \in Files, LinkFile(p, f)
    PROVE  Inv'
<1>0. /\ proc[p].pc = "store" /\ f \in proc[p].todo /\ Same(p, f) /\ BaseServes(p, f)
      /\ InBase(p, f) /\ Typed
  BY DEF LinkFile, At, Same, Inv
<1>u. UNCHANGED <<cmd, repo, data, damaged, target, live, deleting>>
  BY DEF LinkFile
<1>1. PICK i : i = BaseIdx(p, f)
  OBVIOUS
<1>2. /\ i \in Nat /\ i # NoIdx /\ i \in DOMAIN Base(p).blocks
      /\ i \in proc[p].alloc \ DOMAIN Own(p).blocks
      /\ proc[p].base \in Names /\ Base(p) = arch[proc[p].base]
      /\ Fits(Range(proc[p].map), Base(p).blocks, data)
  <2>1. i # NoIdx
    BY <1>0, <1>1, StoreBase
  <2>2. i \in DOMAIN Base(p).blocks
    BY <2>1, <1>0, <1>1 DEF BaseServes
  <2> QED
    BY <2>1, <2>2, <1>0, <1>1, StoreBase, NameFacts
<1>3. PICK k : k = Base(p).blocks[i]
  OBVIOUS
<1>4. i \in Indexes /\ k \in Blocks /\ k \in DOMAIN data
  <2>1. Base(p).blocks \in Partial(Indexes, Blocks)
    BY <1>0, <1>2, ArchFields
  <2>2. i \in Indexes /\ k \in Blocks
    BY <2>1, <1>2, <1>3, PartialDef
  <2> QED
    BY <2>2, <1>2, <1>3 DEF Inv, IData
<1>5. \A l \in Range(proc[p].map) : l.file = f \/ l.idx = i => l = proc[p].map[f]
  BY <1>0, <1>1, StoreLines
<1>6. data[k] = live[f]
  BY <1>0, <1>2, <1>3, <1>5 DEF Fits, Same
<1>7. AllocOk(proc[p], Own(p).blocks, Base(p).blocks)
  BY <1>0 DEF Inv, IStore
<1>8. \A g \in (proc[p].todo \ {f}) \cap DOMAIN proc[p].map :
          proc[p].map[g].idx \in DOMAIN Base(p).blocks =>
              proc[p].map[g].idx \in proc[p].alloc \ {i}
  <2> SUFFICES ASSUME NEW g \in (proc[p].todo \ {f}) \cap DOMAIN proc[p].map,
                      proc[p].map[g].idx \in DOMAIN Base(p).blocks
               PROVE  proc[p].map[g].idx \in proc[p].alloc \ {i}
    OBVIOUS
  <2>1. proc[p].map[g].idx \in proc[p].alloc
    BY <1>7 DEF AllocOk
  <2>2. proc[p].map[g].idx # i
    <3>1. /\ proc[p].map[g] \in Range(proc[p].map)
          /\ proc[p].map[g].file = g /\ proc[p].map[f].file = f
      BY <1>0, StoreLines DEF InBase
    <3> QED
      BY <3>1, <1>5
  <2> QED
    BY <2>1, <2>2
<1>9. \A j \in proc[p].alloc : j = i \/ (/\ j \in proc[p].alloc
                                         /\ ~\E l \in Range(proc[p].map) : l.file = f /\ l.idx = j)
  BY <1>1, <1>5 DEF BaseIdx
<1>11. /\ proc' = [proc EXCEPT ![p] = Pushed(proc[p], Line(f, live[f], i), proc[p].alloc, f)]
       /\ WithOwn(p, [Own(p) EXCEPT !.blocks = Put(Own(p).blocks, i, k)])
  <2>1. Push(p, f, i, Put(Own(p).blocks, i, k), proc[p].alloc)
    BY <1>1, <1>2, <1>3 DEF LinkFile
  <2> QED
    BY <2>1, <1>0 DEF Push, Pushed, Typed
<1>12. /\ data' \in Partial(Blocks, Versions) /\ Grows(data, data')
       /\ k \in DOMAIN data' /\ data'[k] = live[f]
       /\ AddsOnly(data, data', <<p, f>>)
  BY <1>0, <1>u, <1>4, <1>6 DEF Typed, Grows, AddsOnly
<1>13. proc[p].alloc \in SUBSET Nat /\ DOMAIN Own(p).blocks \subseteq proc[p].alloc
  BY <1>0, <1>7, ProcFields DEF AllocOk
<1>14. Spares(p, f, i, proc[p].alloc) /\ i \notin DOMAIN Own(p).blocks
  BY <1>2, <1>8, <1>9, <1>13 DEF Spares
<1> QED
  BY <1>0, <1>u, <1>4, <1>11, <1>12, <1>13, <1>14, PushKeeps

\* What is kept of the indexes when a file is stored anew: each is held by
\* another file, so that there is one left.
LEMMA KeptLemma ==
    ASSUME Inv, NEW p \in Procs, proc[p].pc = "store", NEW f \in proc[p].todo,
           NEW K, K \subseteq proc[p].alloc,
           InBase(p, f) => BaseIdx(p, f) \notin K
    PROVE  /\ LowestFree(K) \in Indexes /\ LowestFree(K) \notin K
           /\ \A j \in K : ~\E l \in Range(proc[p].map) : l.file = f /\ l.idx = j
<1>0. /\ Typed /\ f \in Files /\ proc[p].alloc \subseteq Nat
      /\ SentOk(proc[p], Own(p), data, live) /\ AllocOk(proc[p], Own(p).blocks, Base(p).blocks)
  BY ProcFields DEF Inv, IStore
<1>1. \A l \in Range(proc[p].map) : l.file \in DOMAIN proc[p].map /\ proc[p].map[l.file] = l
  BY DEF Range, Inv, IKnown, KnownOk
<1>2. \A j \in K : ~\E l \in Range(proc[p].map) : l.file = f /\ l.idx = j
  BY <1>1 DEF InBase, BaseIdx
<1>3. \A j \in K : ~Holds(proc[p], f, j)
  BY <1>0, <1>2 DEF Holds, SentOk
<1>4. \A j \in K : \E g \in Files \ {f} : Holds(proc[p], g, j)
  BY <1>0, <1>3 DEF AllocOk
<1>5. \A l, m \in ToSet(proc[p].sent) : l.file = m.file => l = m
  BY <1>0 DEF SentOk, Full, Fits
<1>6. \A g \in Files : \A i, j : Holds(proc[p], g, i) /\ Holds(proc[p], g, j) => i = j
  BY <1>1, <1>5 DEF Holds
<1> DEFINE holder == [j \in K |-> CHOOSE g \in Files \ {f} : Holds(proc[p], g, j)]
<1>7. \A j \in K : holder[j] \in Files \ {f} /\ Holds(proc[p], holder[j], j)
  BY <1>4
<1>8. holder \in [K -> Files \ {f}]
  BY <1>7
<1>9. \A i, j \in K : holder[i] = holder[j] => i = j
  BY <1>6, <1>7
<1> HIDE DEF holder
<1>10. IsFiniteSet(Files \ {f}) /\ Cardinality(Files \ {f}) = Cardinality(Files) - 1
  BY <1>0, FilesAssumption, FS_RemoveElement
<1>11. IsFiniteSet(K) /\ Cardinality(K) <= Cardinality(Files \ {f})
  BY <1>8, <1>9, <1>10, OneIndexEach
<1>12. LowestFree(K) \in 0..Cardinality(K) /\ LowestFree(K) \notin K
  BY <1>0, <1>11, LowestFreeLemma
<1>13. LowestFree(K) \in 0..Cardinality(Files) - 1
  <2>1. Cardinality(K) \in Nat /\ Cardinality(Files) \in Nat
    BY <1>11, FilesAssumption, FS_CardinalityType
  <2> QED
    BY <2>1, <1>10, <1>11, <1>12
<1> QED
  BY <1>2, <1>12, <1>13 DEF Indexes

\* A new or changed file is written at an index of its own.
LEMMA WriteFileKeeps ==
    ASSUME Inv, NEW p \in Procs, NEW f \in Files, WriteFile(p, f)
    PROVE  Inv' /\ Grows(data, data')
<1>0. /\ proc[p].pc = "store" /\ f \in proc[p].todo /\ ~Same(p, f) /\ BaseServes(p, f) /\ Typed
  BY DEF WriteFile, At, Inv
<1>u. UNCHANGED <<cmd, repo, damaged, target, live, deleting>>
  BY DEF WriteFile
<1>1. PICK K : K = IF InBase(p, f) THEN proc[p].alloc \ {BaseIdx(p, f)} ELSE proc[p].alloc
  OBVIOUS
<1>2. PICK i : i = LowestFree(K)
  OBVIOUS
<1>3. K \subseteq proc[p].alloc /\ (InBase(p, f) => BaseIdx(p, f) \notin K)
  BY <1>1
<1>4. /\ i \in Indexes /\ i \notin K /\ i \in Nat
      /\ \A j \in K : ~\E l \in Range(proc[p].map) : l.file = f /\ l.idx = j
  BY <1>0, <1>2, <1>3, KeptLemma, IndexNat
<1>5. /\ AllocOk(proc[p], Own(p).blocks, Base(p).blocks) /\ proc[p].alloc \subseteq Nat
      /\ SentOk(proc[p], Own(p), data, live)
  BY <1>0, ProcFields DEF Inv, IStore
<1>6. DOMAIN Own(p).blocks \subseteq K
  <2>1. InBase(p, f) => BaseIdx(p, f) \notin DOMAIN Own(p).blocks
    <3> SUFFICES ASSUME InBase(p, f) PROVE BaseIdx(p, f) \notin DOMAIN Own(p).blocks
      OBVIOUS
    <3>1. BaseIdx(p, f) # NoIdx
      BY <1>0, StoreBase
    <3>2. BaseIdx(p, f) \in DOMAIN Base(p).blocks
      BY <3>1, <1>0 DEF BaseServes
    <3> QED
      BY <3>2, <1>0, StoreBase
  <2> QED
    BY <2>1, <1>1, <1>5 DEF AllocOk
<1>7. i \notin DOMAIN Own(p).blocks
  BY <1>4, <1>6
<1>8. /\ data' = Put(data, <<p, f>>, live[f])
      /\ Push(p, f, i, Put(Own(p).blocks, i, <<p, f>>), K \cup {i})
  BY <1>1, <1>2, <1>7 DEF WriteFile
<1>9. <<p, f>> \notin DOMAIN data /\ <<p, f>> \in Blocks
  BY <1>0 DEF Inv, IData, Blocks
<1>10. live[f] \in Versions
  <2>1. f \in DOMAIN live /\ live \in Partial(Files, Versions)
    BY <1>0, <1>5 DEF SentOk, Typed
  <2> QED
    BY <2>1, PartialDef
<1>11. PICK k : k = <<p, f>>
  OBVIOUS
<1>12. /\ data' \in Partial(Blocks, Versions) /\ Grows(data, data')
       /\ k \in DOMAIN data' /\ data'[k] = live[f]
       /\ AddsOnly(data, data', <<p, f>>)
  <2>1. data' = Put(data, k, live[f])
    BY <1>8, <1>11
  <2>2. data \in Partial(Blocks, Versions)
    BY <1>0 DEF Typed
  <2>3. data' \in Partial(Blocks, Versions)
    BY <2>1, <2>2, <1>9, <1>10, <1>11, PutType
  <2>4. DOMAIN data' = DOMAIN data \cup {k}
    BY <2>1, PutValue
  <2>5. data'[k] = live[f]
    BY <2>1, PutValue
  <2>6. \A b \in DOMAIN data : b # k => data'[b] = data[b]
    BY <2>1, PutValue
  <2>7. Grows(data, data')
    BY <2>4, <2>6, <1>9, <1>11 DEF Grows
  <2> QED
    BY <2>3, <2>4, <2>5, <2>7, <1>11 DEF AddsOnly
<1>13. PICK al : al = K \cup {i}
  OBVIOUS
<1>14. al \in SUBSET Nat /\ i \in al /\ DOMAIN Own(p).blocks \subseteq al
  BY <1>3, <1>4, <1>5, <1>6, <1>13
<1>15. \A g \in (proc[p].todo \ {f}) \cap DOMAIN proc[p].map :
          proc[p].map[g].idx \in DOMAIN Base(p).blocks => proc[p].map[g].idx \in al \ {i}
  <2> SUFFICES ASSUME NEW g \in (proc[p].todo \ {f}) \cap DOMAIN proc[p].map,
                      proc[p].map[g].idx \in DOMAIN Base(p).blocks
               PROVE  proc[p].map[g].idx \in al \ {i}
    OBVIOUS
  <2>1. proc[p].map[g].idx \in proc[p].alloc
    BY <1>5 DEF AllocOk
  <2>2. InBase(p, f) => proc[p].map[g].idx # BaseIdx(p, f)
    <3> SUFFICES ASSUME InBase(p, f) PROVE proc[p].map[g].idx # BaseIdx(p, f)
      OBVIOUS
    <3>1. /\ proc[p].map[g] \in Range(proc[p].map)
          /\ proc[p].map[g].file = g /\ proc[p].map[f].file = f
      BY <1>0, StoreLines DEF InBase
    <3>2. \A l \in Range(proc[p].map) : l.idx = BaseIdx(p, f) => l = proc[p].map[f]
      BY <1>0, StoreLines
    <3> QED
      BY <3>1, <3>2
  <2>3. proc[p].map[g].idx \in K
    BY <2>1, <2>2, <1>1
  <2> QED
    BY <2>3, <1>4, <1>13
<1>16. \A j \in al : j = i \/ (/\ j \in proc[p].alloc
                               /\ ~\E l \in Range(proc[p].map) : l.file = f /\ l.idx = j)
  BY <1>3, <1>4, <1>13
<1>18. /\ proc' = [proc EXCEPT ![p] = Pushed(proc[p], Line(f, live[f], i), al, f)]
       /\ WithOwn(p, [Own(p) EXCEPT !.blocks = Put(Own(p).blocks, i, k)])
  BY <1>0, <1>8, <1>11, <1>13 DEF Push, Pushed, Typed
<1>19. Spares(p, f, i, al)
  BY <1>14, <1>15, <1>16 DEF Spares
<1>20. Inv'
  BY <1>0, <1>u, <1>4, <1>7, <1>9, <1>11, <1>12, <1>14, <1>18, <1>19, PushKeeps
<1> QED
  BY <1>12, <1>20
-----------------------------------------------------------------------------
(* The environment. *)

\* The user starts to delete an archive: the commands with this base are warned.
LEMMA DeleteKeeps ==
    ASSUME Inv, NEW n \in Names, Delete(n)
    PROVE  Inv'
<1>u. /\ UNCHANGED <<cmd, repo, arch, data, damaged, target, live>>
      /\ deleting' = deleting \cup {n} /\ arch[n].dir /\ Typed
      /\ \A q \in Procs : Running(q) /\ cmd[q].op = "create" => proc[q].name # n
  BY DEF Delete, Inv
<1>t. proc \in [Procs -> ProcRecs]
  BY <1>u DEF Typed
<1>0. proc' = [q \in Procs |-> IF Running(q) /\ proc[q].base = n
                               THEN [proc[q] EXCEPT !.hit = TRUE] ELSE proc[q]]
  BY DEF Delete
<1>1. ASSUME NEW q \in Procs
      PROVE  /\ proc'[q] \in ProcRecs
             /\ proc'[q].pc = proc[q].pc /\ proc'[q].name = proc[q].name
             /\ proc'[q].base = proc[q].base /\ proc'[q].map = proc[q].map
             /\ proc'[q].todo = proc[q].todo /\ proc'[q].sent = proc[q].sent
             /\ proc'[q].alloc = proc[q].alloc /\ proc'[q].used = proc[q].used
             /\ proc'[q].result = proc[q].result /\ proc'[q].why = proc[q].why
  <2>1. PICK r : r = proc[q]
    OBVIOUS
  <2>2. r \in ProcRecs
    BY <1>t, <2>1
  <2>3. PICK s : s = [r EXCEPT !.hit = TRUE]
    OBVIOUS
  <2>4. s \in ProcRecs
    BY <2>2, <2>3 DEF ProcRecs
  <2>5. /\ s.pc = r.pc /\ s.name = r.name /\ s.base = r.base /\ s.map = r.map
        /\ s.todo = r.todo /\ s.sent = r.sent
    BY <2>2, <2>3 DEF ProcRecs
  <2>6. /\ s.alloc = r.alloc /\ s.used = r.used /\ s.result = r.result /\ s.why = r.why
    BY <2>2, <2>3 DEF ProcRecs
  <2>7. proc'[q] = r \/ proc'[q] = s
    BY <1>0, <2>1, <2>3
  <2>8. CASE proc'[q] = r
    BY <2>1, <2>2, <2>8
  <2>9. CASE proc'[q] = s
    BY <2>1, <2>4, <2>5, <2>6, <2>9
  <2> QED
    BY <2>7, <2>8, <2>9
<1>2. ASSUME NEW q \in Procs
      PROVE  proc'[q].warned = proc[q].warned /\ proc'[q].sure = proc[q].sure
  BY <1>0, <1>t DEF ProcRecs
<1>3. ASSUME NEW q \in Procs
      PROVE  /\ proc[q].hit => proc'[q].hit
             /\ Running(q) /\ proc[q].base = n => proc'[q].hit
             /\ ~proc'[q].hit => proc'[q] = proc[q]
  <2>1. CASE Running(q) /\ proc[q].base = n
    <3>1. proc'[q].hit
      BY <2>1, <1>0, <1>t DEF ProcRecs
    <3> QED
      BY <3>1
  <2>2. CASE ~(Running(q) /\ proc[q].base = n)
    <3>1. proc'[q] = proc[q]
      BY <2>2, <1>0
    <3> QED
      BY <3>1, <2>2
  <2> QED
    BY <2>1, <2>2
<1>c. \A m : Closing(m)' <=> Closing(m)
  BY <1>1 DEF Closing, At
<1>4. Typed'
  <2>1. proc' \in [Procs -> ProcRecs]
    BY <1>0, <1>1
  <2> QED
    BY <2>1, <1>u DEF Typed
<1>5. IPlace'
  BY <1>1, <1>u DEF Inv, IPlace, PlaceOk
<1>6. IKnown'
  <2> SUFFICES ASSUME NEW q \in Procs PROVE KnownOk(proc'[q])
    BY DEF IKnown
  <2>1. KnownOk(proc[q])
    BY DEF Inv, IKnown
  <2>2. proc[q].pc \in {"idle", "mkrepo", "mkid", "scan", "open"} =>
            proc'[q].warned = FALSE /\ proc'[q].sure = FALSE
    BY <2>1, <1>2 DEF KnownOk
  <2> QED
    BY <2>1, <2>2, <1>1 DEF KnownOk
<1>7. IName'
  <2> SUFFICES ASSUME NEW q \in Procs PROVE NameOk(q, cmd[q], proc'[q], deleting')
    BY <1>u DEF IName
  <2>1. NameOk(q, cmd[q], proc[q], deleting)
    BY DEF Inv, IName
  <2>2. proc[q].pc \in Past => Running(q)
    BY DEF Past, Running
  <2>3. proc[q].pc \in Past => (proc[q].base \in deleting' => proc'[q].hit)
    BY <2>1, <2>2, <1>3, <1>u DEF NameOk
  <2> QED
    BY <2>1, <2>3, <1>1 DEF NameOk
<1>8. IOwn'
  BY <1>1, <1>u DEF Inv, IOwn, Running
<1>9. IDirs'
  BY <1>1, <1>u DEF Inv, IDirs
<1>10. IMaking'
  <2> SUFFICES ASSUME NEW q \in Procs, Making(q)'
               PROVE  /\ proc'[q].name \notin deleting'
                      /\ MakingOk(proc'[q], arch[proc'[q].name])
    BY <1>u DEF IMaking
  <2>1. Making(q) /\ Running(q) /\ cmd[q].op = "create"
    BY <1>1, <1>u DEF Making, MakingPlaces, Running
  <2>2. proc[q].name \notin deleting /\ MakingOk(proc[q], arch[proc[q].name])
    BY <2>1 DEF Inv, IMaking
  <2> QED
    BY <2>1, <2>2, <1>1, <1>u DEF MakingOk
<1>11. IBase'
  <2> SUFFICES ASSUME NEW q \in Procs, Based(q)' PROVE OnBase(proc[q])'
    BY DEF IBase
  <2>1. OnBase(proc[q])
    BY <1>1, <1>u DEF Based, Inv, IBase
  <2>2. \A m \in Procs : At(m, "done") => At(m, "done")'
    BY <1>1 DEF At
  <2>3. proc[q].base # NoName => BaseOk(proc'[q], arch[proc[q].base], data)
    BY <2>1, <1>1, <1>3 DEF OnBase, BaseOk
  <2> QED
    BY <2>1, <2>2, <2>3, <1>1, <1>u DEF OnBase
<1>12. IStore'
  <2> SUFFICES ASSUME NEW q \in Procs
               PROVE  /\ proc'[q].pc \in {"store", "close"} => SentOk(proc[q], Own(q), data, live)'
                      /\ proc'[q].pc = "store" => AllocOk(proc[q], Own(q).blocks, Base(q).blocks)'
    BY DEF IStore
  <2>1. Own(q)' = Own(q) /\ Base(q)' = Base(q)
    BY <1>1, <1>u DEF Own, Base
  <2>2. SentOk(proc[q], Own(q), data, live) => SentOk(proc'[q], Own(q), data, live)
    BY <1>1 DEF SentOk
  <2>3. \A f, i : Holds(proc[q], f, i) => Holds(proc'[q], f, i)
    BY <1>1 DEF Holds
  <2>4. AllocOk(proc[q], Own(q).blocks, Base(q).blocks) =>
            AllocOk(proc'[q], Own(q).blocks, Base(q).blocks)
    BY <2>3, <1>1 DEF AllocOk
  <2> QED
    BY <2>1, <2>2, <2>4, <1>1, <1>u DEF Inv, IStore
<1>13. IData'
  BY <1>1, <1>u DEF Inv, IData
<1>14. IArch'
  <2> SUFFICES ASSUME NEW m \in Names, "Finished" \in arch[m].files, ~Closing(m)
               PROVE  ArchOk(arch[m], data, m \notin deleting')
    BY <1>c, <1>u DEF IArch
  <2>1. ArchOk(arch[m], data, m \notin deleting)
    BY DEF Inv, IArch
  <2> QED
    BY <2>1, <1>u DEF ArchOk
<1>15. IRead'
  <2> SUFFICES ASSUME NEW q \in Procs, Trusts(proc'[q]) PROVE Sees(cmd[q], proc[q])'
    BY DEF IRead, Trusts
  <2>1. proc'[q] = proc[q]
    BY <1>3 DEF Trusts
  <2>2. Sees(cmd[q], proc[q])
    BY <2>1 DEF Inv, IRead
  <2> QED
    BY <2>1, <2>2, <1>c, <1>u DEF Sees
<1>16. ICause'
  <2> SUFFICES ASSUME NEW q \in Procs PROVE Cause(cmd[q], proc'[q])
    BY <1>u DEF ICause
  <2>1. Cause(cmd[q], proc[q])
    BY DEF Inv, ICause
  <2> QED
    BY <2>1, <1>1, <1>3 DEF Cause
<1> QED
  BY <1>4, <1>5, <1>6, <1>7, <1>8, <1>9, <1>10, <1>11, <1>12, <1>13, <1>14, <1>15, <1>16 DEF Inv

\* What rm takes from an archive directory.
LEMMA UnlinkFacts ==
    ASSUME Inv, NEW n \in Names, Unlink(n)
    PROVE  /\ n \in deleting /\ arch[n].dir
           /\ \E a \in ArchRecs :
                 /\ arch' = [arch EXCEPT ![n] = a] /\ a.files \subseteq arch[n].files
                 /\ \A i \in DOMAIN a.blocks :
                       i \in DOMAIN arch[n].blocks /\ a.blocks[i] = arch[n].blocks[i]
                 /\ \/ /\ a.dir /\ deleting' = deleting
                       /\ a.lines = arch[n].lines /\ a.cut = arch[n].cut
                    \/ a = NoArch /\ deleting' = deleting \ {n}
<1>0. /\ n \in deleting /\ arch[n] \in ArchRecs /\ arch[n].dir = TRUE
      /\ arch \in [Names -> ArchRecs]
  <2>1. n \in deleting /\ Typed
    BY DEF Unlink, Inv
  <2>2. arch[n].dir
    BY <2>1 DEF Inv, IDirs
  <2> QED
    BY <2>1, <2>2 DEF Typed, ArchRecs
<1>1. ASSUME NEW x \in arch[n].files,
             arch' = [arch EXCEPT ![n].files = IF x = "ID" THEN {} ELSE @ \ {x}],
             UNCHANGED deleting
      PROVE  \E a \in ArchRecs :
                 /\ arch' = [arch EXCEPT ![n] = a] /\ a.files \subseteq arch[n].files
                 /\ \A i \in DOMAIN a.blocks :
                       i \in DOMAIN arch[n].blocks /\ a.blocks[i] = arch[n].blocks[i]
                 /\ a.dir /\ deleting' = deleting
                 /\ a.lines = arch[n].lines /\ a.cut = arch[n].cut
  <2>1. PICK F : F = IF x = "ID" THEN {} ELSE arch[n].files \ {x}
    OBVIOUS
  <2>2. PICK a : a = [arch[n] EXCEPT !.files = F]
    OBVIOUS
  <2>3. F \subseteq arch[n].files
    BY <2>1
  <2>4. a \in ArchRecs /\ a.files = F /\ a.blocks = arch[n].blocks /\ a.dir = TRUE
        /\ a.lines = arch[n].lines /\ a.cut = arch[n].cut
    BY <1>0, <2>2, <2>3 DEF ArchRecs
  <2>5. arch' = [arch EXCEPT ![n] = a]
    BY <1>0, <1>1, <2>1, <2>2
  <2> QED
    BY <1>1, <2>3, <2>4, <2>5
<1>2. ASSUME NEW i \in DOMAIN arch[n].blocks,
             arch' = [arch EXCEPT ![n].blocks =
                        [j \in DOMAIN arch[n].blocks \ {i} |-> arch[n].blocks[j]]],
             UNCHANGED deleting
      PROVE  \E a \in ArchRecs :
                 /\ arch' = [arch EXCEPT ![n] = a] /\ a.files \subseteq arch[n].files
                 /\ \A j \in DOMAIN a.blocks :
                       j \in DOMAIN arch[n].blocks /\ a.blocks[j] = arch[n].blocks[j]
                 /\ a.dir /\ deleting' = deleting
                 /\ a.lines = arch[n].lines /\ a.cut = arch[n].cut
  <2>0. PICK b : b = arch[n].blocks
    OBVIOUS
  <2>1. PICK c : c = [j \in DOMAIN b \ {i} |-> b[j]]
    OBVIOUS
  <2>2. PICK a : a = [arch[n] EXCEPT !.blocks = c]
    OBVIOUS
  <2>3. c \in Partial(Indexes, Blocks) /\ \A j \in DOMAIN c : j \in DOMAIN b /\ c[j] = b[j]
    <3>1. b \in Partial(Indexes, Blocks)
      BY <1>0, <2>0 DEF ArchRecs
    <3> QED
      BY <3>1, <2>1, DropLemma
  <2>4. a \in ArchRecs /\ a.files = arch[n].files /\ a.blocks = c /\ a.dir = TRUE
        /\ a.lines = arch[n].lines /\ a.cut = arch[n].cut
    BY <1>0, <2>2, <2>3 DEF ArchRecs
  <2>5. arch' = [arch EXCEPT ![n] = a]
    BY <1>0, <1>2, <2>0, <2>1, <2>2
  <2> QED
    BY <1>2, <2>0, <2>3, <2>4, <2>5
<1>3. ASSUME arch' = [arch EXCEPT ![n] = NoArch], deleting' = deleting \ {n}
      PROVE  \E a \in ArchRecs :
                 /\ arch' = [arch EXCEPT ![n] = a] /\ a.files \subseteq arch[n].files
                 /\ \A i \in DOMAIN a.blocks :
                       i \in DOMAIN arch[n].blocks /\ a.blocks[i] = arch[n].blocks[i]
                 /\ a = NoArch /\ deleting' = deleting \ {n}
  <2>1. NoArch \in ArchRecs
    BY EmptyFun DEF NoArch, ArchRecs
  <2>2. NoArch.files = {} /\ DOMAIN NoArch.blocks = {}
    BY EmptyFun DEF NoArch
  <2> QED
    BY <1>3, <2>1, <2>2
<1> QED
  BY <1>0, <1>1, <1>2, <1>3 DEF Unlink

\* rm goes on: the archive is no longer counted on, and what is left of it fits
\* its list.
LEMMA UnlinkKeeps ==
    ASSUME Inv, NEW n \in Names, Unlink(n)
    PROVE  Inv'
<1>u. /\ UNCHANGED <<cmd, proc, repo, data, damaged, target, live>> /\ Typed
  BY DEF Unlink, Inv
<1>n. n \in deleting /\ arch[n].dir
  BY UnlinkFacts
<1>a. PICK a \in ArchRecs :
         /\ arch' = [arch EXCEPT ![n] = a] /\ a.files \subseteq arch[n].files
         /\ \A i \in DOMAIN a.blocks :
               i \in DOMAIN arch[n].blocks /\ a.blocks[i] = arch[n].blocks[i]
         /\ \/ /\ a.dir /\ deleting' = deleting
               /\ a.lines = arch[n].lines /\ a.cut = arch[n].cut
            \/ a = NoArch /\ deleting' = deleting \ {n}
  BY UnlinkFacts
<1>b. /\ arch' \in [Names -> ArchRecs] /\ arch'[n] = a
      /\ \A m \in Names : m # n => arch'[m] = arch[m]
      /\ deleting' \subseteq deleting /\ \A m : m # n /\ m \in deleting => m \in deleting'
  BY <1>u, <1>a DEF Typed
<1>c. \A m : Closing(m)' <=> Closing(m)
  BY <1>u DEF Closing, At
<1>f. \A L : Fits(L, arch[n].blocks, data) => Fits(L, a.blocks, data)
  BY <1>a, FitsFewer
<1>h. \A q \in Procs : proc[q].pc \in Past /\ proc[q].base = n => proc[q].hit
  BY <1>n DEF Inv, IName, NameOk
<1>m. \A q \in Procs : Making(q) => proc[q].name # n /\ proc[q].name \in Names
  <2> SUFFICES ASSUME NEW q \in Procs, Making(q)
               PROVE  proc[q].name # n /\ proc[q].name \in Names
    OBVIOUS
  <2>1. proc[q].name \notin deleting
    BY DEF Inv, IMaking
  <2>2. proc[q].pc \in MakingPlaces
    BY DEF Making
  <2> QED
    BY <2>1, <2>2, <1>n, MakingFacts
<1>4. Typed'
  BY <1>u, <1>b DEF Typed
<1>5. IPlace'
  BY <1>u DEF Inv, IPlace
<1>6. IKnown'
  BY <1>u DEF Inv, IKnown
<1>7. IName'
  BY <1>u, <1>b DEF Inv, IName, NameOk
<1>8. IOwn'
  BY <1>u DEF Inv, IOwn, Running
<1>9. IDirs'
  <2>1. \A m \in Names : ~arch'[m].dir => arch'[m] = NoArch
    BY <1>a, <1>b DEF Inv, IDirs
  <2>2. \A m \in deleting' : arch'[m].dir
    <3> SUFFICES ASSUME NEW m \in deleting' PROVE arch'[m].dir
      OBVIOUS
    <3>1. m \in Names /\ m \in deleting
      BY <1>b, <1>u DEF Typed
    <3>2. m # n => arch'[m].dir
      BY <3>1, <1>b DEF Inv, IDirs
    <3>3. m = n => a.dir
      BY <1>a
    <3> QED
      BY <3>2, <3>3, <1>b
  <2>3. \A q \in Procs : arch'[q].dir => arch[q].dir
    BY <1>n, <1>b, NameFacts
  <2> QED
    BY <2>1, <2>2, <2>3, <1>u DEF Inv, IDirs
<1>10. IMaking'
  <2> SUFFICES ASSUME NEW q \in Procs, Making(q)
               PROVE  /\ proc[q].name \notin deleting'
                      /\ MakingOk(proc[q], arch'[proc[q].name])
    BY <1>u DEF IMaking, Making
  <2>1. proc[q].name \notin deleting /\ MakingOk(proc[q], arch[proc[q].name])
    BY DEF Inv, IMaking
  <2> QED
    BY <2>1, <1>b, <1>m
<1>11. IBase'
  <2> SUFFICES ASSUME NEW q \in Procs, Based(q) PROVE OnBase(proc[q])'
    BY <1>u DEF IBase, Based
  <2>1. OnBase(proc[q]) /\ proc[q].pc \in Past
    BY DEF Inv, IBase, Based, BasePlaces, Past
  <2>2. ASSUME proc[q].base # NoName PROVE BaseOk(proc[q], arch'[proc[q].base], data)
    <3>1. proc[q].base \in Names /\ BaseOk(proc[q], arch[proc[q].base], data)
      BY <2>1, <2>2, NameFacts DEF OnBase
    <3>2. CASE proc[q].base # n
      BY <3>1, <3>2, <1>b
    <3>3. CASE proc[q].base = n
      <4>1. proc[q].hit
        BY <2>1, <3>3, <1>h
      <4>2. proc[q].pc = "open" => a.cut = <<>> /\ Fits(ToSet(a.lines), a.blocks, data)
        <5>1. CASE a.lines = arch[n].lines /\ a.cut = arch[n].cut
          BY <5>1, <3>1, <3>3, <1>f DEF BaseOk
        <5>2. CASE a = NoArch
          <6>1. a.cut = <<>> /\ ToSet(a.lines) = {} /\ a.blocks = <<>>
            BY <5>2, EmptyFun DEF NoArch
          <6>2. Fits({}, <<>>, data)
            BY FitsNothing DEF Full
          <6> QED
            BY <6>1, <6>2
        <5> QED
          BY <5>1, <5>2, <1>a
      <4>3. proc[q].pc # "open" => Fits(Range(proc[q].map), a.blocks, data)
        BY <3>1, <3>3, <1>f DEF BaseOk
      <4> QED
        BY <4>1, <4>2, <4>3, <3>3, <1>b DEF BaseOk
    <3> QED
      BY <3>2, <3>3
  <2> QED
    BY <2>1, <2>2, <1>u DEF OnBase, At
<1>12. IStore'
  <2> SUFFICES ASSUME NEW q \in Procs, proc[q].pc \in {"store", "close"}
               PROVE  /\ SentOk(proc[q], Own(q)', data, live)
                      /\ proc[q].pc = "store" => AllocOk(proc[q], Own(q)'.blocks, Base(q)'.blocks)
    BY <1>u DEF IStore
  <2>1. Making(q)
    BY DEF Making, MakingPlaces, Inv, IPlace, PlaceOk
  <2>2. Own(q)' = Own(q)
    BY <2>1, <1>m, <1>b, <1>u DEF Own
  <2>3. proc[q].pc = "store" => DOMAIN Base(q)'.blocks \subseteq DOMAIN Base(q).blocks
    <3> SUFFICES ASSUME proc[q].pc = "store"
                 PROVE  DOMAIN Base(q)'.blocks \subseteq DOMAIN Base(q).blocks
      OBVIOUS
    <3>1. Based(q)
      BY <2>1 DEF Based, BasePlaces, Making
    <3>2. proc[q].base # NoName => proc[q].base \in Names
      BY <3>1, NameFacts DEF Inv, IBase, OnBase
    <3>3. Base(q)' = IF proc[q].base = NoName THEN NoArch ELSE arch'[proc[q].base]
      BY <1>u DEF Base
    <3>4. CASE proc[q].base = NoName
      BY <3>3, <3>4 DEF Base
    <3>5. CASE proc[q].base = n /\ proc[q].base # NoName
      BY <3>3, <3>5, <1>a, <1>b DEF Base
    <3>6. CASE proc[q].base # n /\ proc[q].base # NoName
      BY <3>2, <3>3, <3>6, <1>b DEF Base
    <3> QED
      BY <3>4, <3>5, <3>6
  <2>4. SentOk(proc[q], Own(q), data, live)
    BY DEF Inv, IStore
  <2>5. proc[q].pc = "store" => AllocOk(proc[q], Own(q).blocks, Base(q)'.blocks)
    BY <2>3 DEF Inv, IStore, AllocOk
  <2> QED
    BY <2>2, <2>4, <2>5
<1>13. IData'
  <2>1. \A m \in Names : \A i \in DOMAIN arch'[m].blocks : arch'[m].blocks[i] \in DOMAIN data
    <3> SUFFICES ASSUME NEW m \in Names, NEW i \in DOMAIN arch'[m].blocks
                 PROVE  arch'[m].blocks[i] \in DOMAIN data
      OBVIOUS
    <3>1. i \in DOMAIN arch[m].blocks /\ arch'[m].blocks[i] = arch[m].blocks[i]
      BY <1>a, <1>b
    <3> QED
      BY <3>1 DEF Inv, IData
  <2> QED
    BY <2>1, <1>u DEF Inv, IData
<1>14. IArch'
  <2> SUFFICES ASSUME NEW m \in Names, "Finished" \in arch'[m].files, ~Closing(m)
               PROVE  ArchOk(arch'[m], data, m \notin deleting')
    BY <1>c, <1>u DEF IArch
  <2>1. CASE m # n
    <3>1. ArchOk(arch[m], data, m \notin deleting)
      BY <2>1, <1>b DEF Inv, IArch
    <3> QED
      BY <2>1, <3>1, <1>b
  <2>2. CASE m = n
    <3>1. "Finished" \in a.files /\ a # NoArch
      BY <2>2, <1>b DEF NoArch
    <3>2. ArchOk(arch[n], data, n \notin deleting)
      BY <2>2, <3>1, <1>a DEF Inv, IArch
    <3>3. deleting' = deleting /\ a.lines = arch[n].lines /\ a.cut = arch[n].cut
      BY <3>1, <1>a
    <3> QED
      BY <2>2, <3>2, <3>3, <1>b, <1>f, <1>n DEF ArchOk
  <2> QED
    BY <2>1, <2>2
<1>15. IRead'
  <2> SUFFICES ASSUME NEW q \in Procs, Trusts(proc[q]) PROVE Sees(cmd[q], proc[q])'
    BY <1>u DEF IRead, Trusts
  <2>1. Sees(cmd[q], proc[q])
    BY DEF Inv, IRead
  <2>2. proc[q].name # n
    <3>1. proc[q].pc \in Past /\ cmd[q].op \in Readers /\ ~proc[q].hit
      BY DEF Trusts, Past, Inv, IPlace, PlaceOk
    <3>2. proc[q].name = proc[q].base
      BY <3>1 DEF Inv, IName, NameOk
    <3> QED
      BY <3>1, <3>2, <1>h
  <2>3. arch'[proc[q].name] = arch[proc[q].name]
    BY <2>1, <2>2, <1>b DEF Sees
  <2> QED
    BY <2>1, <2>3, <1>c, <1>u DEF Sees
<1>16. ICause'
  BY <1>u DEF Inv, ICause
<1> QED
  BY <1>4, <1>5, <1>6, <1>7, <1>8, <1>9, <1>10, <1>11, <1>12, <1>13, <1>14, <1>15, <1>16 DEF Inv

\* Files change when no backup and no comparison runs.
LEMMA ChangeKeeps ==
    ASSUME Inv, NEW f \in Files, Change(f)
    PROVE  Inv' /\ live' \in Partial(Files, Versions)
<1>u. /\ UNCHANGED <<cmd, proc, repo, arch, data, damaged, target, deleting>> /\ Typed
      /\ \A q \in Procs : Running(q) => cmd[q].op \notin {"create", "compare"}
  BY DEF Change, Inv
<1>1. live' \in Partial(Files, Versions)
  <2>1. live \in Partial(Files, Versions)
    BY <1>u DEF Typed
  <2>2. ASSUME NEW v \in Versions, live' = Put(live, f, v) PROVE live' \in Partial(Files, Versions)
    BY <2>1, <2>2, PutType
  <2>3. ASSUME live' = [g \in DOMAIN live \ {f} |-> live[g]]
        PROVE  live' \in Partial(Files, Versions)
    <3>1. PICK w : w = [g \in DOMAIN live \ {f} |-> live[g]]
      OBVIOUS
    <3>2. w \in Partial(Files, Versions)
      BY <2>1, <3>1, DropLemma
    <3> QED
      BY <2>3, <3>1, <3>2
  <2> QED
    BY <2>2, <2>3 DEF Change
<1>2. Typed'
  BY <1>u, <1>1 DEF Typed
<1>3. IPlace' /\ IKnown' /\ IName' /\ ICause'
  BY <1>u DEF Inv, IPlace, IKnown, IName, ICause
<1>4. IOwn'
  BY <1>u DEF Inv, IOwn, Running
<1>5. IDirs' /\ IMaking' /\ IData'
  BY <1>u DEF Inv, IDirs, IMaking, Making, IData
<1>6. IBase'
  BY <1>u DEF Inv, IBase, Based, OnBase, At
<1>7. IStore'
  <2>1. \A q \in Procs : proc[q].pc \notin {"store", "close"}
    BY <1>u DEF Inv, IPlace, PlaceOk, Running
  <2> QED
    BY <2>1, <1>u DEF IStore
<1>8. IArch'
  BY <1>u DEF Inv, IArch, Closing, At
<1>9. IRead'
  <2> SUFFICES ASSUME NEW q \in Procs, Trusts(proc[q]) PROVE Sees(cmd[q], proc[q])'
    BY <1>u DEF IRead, Trusts
  <2>1. Sees(cmd[q], proc[q])
    BY DEF Inv, IRead
  <2>2. cmd[q].op # "compare"
    BY <1>u DEF Trusts, Running
  <2>3. ReadOk(cmd[q], proc[q], arch[proc[q].name], damaged, live')
    BY <2>1, <2>2 DEF Sees, ReadOk, Differs
  <2> QED
    BY <2>1, <2>3, <1>u DEF Sees, Closing, At
<1> QED
  BY <1>1, <1>2, <1>3, <1>4, <1>5, <1>6, <1>7, <1>8, <1>9 DEF Inv

\* The disk is at fault when no reader runs.
LEMMA DamageKeeps ==
    ASSUME Inv, NEW b \in Procs \X Files, Damage(b)
    PROVE  Inv'
<1>u. /\ UNCHANGED <<cmd, proc, repo, arch, data, target, live, deleting>> /\ Typed
      /\ \A q \in Procs : Running(q) => cmd[q].op \notin Readers
      /\ damaged' = damaged \cup {b}
  BY DEF Damage, Inv
<1>2. Typed'
  BY <1>u DEF Typed, Blocks
<1>3. IPlace' /\ IKnown' /\ IName' /\ ICause'
  BY <1>u DEF Inv, IPlace, IKnown, IName, ICause
<1>4. IOwn'
  BY <1>u DEF Inv, IOwn, Running
<1>5. IDirs' /\ IMaking' /\ IData'
  BY <1>u DEF Inv, IDirs, IMaking, Making, IData
<1>6. IBase'
  BY <1>u DEF Inv, IBase, Based, OnBase, At
<1>7. IStore'
  BY <1>u DEF Inv, IStore, Own, Base
<1>8. IArch'
  BY <1>u DEF Inv, IArch, Closing, At
<1>9. IRead'
  <2> SUFFICES ASSUME NEW q \in Procs, Trusts(proc[q]) PROVE FALSE
    BY <1>u DEF IRead, Trusts
  <2>1. Running(q) /\ cmd[q].op \in Readers
    BY DEF Trusts, Running, Inv, IPlace, PlaceOk
  <2> QED
    BY <2>1, <1>u
<1> QED
  BY <1>2, <1>3, <1>4, <1>5, <1>6, <1>7, <1>8, <1>9 DEF Inv
-----------------------------------------------------------------------------
(* The theorems. *)

\* In the beginning there is no archive and no command has started.
LEMMA InitKeeps ==
    ASSUME Init
    PROVE  Inv
<1>1. PICK s \in Scenes : cmd = s.cmd /\ repo = s.repo
  BY DEF Init
<1>2. /\ cmd \in [Procs -> Cmds] /\ repo \in {"none", "directory", "ready"}
      /\ \A p \in Procs : cmd[p].op = "create" => cmd[p].name \in {Named, NoName}
  <2>1. PICK c : c = s.cmd
    OBVIOUS
  <2>2. /\ c \in [Procs -> Cmds] /\ s.repo \in {"none", "directory", "ready"}
        /\ \A p \in Procs : c[p].op = "create" => c[p].name \in {Named, NoName}
    BY <2>1, ScenesAssumption, Zenon DEF Cmds
  <2> QED
    BY <2>1, <2>2, <1>1
<1>e. <<>> \in Partial(Files, Lines) /\ <<>> \in Seq(Lines) /\ <<>> \in Partial(Indexes, Blocks)
      /\ <<>> \in Partial(Blocks, Versions) /\ DOMAIN <<>> = {}
  BY EmptyFun
<1>3. /\ \A p \in Procs : proc[p] = Idle
      /\ \A n \in Names : arch[n] = NoArch
      /\ data = <<>> /\ damaged = {} /\ target = FALSE /\ deleting = {}
  BY DEF Init
<1>4. Idle \in ProcRecs
  BY <1>e DEF Idle, ProcRecs, Places
<1>5. NoArch \in ArchRecs
  BY <1>e DEF NoArch, ArchRecs
<1>6. live \in Partial(Files, Versions)
  <2>1. \E v \in Versions : \A w \in Versions : v <= w
    BY VersionsAssumption, LeastNat
  <2>2. PICK v : v = CHOOSE u \in Versions : \A w \in Versions : u <= w
    OBVIOUS
  <2>3. v \in Versions
    BY <2>1, <2>2
  <2>4. live = [f \in Files |-> v]
    BY <2>2 DEF Init
  <2>5. DOMAIN live \subseteq Files /\ live \in [DOMAIN live -> Versions]
    BY <2>3, <2>4
  <2> QED
    BY <2>5, PartialDef
<1>7. Typed
  <2>1. proc \in [Procs -> ProcRecs] /\ arch \in [Names -> ArchRecs]
    BY <1>4, <1>5 DEF Init
  <2> QED
    BY <2>1, <1>2, <1>3, <1>6, <1>e DEF Typed
<1>8. /\ Idle.pc = "idle" /\ Idle.result = "none" /\ Idle.sent = <<>> /\ Idle.map = <<>>
      /\ Idle.used = {} /\ Idle.warned = FALSE /\ Idle.sure = FALSE
      /\ NoArch.dir = FALSE /\ NoArch.files = {} /\ NoArch.blocks = <<>>
  BY DEF Idle, NoArch
<1>9. IPlace /\ IKnown /\ IName /\ ICause
  BY <1>3, <1>8, <1>e DEF IPlace, PlaceOk, IKnown, KnownOk, IName, NameOk, Past, ICause, Cause
<1>10. IOwn
  BY <1>3, <1>8 DEF IOwn, Running
<1>11. IDirs /\ IMaking
  BY <1>3, <1>8, NameFacts DEF IDirs, IMaking, Making, MakingPlaces
<1>12. IBase /\ IStore
  BY <1>3, <1>8 DEF IBase, Based, BasePlaces, IStore
<1>13. IData /\ IArch
  BY <1>3, <1>8, <1>e DEF IData, IArch
<1>14. IRead
  BY <1>3, <1>8 DEF IRead, Trusts
<1> QED
  BY <1>7, <1>9, <1>10, <1>11, <1>12, <1>13, <1>14 DEF Inv

\* Every step keeps the invariant.
LEMMA NextKeeps ==
    ASSUME Inv, [Next]_vars, ~Exposed
    PROVE  Inv'
<1>1. ASSUME NEW p \in Procs, Command(p) PROVE Inv'
  <2>1. CASE Start(p) \/ MakeRepo(p) \/ MarkRepo(p) \/ Scan(p)
    BY <2>1, StartKeeps, MakeRepoKeeps, ScanKeeps
  <2>2. CASE OpenFails(p) \/ Open(p)
    BY <2>2, OpenFailsKeeps, OpenKeeps
  <2>3. CASE MakeTarget(p) \/ Verdict(p) \/ \E f \in Files : ReadLine(p, f)
    BY <2>3, MakeTargetKeeps, VerdictKeeps, ReadLineKeeps
  <2>4. CASE Check(p) \/ MakeDir(p) \/ Mark(p) \/ OpenList(p)
    BY <2>4, CheckKeeps, MakeDirKeeps, MarkKeeps, OpenListKeeps
  <2>5. CASE \E f \in Files : StoreFails(p, f) \/ LinkFile(p, f) \/ WriteFile(p, f)
    BY <2>5, StoreFailsKeeps, LinkFileKeeps, WriteFileKeeps
  <2>6. CASE Finish(p) \/ Close(p)
    BY <2>6, FinishKeeps, CloseKeeps
  <2> QED
    BY <1>1, <2>1, <2>2, <2>3, <2>4, <2>5, <2>6 DEF Command
<1>2. ASSUME Environment PROVE Inv'
  <2>1. ASSUME NEW p \in Procs, Kill(p) PROVE Inv'
    BY <2>1, KillKeeps
  <2>2. ASSUME NEW n \in Names, Delete(n) \/ Unlink(n) PROVE Inv'
    BY <2>2, DeleteKeeps, UnlinkKeeps
  <2>3. ASSUME NEW f \in Files, Change(f) PROVE Inv'
    BY <2>3, ChangeKeeps
  <2>4. ASSUME NEW b \in Procs \X Files, Damage(b) PROVE Inv'
    BY <2>4, DamageKeeps
  <2> QED
    BY <1>2, <2>1, <2>2, <2>3, <2>4 DEF Environment
<1>3. ASSUME UNCHANGED vars PROVE Inv'
  <2>u. UNCHANGED <<cmd, proc, repo, arch, data, damaged, target, live, deleting>>
    BY <1>3 DEF vars
  <2>1. Typed'
    BY <2>u DEF Inv, Typed
  <2>2. IPlace' /\ IKnown' /\ IName' /\ ICause'
    BY <2>u DEF Inv, IPlace, IKnown, IName, ICause
  <2>3. IOwn'
    BY <2>u DEF Inv, IOwn, Running
  <2>4. IDirs' /\ IMaking' /\ IData'
    BY <2>u DEF Inv, IDirs, IMaking, Making, IData
  <2>5. IBase'
    BY <2>u DEF Inv, IBase, Based, OnBase, At
  <2>6. IStore'
    BY <2>u DEF Inv, IStore, Own, Base
  <2>7. IArch'
    BY <2>u DEF Inv, IArch, Closing, At
  <2>8. IRead'
    BY <2>u DEF Inv, IRead, Trusts, Sees, Closing, At
  <2> QED
    BY <2>1, <2>2, <2>3, <2>4, <2>5, <2>6, <2>7, <2>8 DEF Inv
<1> QED
  BY <1>1, <1>2, <1>3 DEF Next

\* What a process knows of the archives, what these hold and what their blocks
\* contain agree in every state, when nobody meets an archive whose list is open.
THEOREM InvTheorem ==
    ASSUME ~Exposed
    PROVE  Spec => []Inv
<1>1. Init => Inv
  BY InitKeeps
<1>2. Inv /\ [Next]_vars => Inv'
  BY NextKeeps
<1> QED
  BY <1>1, <1>2, PTL DEF Spec

\* The invariant implies the types; block indexes stay below the number of files.
LEMMA InvTypeOK ==
    ASSUME Inv
    PROVE  TypeOK
<1>t. Typed
  BY DEF Inv
<1>1. repo \in {"none", "directory", "ready"}
  BY <1>t DEF Typed
<1>2. ASSUME NEW n \in Names
      PROVE  /\ arch[n].files \subseteq {"ID", "List", "Finished"}
             /\ DOMAIN arch[n].blocks \subseteq 0..Cardinality(Files) - 1
             /\ ToSet(arch[n].blocks) \subseteq DOMAIN data
  <2>1. arch[n].files \subseteq {"ID", "List", "Finished"}
    BY <1>t DEF Typed, ArchRecs
  <2>2. DOMAIN arch[n].blocks \subseteq 0..Cardinality(Files) - 1
    BY <1>t, ArchFields, PartialDef DEF Indexes
  <2>3. ToSet(arch[n].blocks) \subseteq DOMAIN data
    BY DEF Inv, IData, ToSet
  <2> QED
    BY <2>1, <2>2, <2>3
<1>3. ASSUME NEW p \in Procs
      PROVE  /\ proc[p].result \in {"none", "ok", "error", "killed"}
             /\ proc[p].name \in Names \cup {NoName}
             /\ proc[p].base \in Names \cup {NoName}
  BY <1>t DEF Typed, ProcRecs
<1> QED
  BY <1>1, <1>2, <1>3 DEF TypeOK

\* An index is taken again when its file has changed, so that indexes stay below
\* the number of files; every block of an archive is on the disk.
THEOREM TypeOKTheorem ==
    ASSUME ~Exposed
    PROVE  Spec => []TypeOK
<1>1. Inv => TypeOK
  BY InvTypeOK
<1>2. Spec => []Inv
  BY InvTheorem
<1> QED
  BY <1>1, <1>2, PTL

\* A backup fails only because its name is taken or its base is being deleted.
THEOREM FailsOnlyWithCauseTheorem ==
    ASSUME ~Exposed
    PROVE  Spec => []FailsOnlyWithCause
<1>1. Inv => FailsOnlyWithCause
  BY DEF Inv, ICause, Cause, FailsOnlyWithCause
<1>2. Spec => []Inv
  BY InvTheorem
<1> QED
  BY <1>1, <1>2, PTL
-----------------------------------------------------------------------------
(* What readers tell. *)

\* A process is changed by its own steps only, and marked by Delete.
LEMMA OthersKeep ==
    ASSUME Typed, NEW p \in Procs, NEW q \in Procs, q # p, Command(q) \/ Kill(q)
    PROVE  proc'[p] = proc[p]
<1>0. proc \in [Procs -> ProcRecs]
  BY DEF Typed
<1>1. CASE Start(q) \/ MakeRepo(q) \/ MarkRepo(q) \/ Scan(q)
  BY <1>0, <1>1 DEF Start, MakeRepo, MarkRepo, Scan, Goto, Fail, End
<1>2. CASE OpenFails(q) \/ Open(q)
  BY <1>0, <1>2 DEF OpenFails, Open, Fail, End
<1>3. CASE MakeTarget(q) \/ Verdict(q) \/ \E f \in Files : ReadLine(q, f)
  BY <1>0, <1>3 DEF MakeTarget, Verdict, ReadLine, Goto, Fail, End
<1>4. CASE Check(q) \/ MakeDir(q) \/ Mark(q) \/ OpenList(q)
  BY <1>0, <1>4 DEF Check, MakeDir, Mark, OpenList, Goto, Fail, End
<1>5. CASE \E f \in Files : StoreFails(q, f) \/ LinkFile(q, f) \/ WriteFile(q, f)
  BY <1>0, <1>5 DEF StoreFails, LinkFile, WriteFile, Push, Fail, End
<1>6. CASE Finish(q) \/ Close(q) \/ Kill(q)
  BY <1>0, <1>6 DEF Finish, Close, Kill, Goto, End
<1> QED
  BY <1>1, <1>2, <1>3, <1>4, <1>5, <1>6 DEF Command

\* A reader that has its list ends by its own job or verdict.
LEMMA ReaderSteps ==
    ASSUME Typed, NEW p \in Procs, cmd[p].op \in Readers, proc[p].pc = "read",
           [Next]_vars, proc'[p].pc = "done"
    PROVE  Verdict(p) \/ \E f \in Files : ReadLine(p, f)
<1>0. proc \in [Procs -> ProcRecs]
  BY DEF Typed
<1>1. ASSUME NEW q \in Procs, Command(q)
      PROVE  Verdict(p) \/ \E f \in Files : ReadLine(p, f)
  <2>1. q = p
    <3> SUFFICES ASSUME q # p PROVE FALSE
      OBVIOUS
    <3>1. proc'[p] = proc[p]
      BY <1>1, OthersKeep
    <3> QED
      BY <3>1
  <2>2. Command(p)
    BY <1>1, <2>1
  <2>3. ~(Start(p) \/ MakeRepo(p) \/ MarkRepo(p) \/ Scan(p) \/ OpenFails(p) \/ Open(p))
    BY DEF Start, MakeRepo, MarkRepo, Scan, OpenFails, Open, At
  <2>4. ~(MakeTarget(p) \/ Check(p) \/ MakeDir(p) \/ Mark(p) \/ OpenList(p))
    BY DEF MakeTarget, Check, MakeDir, Mark, OpenList, At
  <2>5. ~((\E f \in Files : StoreFails(p, f) \/ LinkFile(p, f) \/ WriteFile(p, f))
          \/ Finish(p) \/ Close(p))
    BY DEF StoreFails, LinkFile, WriteFile, Finish, Close, At
  <2> QED
    BY <2>2, <2>3, <2>4, <2>5 DEF Command
<1>2. ASSUME NEW q \in Procs, Kill(q) PROVE FALSE
  <2>1. q # p
    BY <1>2 DEF Kill
  <2>2. proc'[p] = proc[p]
    BY <1>2, <2>1, OthersKeep
  <2> QED
    BY <2>2
<1>3. ASSUME NEW n \in Names, Delete(n) PROVE FALSE
  <2>1. proc' = [q \in Procs |-> IF Running(q) /\ proc[q].base = n
                                 THEN [proc[q] EXCEPT !.hit = TRUE] ELSE proc[q]]
    BY <1>3 DEF Delete
  <2>2. proc'[p].pc = proc[p].pc
    BY <1>0, <2>1 DEF ProcRecs
  <2> QED
    BY <2>2
<1>4. ASSUME UNCHANGED proc PROVE FALSE
  BY <1>4
<1>5. ASSUME Environment PROVE FALSE
  <2>1. ASSUME NEW n \in Names, Unlink(n) PROVE FALSE
    BY <2>1, <1>4 DEF Unlink
  <2>2. ASSUME NEW f \in Files, Change(f) PROVE FALSE
    BY <2>2, <1>4 DEF Change
  <2>3. ASSUME NEW b \in Procs \X Files, Damage(b) PROVE FALSE
    BY <2>3, <1>4 DEF Damage
  <2> QED
    BY <1>2, <1>3, <1>5, <2>1, <2>2, <2>3 DEF Environment
<1>6. ASSUME UNCHANGED vars PROVE FALSE
  BY <1>4, <1>6 DEF vars
<1> QED
  BY <1>1, <1>5, <1>6 DEF Next

\* There is nothing to report exactly when no line has a block that is damaged
\* or, for compare, another file.
LEMMA SoundLines ==
    ASSUME Inv, NEW p \in Procs, Trusts(proc[p])
    PROVE  /\ Sound(p) <=> \A f \in DOMAIN proc[p].map :
                             /\ ~Rotten(proc[p].map[f], Own(p), damaged)
                             /\ ~Differs(cmd[p], proc[p].map[f], live)
                             /\ cmd[p].op = "compare" => f \in DOMAIN live
           /\ \A i \in DOMAIN Own(p).blocks :
                 \E f \in DOMAIN proc[p].map : proc[p].map[f].idx = i
<1>1. /\ ArchOk(Own(p), data, TRUE)
      /\ Range(proc[p].map) = ToSet(Own(p).lines)
      /\ \A f \in DOMAIN proc[p].map :
            proc[p].map[f] \in ToSet(Own(p).lines) /\ proc[p].map[f].file = f
  BY TrustedWhole
<1>2. ASSUME NEW i \in DOMAIN Own(p).blocks
      PROVE  \E f \in DOMAIN proc[p].map : proc[p].map[f].idx = i
  <2>1. PICK l \in ToSet(Own(p).lines) : l.idx = i
    BY <1>1 DEF ArchOk, Fits
  <2>2. l \in Range(proc[p].map)
    BY <1>1
  <2> QED
    BY <2>1, <2>2 DEF Range
<1>3. /\ ToSet(Own(p).blocks) \cap damaged = {} <=>
            \A i \in DOMAIN Own(p).blocks : Own(p).blocks[i] \notin damaged
  <2>1. \A x : x \in ToSet(Own(p).blocks) <=> \E i \in DOMAIN Own(p).blocks : Own(p).blocks[i] = x
    BY DEF ToSet
  <2> QED
    BY <2>1
<1>4. ToSet(Own(p).blocks) \cap damaged = {} <=>
          \A f \in DOMAIN proc[p].map : ~Rotten(proc[p].map[f], Own(p), damaged)
  BY <1>2, <1>3 DEF Rotten
<1>5. (\A l \in ToSet(Own(p).lines) : l.file \in DOMAIN live /\ live[l.file] = l.ver) <=>
          \A f \in DOMAIN proc[p].map : f \in DOMAIN live /\ live[f] = proc[p].map[f].ver
  <2>1. \A l : l \in ToSet(Own(p).lines) <=> \E f \in DOMAIN proc[p].map : proc[p].map[f] = l
    BY <1>1 DEF Range
  <2> QED
    BY <2>1, <1>1
<1>6. cmd[p].op = "compare" =>
          ((\A l \in ToSet(Own(p).lines) : l.file \in DOMAIN live /\ live[l.file] = l.ver) <=>
           \A f \in DOMAIN proc[p].map : /\ ~Differs(cmd[p], proc[p].map[f], live)
                                         /\ f \in DOMAIN live)
  BY <1>1, <1>5 DEF Differs
<1>7. cmd[p].op # "compare" =>
          \A f \in DOMAIN proc[p].map : ~Differs(cmd[p], proc[p].map[f], live)
  BY DEF Differs
<1>8. Sound(p) <=> /\ ToSet(Own(p).blocks) \cap damaged = {}
                   /\ cmd[p].op = "compare" =>
                         \A l \in ToSet(Own(p).lines) :
                            l.file \in DOMAIN live /\ live[l.file] = l.ver
  BY DEF Sound, Own
<1>9. Sound(p) <=> \A f \in DOMAIN proc[p].map :
                      /\ ~Rotten(proc[p].map[f], Own(p), damaged)
                      /\ ~Differs(cmd[p], proc[p].map[f], live)
                      /\ cmd[p].op = "compare" => f \in DOMAIN live
  <2>1. CASE cmd[p].op = "compare"
    BY <2>1, <1>4, <1>6, <1>8
  <2>2. CASE cmd[p].op # "compare"
    BY <2>2, <1>4, <1>7, <1>8
  <2> QED
    BY <2>1, <2>2
<1> QED
  BY <1>2, <1>9

\* A reader that trusts its archive and ends says whether it is sound.
LEMMA TellLemma ==
    ASSUME Inv, NEW p \in Procs, cmd[p].op \in Readers, proc[p].pc = "read", Trusts(proc[p]),
           [Next]_vars, proc'[p].pc = "done"
    PROVE  (proc'[p].result = "ok" /\ ~proc'[p].warned) <=> Sound(p)
<1>0. Typed /\ proc \in [Procs -> ProcRecs] /\ proc[p] \in ProcRecs
  BY DEF Inv, Typed
<1>1. /\ Sound(p) <=> \A f \in DOMAIN proc[p].map :
                        /\ ~Rotten(proc[p].map[f], Own(p), damaged)
                        /\ ~Differs(cmd[p], proc[p].map[f], live)
                        /\ cmd[p].op = "compare" => f \in DOMAIN live
      /\ \A i \in DOMAIN Own(p).blocks :
            \E f \in DOMAIN proc[p].map : proc[p].map[f].idx = i
  BY SoundLines
<1>2. \A result \in Results, why \in Reasons :
          End(p, result, why) => proc'[p].result = result /\ proc'[p].warned = proc[p].warned
  <2> SUFFICES ASSUME NEW result \in Results, NEW why \in Reasons, End(p, result, why)
               PROVE  proc'[p].result = result /\ proc'[p].warned = proc[p].warned
    OBVIOUS
  <2>1. PICK e : e = Ended(proc[p], result, why)
    OBVIOUS
  <2>2. proc' = [proc EXCEPT ![p] = e]
    BY <2>1 DEF End, Ended
  <2>3. e.result = result
    BY <1>0, <2>1, EndedFields
  <2>4. e.warned = proc[p].warned
    BY <1>0, <2>1, EndedFields
  <2> QED
    BY <1>0, <2>2, <2>3, <2>4
<1>3. CASE Verdict(p)
  <2>1. proc[p].todo = {}
    BY <1>3 DEF Verdict
  <2>2. ReadOk(cmd[p], proc[p], Own(p), damaged, live)
    BY TrustedWhole
  <2>3. proc[p].used = {proc[p].map[f].idx : f \in DOMAIN proc[p].map}
    <3>1. DOMAIN proc[p].map \ proc[p].todo = DOMAIN proc[p].map
      BY <2>1
    <3> QED
      BY <2>2, <3>1 DEF ReadOk
  <2>4. DOMAIN Own(p).blocks \subseteq proc[p].used
    BY <1>1, <2>3
  <2>5. End(p, "ok", "none")
    BY <1>3, <2>4 DEF Verdict, Own
  <2>6. proc'[p].result = "ok" /\ proc'[p].warned = proc[p].warned
    BY <1>2, <2>5 DEF Results, Reasons
  <2>7. proc[p].warned <=> \E f \in DOMAIN proc[p].map :
                              \/ Rotten(proc[p].map[f], Own(p), damaged)
                              \/ Differs(cmd[p], proc[p].map[f], live)
    BY <2>1, <2>2 DEF ReadOk
  <2>8. cmd[p].op = "compare" => \A f \in DOMAIN proc[p].map : f \in DOMAIN live
    BY <2>1, <2>2 DEF ReadOk
  <2> QED
    BY <1>1, <2>6, <2>7, <2>8
<1>4. ASSUME NEW f \in Files, ReadLine(p, f)
      PROVE  (proc'[p].result = "ok" /\ ~proc'[p].warned) <=> Sound(p)
  <2>1. f \in proc[p].todo /\ f \in DOMAIN proc[p].map
    BY <1>4 DEF ReadLine, Inv, IKnown, KnownOk
  <2>2. proc[p].map[f].idx \in DOMAIN Own(p).blocks
    BY <2>1, TrustedWhole
  <2>3. \A why \in {"stat", "hash"} : Fail(p, why) => proc'[p].result # "ok"
    BY <1>2 DEF Fail, Results, Reasons
  <2>4. \/ cmd[p].op = "compare" /\ f \notin DOMAIN live /\ Fail(p, "stat")
        \/ /\ proc[p].map[f].idx \in DOMAIN Own(p).blocks
           /\ Own(p).blocks[proc[p].map[f].idx] \in damaged
           /\ Fail(p, "hash")
        \/ \E w : proc' = [proc EXCEPT ![p].todo = @ \ {f},
                                       ![p].used = @ \cup {proc[p].map[f].idx},
                                       ![p].warned = w]
    BY <1>4, <2>2 DEF ReadLine, Own
  <2>5. ~\E w : proc' = [proc EXCEPT ![p].todo = @ \ {f},
                                     ![p].used = @ \cup {proc[p].map[f].idx},
                                     ![p].warned = w]
    <3> SUFFICES ASSUME NEW w, proc' = [proc EXCEPT ![p].todo = @ \ {f},
                                                    ![p].used = @ \cup {proc[p].map[f].idx},
                                                    ![p].warned = w]
                 PROVE  FALSE
      OBVIOUS
    <3>1. proc'[p].pc = proc[p].pc
      BY <1>0 DEF ProcRecs
    <3> QED
      BY <3>1
  <2>6. CASE cmd[p].op = "compare" /\ f \notin DOMAIN live /\ Fail(p, "stat")
    <3>1. ~Sound(p)
      BY <2>1, <2>6, <1>1
    <3> QED
      BY <3>1, <2>3, <2>6
  <2>7. CASE /\ proc[p].map[f].idx \in DOMAIN Own(p).blocks
             /\ Own(p).blocks[proc[p].map[f].idx] \in damaged
             /\ Fail(p, "hash")
    <3>1. ~Sound(p)
      BY <2>1, <2>7, <1>1 DEF Rotten
    <3> QED
      BY <3>1, <2>3, <2>7
  <2> QED
    BY <2>4, <2>5, <2>6, <2>7
<1> QED
  BY <1>0, <1>3, <1>4, ReaderSteps

\* Extract, test and compare of a finished archive that nobody deletes end well
\* and without a warning exactly when it is undamaged and, for compare, the files
\* are still the ones in it.
THEOREM ReadersTellTheorem ==
    ASSUME ~Exposed
    PROVE  Spec => ReadersTell
<1>1. ASSUME Inv, [Next]_vars
      PROVE  \A p \in Procs :
                /\ cmd[p].op \in Readers /\ Running(p) /\ proc[p].pc # "target"
                /\ proc'[p].pc = "done" /\ proc[p].sure /\ ~proc[p].hit
                => ((proc'[p].result = "ok" /\ ~proc'[p].warned) <=> Sound(p))
  <2> SUFFICES ASSUME NEW p \in Procs, cmd[p].op \in Readers, Running(p),
                      proc[p].pc # "target", proc'[p].pc = "done", proc[p].sure, ~proc[p].hit
               PROVE  (proc'[p].result = "ok" /\ ~proc'[p].warned) <=> Sound(p)
    OBVIOUS
  <2>1. proc[p].pc \notin {"idle", "mkrepo", "mkid", "scan", "open"}
    BY <1>1 DEF Inv, IKnown, KnownOk
  <2>2. proc[p].pc \notin {"check", "mkdir", "mark", "list", "store", "close"}
    BY <1>1 DEF Inv, IPlace, PlaceOk, Readers
  <2>3. proc[p].pc \in Places
    BY <1>1 DEF Inv, Typed, ProcRecs
  <2>4. proc[p].pc = "read"
    BY <2>1, <2>2, <2>3 DEF Places, Running
  <2>5. Trusts(proc[p])
    BY <2>4 DEF Trusts
  <2> QED
    BY <1>1, <2>4, <2>5, TellLemma
<1>2. Spec => []Inv
  BY InvTheorem
<1> QED
  BY <1>1, <1>2, PTL DEF Spec, ReadersTell
-----------------------------------------------------------------------------
(* The store of snapshots. *)

\* The store that the archives are.
Stored == [n \in {m \in Names : Committed(m)} |-> Restored(n)]

\* What the lines L restore of the blocks b, whose contents are d.
Restores(L, b, d) ==
    [f \in DOMAIN ByFile(L) |->
        IF ByFile(L)[f].idx \in DOMAIN b THEN d[b[ByFile(L)[f].idx]] ELSE Lost]

\* A full list with a line for each file of now, of its version, restores now.
LEMMA RestoresNow ==
    ASSUME NEW L, NEW b, NEW d, NEW now \in Partial(Files, Versions), Full(L, b, d),
           \A l \in L : l.file \in DOMAIN now /\ now[l.file] = l.ver,
           \A f \in DOMAIN now : \E l \in L : l.file = f
    PROVE  Restores(L, b, d) = now
<1>1. now \in [DOMAIN now -> Versions]
  BY PartialDef
<1>2. L \subseteq [file : Files, ver : Versions, idx : Nat \cup {NoIdx}]
  BY DEF Full, Fits
<1>3. PICK t : t = ByFile(L)
  OBVIOUS
<1>4. DOMAIN t = {l.file : l \in L}
  BY <1>2, <1>3, ByFileRows
<1>5. \A f \in DOMAIN t : t[f] \in L /\ t[f].file = f
  BY <1>2, <1>3, ByFileRows
<1>6. DOMAIN t = DOMAIN now
  BY <1>4
<1>7. ASSUME NEW f \in DOMAIN t
      PROVE  (IF t[f].idx \in DOMAIN b THEN d[b[t[f].idx]] ELSE Lost) = now[f]
  <2>1. PICK l \in L : l = t[f] /\ l.file = f
    BY <1>5
  <2>2. l.idx \in DOMAIN b
    BY DEF Full
  <2>3. PICK m \in L : m.idx = l.idx /\ d[b[l.idx]] = m.ver
    BY <2>2 DEF Full, Fits
  <2>4. m = l
    BY <2>3 DEF Full, Fits
  <2> QED
    BY <2>1, <2>2, <2>3, <2>4
<1>8. Restores(L, b, d) = [f \in DOMAIN t |-> IF t[f].idx \in DOMAIN b THEN d[b[t[f].idx]] ELSE Lost]
  BY <1>3 DEF Restores
<1> QED
  BY <1>1, <1>6, <1>7, <1>8

\* What is restored depends on the archive and on its blocks alone.
LEMMA RestoredKeeps ==
    ASSUME Inv, NEW n \in Names, arch'[n] = arch[n], Grows(data, data')
    PROVE  Restored(n)' = Restored(n)
<1>1. PICK b : b = arch[n].blocks
  OBVIOUS
<1>2. \A i \in DOMAIN b : b[i] \in DOMAIN data
  BY <1>1 DEF Inv, IData
<1>3. PICK t : t = ByFile(ToSet(arch[n].lines))
  OBVIOUS
<1>4. [f \in DOMAIN t |-> IF t[f].idx \in DOMAIN b THEN data[b[t[f].idx]] ELSE Lost]
      = [f \in DOMAIN t |-> IF t[f].idx \in DOMAIN b THEN data'[b[t[f].idx]] ELSE Lost]
  BY <1>2 DEF Grows
<1>5. Restored(n) = [f \in DOMAIN t |-> IF t[f].idx \in DOMAIN b THEN data[b[t[f].idx]] ELSE Lost]
  BY <1>1, <1>3 DEF Restored
<1>6. Restored(n)' = [f \in DOMAIN t |-> IF t[f].idx \in DOMAIN b THEN data'[b[t[f].idx]] ELSE Lost]
  BY <1>1, <1>3 DEF Restored
<1> QED
  BY <1>4, <1>5, <1>6

\* When the same archives count and restore the same, the store is the same.
LEMMA StoredSame ==
    ASSUME \A m \in Names : Committed(m)' <=> Committed(m),
           \A m \in Names : Committed(m) => Restored(m)' = Restored(m)
    PROVE  Stored' = Stored
<1>1. {m \in Names : Committed(m)'} = {m \in Names : Committed(m)}
  OBVIOUS
<1> QED
  BY <1>1 DEF Stored

\* A step of a command that neither finishes nor closes an archive, or finishes
\* it and leaves its list open, changes no archive that counts.
LEMMA QuietStep ==
    ASSUME Inv, NEW p \in Procs, Making(p) \/ UNCHANGED arch,
           \A q \in Procs : q # p => proc'[q] = proc[q],
           proc[p].pc # "close",
           proc'[p].pc = "close" => Making(p) /\ proc'[p].name = proc[p].name,
           \A m \in Names : m # proc[p].name => arch'[m] = arch[m],
           Making(p) => "Finished" \notin arch'[proc[p].name].files \/ proc'[p].pc = "close",
           UNCHANGED deleting, Grows(data, data')
    PROVE  Stored' = Stored
<1>1. ASSUME NEW m \in Names
      PROVE  /\ Committed(m)' <=> Committed(m)
             /\ Committed(m) => Restored(m)' = Restored(m)
  <2>1. CASE Making(p) /\ m = proc[p].name
    <3>1. ~Committed(m)
      BY <2>1, NobodyWritesFinished DEF Committed
    <3>2. ~Committed(m)'
      <4>1. CASE proc'[p].pc = "close"
        <5>1. Closing(m)'
          BY <2>1, <4>1 DEF Closing, At
        <5> QED
          BY <5>1 DEF Committed
      <4>2. CASE "Finished" \notin arch'[m].files
        BY <4>2 DEF Committed
      <4> QED
        BY <2>1, <4>1, <4>2
    <3> QED
      BY <3>1, <3>2
  <2>2. CASE ~(Making(p) /\ m = proc[p].name)
    <3>1. arch'[m] = arch[m]
      BY <2>2
    <3>2. Closing(m)' <=> Closing(m)
      BY <2>2 DEF Closing, At
    <3>3. Restored(m)' = Restored(m)
      BY <3>1, RestoredKeeps
    <3> QED
      BY <3>1, <3>2, <3>3 DEF Committed
  <2> QED
    BY <2>1, <2>2
<1> QED
  BY <1>1, StoredSame

\* Steps that write no archive.
LEMMA LocalQuiet ==
    ASSUME Inv, NEW p \in Procs,
           \/ Start(p) \/ MakeRepo(p) \/ MarkRepo(p) \/ Scan(p) \/ OpenFails(p) \/ Open(p)
           \/ MakeTarget(p) \/ Verdict(p) \/ Check(p)
           \/ \E f \in Files : ReadLine(p, f)
    PROVE  Stored' = Stored /\ UNCHANGED live
<1>0. proc \in [Procs -> ProcRecs] /\ proc[p] \in ProcRecs /\ Typed
  BY DEF Inv, Typed
<1>1. UNCHANGED <<arch, data, live, deleting>> /\ proc[p].pc # "close"
  BY DEF Start, MakeRepo, MarkRepo, Scan, OpenFails, Open, MakeTarget, Verdict, ReadLine, Check, At
<1>2. \A q \in Procs : q # p => proc'[q] = proc[q]
  BY <1>0, OthersKeep DEF Command
<1>3. \A why : Fail(p, why) => proc'[p].pc = "done"
  BY <1>0 DEF Fail, End, Idle
<1>4. \A why, result : End(p, result, why) => proc'[p].pc = "done"
  BY <1>0 DEF End, Idle
<1>5. proc'[p].pc # "close"
  <2>1. CASE Start(p) \/ MakeRepo(p) \/ MarkRepo(p) \/ MakeTarget(p) \/ Verdict(p) \/ Check(p)
    BY <2>1, <1>0, <1>3, <1>4 DEF Start, MakeRepo, MarkRepo, MakeTarget, Verdict, Check, Goto,
       ProcRecs
  <2>2. CASE Scan(p)
    <3>1. ASSUME cmd[p].op = "create" PROVE proc'[p].pc \in {"check", "open"}
      <4>1. PICK n : n = IF cmd[p].name = NoName THEN p ELSE cmd[p].name
        OBVIOUS
      <4>2. PICK b : b = IF cmd[p].rebase THEN NoName ELSE Latest
        OBVIOUS
      <4>3. proc' = [proc EXCEPT ![p].name = n, ![p].base = b, ![p].hit = b \in deleting,
                                 ![p].pc = IF b = NoName THEN "check" ELSE "open"]
        BY <2>2, <3>1, <4>1, <4>2 DEF Scan
      <4> QED
        BY <1>0, <4>3 DEF ProcRecs
    <3>2. ASSUME cmd[p].op # "create" PROVE proc'[p].pc = "open"
      <4>1. PICK n : n = IF cmd[p].name = NoName THEN Latest ELSE cmd[p].name
        OBVIOUS
      <4>2. proc' = [proc EXCEPT ![p].name = n, ![p].base = n, ![p].hit = n \in deleting,
                                 ![p].pc = "open"]
        BY <2>2, <3>2, <4>1 DEF Scan
      <4> QED
        BY <1>0, <4>2 DEF ProcRecs
    <3> QED
      BY <3>1, <3>2
  <2>3. CASE OpenFails(p)
    BY <2>3, <1>3 DEF OpenFails
  <2>4. CASE Open(p)
    <3>1. PICK c : c = CASE cmd[p].op = "create"  -> "check"
                         [] cmd[p].op = "extract" -> "target"
                         [] OTHER -> "read"
      OBVIOUS
    <3>2. c # "close"
      BY <3>1
    <3>3. PICK L \in Listings(proc[p].base) :
              proc' = [proc EXCEPT
                          ![p].map  = ByFile(L),
                          ![p].todo = IF cmd[p].op = "create" THEN {} ELSE DOMAIN ByFile(L),
                          ![p].sure = "Finished" \in arch[proc[p].base].files,
                          ![p].pc   = CASE cmd[p].op = "create"  -> "check"
                                        [] cmd[p].op = "extract" -> "target"
                                        [] OTHER -> "read"]
      BY <2>4 DEF Open
    <3>4. proc'[p].pc = c
      BY <1>0, <3>1, <3>3 DEF ProcRecs
    <3> QED
      BY <3>2, <3>4
  <2>5. ASSUME NEW f \in Files, ReadLine(p, f) PROVE proc'[p].pc # "close"
    <3>1. \/ \E why : Fail(p, why)
          \/ \E i, w : proc' = [proc EXCEPT ![p].todo = @ \ {f}, ![p].used = @ \cup {i},
                                            ![p].warned = w]
      BY <2>5 DEF ReadLine
    <3>2. (\E i, w : proc' = [proc EXCEPT ![p].todo = @ \ {f}, ![p].used = @ \cup {i},
                                          ![p].warned = w]) => proc'[p].pc = proc[p].pc
      BY <1>0 DEF ProcRecs
    <3> QED
      BY <3>1, <3>2, <1>1, <1>3
  <2> QED
    BY <2>1, <2>2, <2>3, <2>4, <2>5
<1>6. Making(p) => "Finished" \notin arch'[proc[p].name].files
  <2> SUFFICES ASSUME Making(p) PROVE "Finished" \notin arch[proc[p].name].files
    BY <1>1
  <2>1. proc[p].pc \in MakingPlaces /\ MakingOk(proc[p], arch[proc[p].name])
    BY DEF Making, Inv, IMaking
  <2> QED
    BY <2>1, <1>1 DEF MakingOk, MakingPlaces
<1>7. Grows(data, data')
  BY <1>1 DEF Grows
<1> QED
  BY <1>1, <1>2, <1>5, <1>6, <1>7, QuietStep

\* Steps that write an archive that does not count yet.
LEMMA WriteQuiet ==
    ASSUME Inv, NEW p \in Procs,
           \/ MakeDir(p) \/ Mark(p) \/ OpenList(p) \/ Finish(p)
           \/ \E f \in Files : StoreFails(p, f) \/ LinkFile(p, f) \/ WriteFile(p, f)
    PROVE  Stored' = Stored /\ UNCHANGED live
<1>0. /\ proc \in [Procs -> ProcRecs] /\ proc[p] \in ProcRecs /\ Typed
      /\ arch \in [Names -> ArchRecs]
  BY DEF Inv, Typed
<1>1. UNCHANGED <<live, deleting>> /\ proc[p].pc \in {"mkdir", "mark", "list", "store"}
  BY DEF MakeDir, Mark, OpenList, StoreFails, LinkFile, WriteFile, Finish, At
<1>2. /\ Making(p) /\ proc[p].name \in Names /\ MakingOk(proc[p], Own(p))
      /\ Own(p) \in ArchRecs /\ Own(p) = arch[proc[p].name]
  BY <1>1, MakingFacts DEF MakingPlaces, Own
<1>3. "Finished" \notin Own(p).files
  BY <1>1, <1>2 DEF MakingOk
<1>4. \A q \in Procs : q # p => proc'[q] = proc[q]
  BY <1>0, OthersKeep DEF Command
<1>5. Grows(data, data')
  <2>1. ASSUME NEW f \in Files, WriteFile(p, f) PROVE Grows(data, data')
    BY <2>1, WriteFileKeeps
  <2>2. CASE ~\E f \in Files : WriteFile(p, f)
    <3>1. data' = data
      BY <2>2 DEF MakeDir, Mark, OpenList, StoreFails, LinkFile, Finish
    <3> QED
      BY <3>1 DEF Grows
  <2> QED
    BY <2>1, <2>2
<1>6. \A c : Goto(p, c) => proc'[p].pc = c /\ proc'[p].name = proc[p].name
  BY <1>0 DEF Goto, ProcRecs
<1>7. \A why : Fail(p, why) => proc'[p].pc = "done"
  BY <1>0 DEF Fail, End, Idle
<1>8. \A a : WithOwn(p, a) => /\ \A m \in Names : m # proc[p].name => arch'[m] = arch[m]
                              /\ arch'[proc[p].name] = a
  BY <1>0, <1>2 DEF WithOwn
<1>9. CASE MakeDir(p) \/ Mark(p)
  <2>1. \E c \in {"mark", "list"} : Goto(p, c)
    BY <1>9 DEF MakeDir, Mark
  <2>2. \/ WithOwn(p, [Own(p) EXCEPT !.dir = TRUE])
        \/ WithOwn(p, [Own(p) EXCEPT !.files = Own(p).files \cup {"ID"}])
    BY <1>2, <1>9 DEF MakeDir, Mark, ArchRecs
  <2>3. "Finished" \notin arch'[proc[p].name].files
    BY <2>2, <1>2, <1>3, <1>8 DEF ArchRecs
  <2>4. proc'[p].pc # "close" /\ proc[p].pc # "close"
    BY <2>1, <1>1, <1>6
  <2>5. \A m \in Names : m # proc[p].name => arch'[m] = arch[m]
    BY <2>2, <1>8
  <2> QED
    BY <2>3, <2>4, <2>5, <1>1, <1>2, <1>4, <1>5, QuietStep
<1>10. CASE Finish(p)
  <2>1. Goto(p, "close") /\ \E a : WithOwn(p, a)
    BY <1>10 DEF Finish
  <2>2. proc'[p].pc = "close" /\ proc'[p].name = proc[p].name /\ proc[p].pc # "close"
    BY <2>1, <1>1, <1>6
  <2>3. \A m \in Names : m # proc[p].name => arch'[m] = arch[m]
    BY <2>1, <1>8
  <2> QED
    BY <2>2, <2>3, <1>1, <1>2, <1>4, <1>5, QuietStep
<1>11. CASE OpenList(p)
  <2>1. \/ Fail(p, "base") /\ UNCHANGED arch
        \/ /\ WithOwn(p, [Own(p) EXCEPT !.files = Own(p).files \cup {"List"},
                                        !.lines = <<>>, !.cut = <<>>])
           /\ proc' = [proc EXCEPT ![p].alloc = DOMAIN Base(p).blocks,
                                   ![p].todo  = DOMAIN live,
                                   ![p].pc    = "store"]
    BY <1>2, <1>11 DEF OpenList, ArchRecs
  <2>2. proc'[p].pc # "close" /\ proc[p].pc # "close"
    BY <2>1, <1>0, <1>1, <1>7 DEF ProcRecs
  <2>3. \A m \in Names : m # proc[p].name => arch'[m] = arch[m]
    BY <2>1, <1>8
  <2>4. "Finished" \notin arch'[proc[p].name].files
    <3>1. PICK a : a = [Own(p) EXCEPT !.files = Own(p).files \cup {"List"},
                                      !.lines = <<>>, !.cut = <<>>]
      OBVIOUS
    <3>2. a.files = Own(p).files \cup {"List"}
      BY <1>2, <3>1 DEF ArchRecs
    <3>3. UNCHANGED arch \/ WithOwn(p, a)
      BY <2>1, <3>1
    <3>4. arch'[proc[p].name] = Own(p) \/ arch'[proc[p].name] = a
      BY <3>3, <1>2, <1>8
    <3> QED
      BY <3>2, <3>4, <1>3
  <2> QED
    BY <2>2, <2>3, <2>4, <1>1, <1>2, <1>4, <1>5, QuietStep
<1>12. ASSUME NEW f \in Files, StoreFails(p, f)
       PROVE  Stored' = Stored
  <2>1. Fail(p, "base") /\ LeaveList(p) /\ proc[p].pc = "store"
    BY <1>12 DEF StoreFails, At
  <2>2. proc'[p].pc # "close" /\ proc[p].pc # "close"
    BY <2>1, <1>7
  <2>3. PICK d : WithOwn(p, [Own(p) EXCEPT !.lines = d.lines, !.cut = d.cut])
    BY <2>1 DEF LeaveList, Writers
  <2>4. \A m \in Names : m # proc[p].name => arch'[m] = arch[m]
    BY <2>3, <1>8
  <2>5. "Finished" \notin arch'[proc[p].name].files
    <3>1. [Own(p) EXCEPT !.lines = d.lines, !.cut = d.cut].files = Own(p).files
      BY <1>2 DEF ArchRecs
    <3> QED
      BY <2>3, <3>1, <1>3, <1>8
  <2> QED
    BY <2>2, <2>4, <2>5, <1>1, <1>2, <1>4, <1>5, QuietStep
<1>13. ASSUME NEW f \in Files, LinkFile(p, f) \/ WriteFile(p, f)
       PROVE  Stored' = Stored
  <2>1. \E i, b, al : Push(p, f, i, b, al)
    BY <1>13 DEF LinkFile, WriteFile
  <2>2. PICK i, b, al : Push(p, f, i, b, al)
    BY <2>1
  <2>3. proc'[p].pc = proc[p].pc /\ proc[p].pc # "close"
    BY <2>2, <1>0, <1>1 DEF Push, ProcRecs
  <2>4. WithOwn(p, [Own(p) EXCEPT !.blocks = b])
    BY <2>2 DEF Push
  <2>5. \A m \in Names : m # proc[p].name => arch'[m] = arch[m]
    BY <2>4, <1>8
  <2>6. "Finished" \notin arch'[proc[p].name].files
    <3>1. [Own(p) EXCEPT !.blocks = b].files = Own(p).files
      BY <1>2 DEF ArchRecs
    <3> QED
      BY <2>4, <3>1, <1>3, <1>8
  <2> QED
    BY <2>3, <2>5, <2>6, <1>1, <1>2, <1>4, <1>5, QuietStep
<1> QED
  BY <1>1, <1>9, <1>10, <1>11, <1>12, <1>13

\* A kill leaves the archives that count as they are.
LEMMA KillQuiet ==
    ASSUME Inv, NEW p \in Procs, ~Exposed, Kill(p)
    PROVE  Stored' = Stored /\ UNCHANGED live
<1>0. /\ proc \in [Procs -> ProcRecs] /\ proc[p] \in ProcRecs /\ Typed
      /\ arch \in [Names -> ArchRecs]
  BY DEF Inv, Typed
<1>1. /\ UNCHANGED <<data, live, deleting>> /\ proc[p].pc # "close"
      /\ End(p, "killed", "none") /\ LeaveList(p)
  BY DEF Kill, At
<1>2. proc'[p].pc # "close"
  BY <1>0, <1>1 DEF End, Idle
<1>3. \A q \in Procs : q # p => proc'[q] = proc[q]
  BY <1>0, OthersKeep
<1>4. Grows(data, data')
  BY <1>1 DEF Grows
<1>5. Making(p) => "Finished" \notin Own(p).files /\ proc[p].name \in Names /\ Own(p) \in ArchRecs
  <2> SUFFICES ASSUME Making(p)
               PROVE  /\ "Finished" \notin Own(p).files
                      /\ proc[p].name \in Names /\ Own(p) \in ArchRecs
    OBVIOUS
  <2>1. proc[p].pc \in MakingPlaces
    BY DEF Making
  <2>2. MakingOk(proc[p], Own(p)) /\ proc[p].name \in Names /\ Own(p) \in ArchRecs
    BY <2>1, MakingFacts
  <2> QED
    BY <2>1, <2>2, <1>1 DEF MakingOk, MakingPlaces
<1>6. CASE proc[p].pc = "store"
  <2>1. Making(p)
    BY <1>6, MakingFacts DEF MakingPlaces
  <2>2. PICK d : WithOwn(p, [Own(p) EXCEPT !.lines = d.lines, !.cut = d.cut])
    BY <1>1, <1>6 DEF LeaveList, Writers
  <2>3. [Own(p) EXCEPT !.lines = d.lines, !.cut = d.cut].files = Own(p).files
    BY <1>5, <2>1 DEF ArchRecs
  <2>4. \A m \in Names : m # proc[p].name => arch'[m] = arch[m]
    BY <2>2, <1>0 DEF WithOwn
  <2>5. "Finished" \notin arch'[proc[p].name].files
    BY <2>1, <2>2, <2>3, <1>0, <1>5 DEF WithOwn
  <2> QED
    BY <2>1, <2>4, <2>5, <1>1, <1>2, <1>3, <1>4, QuietStep
<1>7. CASE proc[p].pc # "store"
  <2>1. UNCHANGED arch
    BY <1>1, <1>7 DEF LeaveList, Writers
  <2>2. Making(p) => "Finished" \notin arch'[proc[p].name].files
    BY <2>1, <1>5 DEF Own
  <2> QED
    BY <2>1, <2>2, <1>1, <1>2, <1>3, <1>4, QuietStep
<1> QED
  BY <1>6, <1>7

\* The archive that is closed restores the files as they are.
LEMMA CloseCommits ==
    ASSUME Inv, NEW p \in Procs, Close(p)
    PROVE  /\ proc[p].name \in Names /\ UNCHANGED live
           /\ ~Committed(proc[p].name)
           /\ \A n : n = proc[p].name => Committed(n)' /\ Restored(n)' = live
           /\ \A m \in Names : m # proc[p].name =>
                 /\ Committed(m)' <=> Committed(m)
                 /\ Restored(m)' = Restored(m)
<1> DEFINE n == proc[p].name
<1>0. /\ proc[p].pc = "close" /\ proc[p].pc \in MakingPlaces /\ End(p, "ok", "none")
      /\ UNCHANGED <<data, live, deleting>>
      /\ proc \in [Procs -> ProcRecs] /\ arch \in [Names -> ArchRecs]
      /\ live \in Partial(Files, Versions)
  BY DEF Close, At, MakingPlaces, Inv, Typed
<1>1. /\ Making(p) /\ Own(p) \in ArchRecs /\ Own(p).files = AllFiles
      /\ n \in Names /\ n \notin deleting /\ cmd[p].op = "create" /\ proc[p].pc \in Past
  BY <1>0, MakingFacts DEF MakingOk
<1>2. SentOk(proc[p], Own(p), data, live) /\ proc[p].todo = {}
  BY CloseKeeps
<1>3. PICK a : a = [Own(p) EXCEPT !.lines = proc[p].sent, !.cut = <<>>]
  OBVIOUS
<1>4. a.files = AllFiles /\ a.lines = proc[p].sent /\ a.blocks = Own(p).blocks
  BY <1>1, <1>3 DEF ArchRecs
<1>5. arch'[n] = a /\ \A m \in Names : m # n => arch'[m] = arch[m]
  BY <1>0, <1>1, <1>3 DEF Close, WithOwn
<1>6. proc'[p].pc = "done" /\ \A q \in Procs : q # p => proc'[q] = proc[q]
  BY <1>0 DEF End, Idle
<1>7. Closing(n)
  BY <1>0 DEF Closing, At
<1>8. \A q \in Procs : q # p => ~(proc[q].pc = "close" /\ proc[q].name = n)
  <2> SUFFICES ASSUME NEW q \in Procs, q # p, proc[q].pc = "close" PROVE proc[q].name # n
    OBVIOUS
  <2>1. cmd[q].op = "create" /\ proc[q].pc \in Past
    BY DEF Inv, IPlace, PlaceOk, Past
  <2> QED
    BY <2>1, <1>1, OwnNames
<1>9. \A m : m = n => ~Closing(m)'
  BY <1>6, <1>8 DEF Closing, At
<1>10. \A m : m = n => Committed(m)'
  <2> SUFFICES ASSUME NEW m, m = n PROVE Committed(m)'
    OBVIOUS
  <2>1. "Finished" \in arch'[m].files /\ m \notin deleting'
    BY <1>0, <1>1, <1>4, <1>5 DEF AllFiles
  <2> QED
    BY <2>1, <1>9 DEF Committed
<1>11. \A m : m = n => Restored(m)' = live
  <2> SUFFICES ASSUME NEW m, m = n PROVE Restored(m)' = live
    OBVIOUS
  <2>1. Restores(ToSet(proc[p].sent), Own(p).blocks, data) = live
    BY <1>0, <1>2, RestoresNow DEF SentOk
  <2>2. arch'[m].lines = proc[p].sent /\ arch'[m].blocks = Own(p).blocks /\ data' = data
    BY <1>0, <1>4, <1>5
  <2>3. Restored(m)' = Restores(ToSet(arch'[m].lines), arch'[m].blocks, data')
    BY DEF Restored, Restores
  <2> QED
    BY <2>1, <2>2, <2>3
<1>12. Grows(data, data')
  BY <1>0 DEF Grows
<1>13. ASSUME NEW m \in Names, m # n
       PROVE  (Committed(m)' <=> Committed(m)) /\ Restored(m)' = Restored(m)
  <2>1. Closing(m)' <=> Closing(m)
    BY <1>6, <1>13 DEF Closing, At
  <2>2. arch'[m] = arch[m]
    BY <1>5, <1>13
  <2> QED
    BY <2>1, <2>2, <1>0, <1>12, RestoredKeeps DEF Committed
<1>14. ~Committed(n)
  BY <1>7 DEF Committed
<1> QED
  BY <1>0, <1>1, <1>10, <1>11, <1>13, <1>14

\* Deleting starts: an archive that counted no longer does, the others stay.
LEMMA DeleteStore ==
    ASSUME Inv, NEW n \in Names, Delete(n)
    PROVE  /\ UNCHANGED live
           /\ \A m \in Names : Committed(m)' <=> Committed(m) /\ m # n
           /\ \A m \in Names : Restored(m)' = Restored(m)
<1>0. /\ UNCHANGED <<arch, data, live>> /\ deleting' = deleting \cup {n}
      /\ proc \in [Procs -> ProcRecs]
      /\ proc' = [q \in Procs |-> IF Running(q) /\ proc[q].base = n
                                  THEN [proc[q] EXCEPT !.hit = TRUE] ELSE proc[q]]
  BY DEF Delete, Inv, Typed
<1>1. ASSUME NEW q \in Procs
      PROVE  proc'[q].pc = proc[q].pc /\ proc'[q].name = proc[q].name
  BY <1>0 DEF ProcRecs
<1>2. \A m \in Names : Closing(m)' <=> Closing(m)
  BY <1>1 DEF Closing, At
<1>3. \A m \in Names : Committed(m)' <=> Committed(m) /\ m # n
  BY <1>0, <1>2 DEF Committed
<1>4. Grows(data, data')
  BY <1>0 DEF Grows
<1>5. \A m \in Names : Restored(m)' = Restored(m)
  BY <1>0, <1>4, RestoredKeeps
<1> QED
  BY <1>0, <1>3, <1>5

\* What rm goes on with has not counted since the deletion started, and does not
\* when it is gone.
LEMMA UnlinkQuiet ==
    ASSUME Inv, NEW n \in Names, Unlink(n)
    PROVE  Stored' = Stored /\ UNCHANGED live
<1>0. UNCHANGED <<proc, data, live>> /\ arch \in [Names -> ArchRecs]
  BY DEF Unlink, Inv, Typed
<1>1. PICK a \in ArchRecs :
          /\ n \in deleting /\ arch' = [arch EXCEPT ![n] = a]
          /\ deleting' = deleting \/ (a = NoArch /\ deleting' = deleting \ {n})
  BY UnlinkFacts
<1>2. Grows(data, data')
  BY <1>0 DEF Grows
<1>3. ~Committed(n)
  BY <1>1 DEF Committed
<1>4. \A m : m = n => ~Committed(m)'
  BY <1>0, <1>1 DEF Committed, NoArch
<1>5. ASSUME NEW m \in Names, m # n
      PROVE  (Committed(m)' <=> Committed(m)) /\ Restored(m)' = Restored(m)
  <2>1. arch'[m] = arch[m] /\ (m \in deleting' <=> m \in deleting)
    BY <1>0, <1>1, <1>5
  <2>2. Closing(m)' <=> Closing(m)
    BY <1>0 DEF Closing, At
  <2> QED
    BY <2>1, <2>2, <1>2, RestoredKeeps DEF Committed
<1>6. ASSUME NEW m \in Names
      PROVE  /\ Committed(m)' <=> Committed(m)
             /\ Committed(m) => Restored(m)' = Restored(m)
  BY <1>3, <1>4, <1>5
<1> QED
  BY <1>0, <1>6, StoredSame

\* The archives and what they hold are as they were.
LEMMA StillStored ==
    ASSUME Inv, UNCHANGED <<proc, arch, data, deleting>>
    PROVE  Stored' = Stored
<1>1. Grows(data, data')
  BY DEF Grows
<1>2. \A m \in Names : Restored(m)' = Restored(m)
  BY <1>1, RestoredKeeps
<1>3. \A m \in Names : Committed(m)' <=> Committed(m)
  BY DEF Committed, Closing, At
<1> QED
  BY <1>2, <1>3, StoredSame

\* The contents that the store has are those that Typed gives the files.
LEMMA ContentsDef == Store!Contents = Partial(Files, Versions)
  BY DEF Store!Contents, Partial

\* In the beginning there are files and no archive.
LEMMA StoreInit ==
    ASSUME Init
    PROVE  Store!Init
<1>1. live \in Partial(Files, Versions)
  BY InitKeeps DEF Inv, Typed
<1>2. {m \in Names : Committed(m)} = {}
  BY DEF Init, Committed, NoArch
<1>3. [n \in {m \in Names : Committed(m)} |-> Restored(n)] = <<>>
  BY <1>2, NoKeys
<1> QED
  BY <1>1, <1>3, ContentsDef DEF Store!Init

\* Closing a list commits its archive.
LEMMA CloseStore ==
    ASSUME Inv, NEW p \in Procs, Close(p)
    PROVE  Store!Commit(proc[p].name)
<1>1. PICK n \in Names : n = proc[p].name
  BY CloseCommits
<1>2. /\ UNCHANGED live /\ ~Committed(n) /\ Committed(n)' /\ Restored(n)' = live
      /\ \A m \in Names : m # n => /\ Committed(m)' <=> Committed(m)
                                   /\ Restored(m)' = Restored(m)
  BY <1>1, CloseCommits
<1>3. {m \in Names : Committed(m)'} = {m \in Names : Committed(m)} \cup {n}
  BY <1>2
<1>4. Stored' = [m \in {k \in Names : Committed(k)} \cup {n} |->
                     IF m = n THEN live ELSE Stored[m]]
  BY <1>2, <1>3 DEF Stored
<1>5. DOMAIN Stored = {m \in Names : Committed(m)}
  BY DEF Stored
<1>6. n \notin DOMAIN Stored
  BY <1>2, <1>5
<1>7. Stored' = [m \in DOMAIN Stored \cup {n} |-> IF m = n THEN live ELSE Stored[m]]
  BY <1>4, <1>5
<1> QED
  BY <1>1, <1>2, <1>6, <1>7 DEF Store!Commit, Stored

\* The deletion of an archive that counts takes it from the store.
LEMMA DeleteStores ==
    ASSUME Inv, NEW n \in Names, Delete(n)
    PROVE  Store!Delete(n) \/ (Stored' = Stored /\ UNCHANGED live)
<1>1. UNCHANGED live
  BY DeleteStore
<1>2. {m \in Names : Committed(m)'} = {m \in Names : Committed(m)} \ {n}
  BY DeleteStore
<1>3. \A m \in Names : Restored(m)' = Restored(m)
  BY DeleteStore
<1>4. DOMAIN Stored = {m \in Names : Committed(m)}
  BY DEF Stored
<1>5. Stored' = [m \in {k \in Names : Committed(k)} \ {n} |-> Stored[m]]
  BY <1>2, <1>3 DEF Stored
<1>6. CASE n \in DOMAIN Stored
  <2>1. Stored' = [m \in DOMAIN Stored \ {n} |-> Stored[m]]
    BY <1>4, <1>5
  <2> QED
    BY <1>1, <1>6, <2>1 DEF Store!Delete, Stored
<1>7. CASE n \notin DOMAIN Stored
  <2>1. {k \in Names : Committed(k)} \ {n} = {k \in Names : Committed(k)}
    BY <1>4, <1>7
  <2>2. Stored' = Stored
    BY <1>5, <2>1 DEF Stored
  <2> QED
    BY <1>1, <2>2
<1> QED
  BY <1>6, <1>7

\* Each step commits an archive, deletes one, changes files or leaves the store.
LEMMA StoreStep ==
    ASSUME Inv, [Next]_vars, ~Exposed
    PROVE  Store!Next \/ (Stored' = Stored /\ UNCHANGED live)
<1>1. ASSUME NEW p \in Procs, Command(p)
      PROVE  Store!Next \/ (Stored' = Stored /\ UNCHANGED live)
  <2>1. CASE \/ Start(p) \/ MakeRepo(p) \/ MarkRepo(p) \/ Scan(p) \/ OpenFails(p) \/ Open(p)
             \/ MakeTarget(p) \/ Verdict(p) \/ Check(p)
             \/ \E f \in Files : ReadLine(p, f)
    BY <2>1, LocalQuiet
  <2>2. CASE \/ MakeDir(p) \/ Mark(p) \/ OpenList(p) \/ Finish(p)
             \/ \E f \in Files : StoreFails(p, f) \/ LinkFile(p, f) \/ WriteFile(p, f)
    BY <2>2, WriteQuiet
  <2>3. CASE Close(p)
    <3>1. proc[p].name \in Names
      BY <2>3, CloseCommits
    <3>2. Store!Commit(proc[p].name)
      BY <2>3, CloseStore
    <3> QED
      BY <3>1, <3>2 DEF Store!Next
  <2> QED
    BY <1>1, <2>1, <2>2, <2>3 DEF Command
<1>2. ASSUME Environment
      PROVE  Store!Next \/ (Stored' = Stored /\ UNCHANGED live)
  <2>1. ASSUME NEW p \in Procs, Kill(p) PROVE Stored' = Stored /\ UNCHANGED live
    BY <2>1, KillQuiet
  <2>2. ASSUME NEW n \in Names, Delete(n)
        PROVE  Store!Next \/ (Stored' = Stored /\ UNCHANGED live)
    BY <2>2, DeleteStores DEF Store!Next
  <2>3. ASSUME NEW n \in Names, Unlink(n) PROVE Stored' = Stored /\ UNCHANGED live
    BY <2>3, UnlinkQuiet
  <2>4. ASSUME NEW f \in Files, Change(f) PROVE Store!Next
    <3>1. live' \in Store!Contents
      BY <2>4, ChangeKeeps, ContentsDef
    <3>2. UNCHANGED <<proc, arch, data, deleting>>
      BY <2>4 DEF Change
    <3>3. Stored' = Stored
      BY <3>2, StillStored
    <3> QED
      BY <3>1, <3>3 DEF Store!Next, Store!Change, Stored
  <2>5. ASSUME NEW b \in Procs \X Files, Damage(b) PROVE Stored' = Stored /\ UNCHANGED live
    <3>1. UNCHANGED <<proc, arch, data, deleting, live>>
      BY <2>5 DEF Damage
    <3> QED
      BY <3>1, StillStored
  <2> QED
    BY <1>2, <2>1, <2>2, <2>3, <2>4, <2>5 DEF Environment
<1>3. ASSUME UNCHANGED vars PROVE Stored' = Stored /\ UNCHANGED live
  <2>1. UNCHANGED <<proc, arch, data, deleting, live>>
    BY <1>3 DEF vars
  <2> QED
    BY <2>1, StillStored
<1> QED
  BY <1>1, <1>2, <1>3 DEF Next

\* The commands implement the store of snapshots: an archive appears at once and
\* holds the files as they are, and neither a kill, nor another command, nor the
\* deletion of an archive it shares blocks with changes it.
THEOREM ImplementsStoreTheorem ==
    ASSUME ~Exposed
    PROVE  Spec => ImplementsStore
<1>1. Init => Store!Init
  BY StoreInit
<1>2. Inv /\ [Next]_vars => [Store!Next]_<<live, Stored>>
  BY StoreStep
<1>3. Spec => []Inv
  BY InvTheorem
<1>4. Inv /\ [Next]_vars =>
          [Store!Next]_<<live, [n \in {m \in Names : Committed(m)} |-> Restored(n)]>>
  BY <1>2 DEF Stored
<1> QED
  BY <1>1, <1>3, <1>4, PTL DEF Spec, ImplementsStore, Store!Spec

\* Of the steps of a backup only the close of its list ends it with success.
LEMMA OnlyCloseSucceeds ==
    ASSUME Inv, NEW p \in Procs, Command(p), cmd[p].op = "create", Running(p), ~Close(p)
    PROVE  proc'[p].result # "ok"
<1>0. /\ proc \in [Procs -> ProcRecs] /\ proc[p] \in ProcRecs
      /\ proc[p].result = "none" /\ proc[p].pc \notin {"idle", "mkrepo", "mkid", "read", "target"}
  BY DEF Inv, Typed, IKnown, KnownOk, IPlace, PlaceOk, Readers, Running
<1>1. \A c : Goto(p, c) => proc'[p].result = "none"
  BY <1>0 DEF Goto, ProcRecs
<1>2. \A why : Fail(p, why) => proc'[p].result = "error"
  BY <1>0 DEF Fail, End, Idle
<1>3. CASE Scan(p)
  BY <1>3, <1>0 DEF Scan, ProcRecs
<1>4. CASE OpenFails(p)
  BY <1>4, <1>2 DEF OpenFails
<1>5. CASE Open(p)
  <2>1. PICK L \in Listings(proc[p].base) :
            proc' = [proc EXCEPT
                        ![p].map  = ByFile(L),
                        ![p].todo = IF cmd[p].op = "create" THEN {} ELSE DOMAIN ByFile(L),
                        ![p].sure = "Finished" \in arch[proc[p].base].files,
                        ![p].pc   = CASE cmd[p].op = "create"  -> "check"
                                      [] cmd[p].op = "extract" -> "target"
                                      [] OTHER -> "read"]
    BY <1>5 DEF Open
  <2>2. proc'[p].result = proc[p].result
    BY <2>1, <1>0 DEF ProcRecs
  <2> QED
    BY <2>2, <1>0
<1>6. CASE Check(p) \/ MakeDir(p) \/ Mark(p) \/ Finish(p)
  BY <1>6, <1>1, <1>2 DEF Check, MakeDir, Mark, Finish
<1>7. CASE OpenList(p)
  BY <1>7, <1>0, <1>2 DEF OpenList, ProcRecs
<1>8. ASSUME NEW f \in Files, StoreFails(p, f) PROVE proc'[p].result # "ok"
  BY <1>8, <1>2 DEF StoreFails
<1>9. ASSUME NEW f \in Files, LinkFile(p, f) \/ WriteFile(p, f)
      PROVE  proc'[p].result # "ok"
  <2>1. PICK i, b, al : Push(p, f, i, b, al)
    BY <1>9 DEF LinkFile, WriteFile
  <2> QED
    BY <2>1, <1>0 DEF Push, ProcRecs
<1>10. /\ ~Start(p) /\ ~MakeRepo(p) /\ ~MarkRepo(p) /\ ~MakeTarget(p) /\ ~Verdict(p)
       /\ \A f \in Files : ~ReadLine(p, f)
  BY <1>0 DEF Start, MakeRepo, MarkRepo, MakeTarget, Verdict, ReadLine, At
<1> QED
  BY <1>3, <1>4, <1>5, <1>6, <1>7, <1>8, <1>9, <1>10 DEF Command

LEMMA WholeLemma ==
    ASSUME Inv, [Next]_vars, NEW p \in Procs, NEW n \in Names, cmd[p].op = "create",
           Running(p), proc[p].name = n, proc'[p].result = "ok"
    PROVE  Restored(n)' = live
<1>0. Typed /\ proc \in [Procs -> ProcRecs] /\ proc[p].result = "none"
  BY DEF Inv, Typed, IKnown, KnownOk, Running
<1>1. ASSUME NEW q \in Procs, Command(q) PROVE Restored(n)' = live
  <2>1. q = p
    BY <1>0, <1>1, OthersKeep
  <2>2. Close(p)
    BY <1>1, <2>1, OnlyCloseSucceeds
  <2> QED
    BY <2>2, CloseCommits
<1>2. ASSUME NEW q \in Procs, Kill(q) PROVE FALSE
  <2>1. End(q, "killed", "none")
    BY <1>2 DEF Kill
  <2>2. proc'[q].result = "killed" /\ (p # q => proc'[p] = proc[p])
    BY <2>1, <1>0 DEF End, Idle
  <2> QED
    BY <2>2, <1>0
<1>3. ASSUME NEW m \in Names, Delete(m) PROVE FALSE
  <2>1. proc' = [q \in Procs |-> IF Running(q) /\ proc[q].base = m
                                 THEN [proc[q] EXCEPT !.hit = TRUE] ELSE proc[q]]
    BY <1>3 DEF Delete
  <2>2. proc'[p].result = proc[p].result
    BY <2>1, <1>0 DEF ProcRecs
  <2> QED
    BY <2>2, <1>0
<1>4. CASE UNCHANGED proc
  BY <1>0, <1>4
<1>5. ASSUME NEW m \in Names, Unlink(m) PROVE UNCHANGED proc
  BY <1>5 DEF Unlink
<1>6. ASSUME NEW f \in Files, Change(f) PROVE UNCHANGED proc
  BY <1>6 DEF Change
<1>7. ASSUME NEW b \in Procs \X Files, Damage(b) PROVE UNCHANGED proc
  BY <1>7 DEF Damage
<1>8. UNCHANGED vars => UNCHANGED proc
  BY DEF vars
<1> QED
  BY <1>1, <1>2, <1>3, <1>4, <1>5, <1>6, <1>7, <1>8 DEF Next, Environment

\* A backup that exits with 0 has made an archive that restores each file as it was.
THEOREM SuccessMeansWholeTheorem ==
    ASSUME ~Exposed
    PROVE  Spec => SuccessMeansWhole
<1>1. Inv /\ [Next]_vars =>
          [\A p \in Procs, n \in Names :
              /\ cmd[p].op = "create" /\ Running(p) /\ proc[p].name = n
              /\ proc'[p].result = "ok"
              => (Restored(n))' = live]_vars
  BY WholeLemma
<1>2. Spec => []Inv
  BY InvTheorem
<1> QED
  BY <1>1, <1>2, PTL DEF Spec, SuccessMeansWhole
=============================================================================
