----------------------------- MODULE HarnessProofs -----------------------------
(***************************************************************************)
(* Proofs about TestHarness for any tests, policies, commands, disks and   *)
(* number of faults: when results count as the same, what a successful Run *)
(* means, what a replaced expected output holds, and that nothing touches  *)
(* the output of a judged test.                                            *)
(***************************************************************************)
EXTENDS TestHarness, SequenceLemmas

-----------------------------------------------------------------------------
(* The comparison of results.                                              *)

\* A request that is not among the others is always a reason.
LEMMA MissingHasReason ==
    ASSUME NEW req, NEW dest, req \notin dest
    PROVE  ReasonsFor(req, dest) # {}
BY DEF ReasonsFor

\* Although requests that are missing on the left may go unmentioned, the
\* comparison of a cluster type finds no reason exactly when both sides hold
\* the same requests, events aside.
THEOREM NoReasonsMeansEqual ==
    ASSUME NEW lhs, NEW rhs
    PROVE  ClusterReasons(lhs, rhs) = {} <=> RemoveEvents(lhs) = RemoveEvents(rhs)
<1> DEFINE left == RemoveEvents(lhs)
           right == RemoveEvents(rhs)
           missed == {r \in right \ left :
                         \A l \in left \ right : ExpandedMetadata(l) # ExpandedMetadata(r)}
           fromLeft  == UNION {ReasonsFor(l, right) : l \in left \ right}
           fromRight == UNION {ReasonsFor(r, left) : r \in missed}
<1> HIDE DEF left, right, missed
<1>1. ClusterReasons(lhs, rhs) = fromLeft \cup fromRight
  BY DEF ClusterReasons, left, right, missed
<1>2. ASSUME left = right PROVE ClusterReasons(lhs, rhs) = {}
  BY <1>1, <1>2 DEF missed
<1>3. ASSUME NEW l \in left \ right PROVE ClusterReasons(lhs, rhs) # {}
  <2>1. ReasonsFor(l, right) # {} /\ ReasonsFor(l, right) \subseteq fromLeft
    BY MissingHasReason
  <2> HIDE DEF fromLeft, fromRight
  <2>2. QED
    BY <1>1, <2>1
<1>4. ASSUME left \ right = {}, NEW r \in right \ left PROVE ClusterReasons(lhs, rhs) # {}
  <2>1. r \in missed
    BY <1>4 DEF missed
  <2>2. ReasonsFor(r, left) # {} /\ ReasonsFor(r, left) \subseteq fromRight
    BY <2>1, MissingHasReason
  <2> HIDE DEF fromLeft, fromRight
  <2>3. QED
    BY <1>1, <2>2
<1>5. QED
  BY <1>2, <1>3, <1>4 DEF left, right

\* Two results are found equivalent exactly when they agree on the error, on
\* the controllers' results and, cluster type by cluster type, on the requests
\* that are no events.
THEOREM EquivalentMeansEqual ==
    ASSUME NEW lhs, NEW rhs
    PROVE  ResultReasons(lhs, rhs) = {}
             <=> /\ lhs.err = rhs.err
                 /\ lhs.controllerResults = rhs.controllerResults
                 /\ \A ct \in ClusterType :
                       RemoveEvents(lhs.mutations[ct]) = RemoveEvents(rhs.mutations[ct])
<1> DEFINE Fields == {[field |-> field] : field \in {f \in {"err", "controllerResults"} : lhs[f] # rhs[f]}}
           Of(ct) == {[field |-> ct, reason |-> reason] :
                         reason \in ClusterReasons(lhs.mutations[ct], rhs.mutations[ct])}
<1>1. ResultReasons(lhs, rhs) = Fields \cup UNION {Of(ct) : ct \in ClusterType}
  BY DEF ResultReasons
<1>2. Fields = {} <=> lhs.err = rhs.err /\ lhs.controllerResults = rhs.controllerResults
  OBVIOUS
<1>3. ASSUME NEW ct PROVE Of(ct) = {} <=> RemoveEvents(lhs.mutations[ct]) = RemoveEvents(rhs.mutations[ct])
  <2>1. Of(ct) = {} <=> ClusterReasons(lhs.mutations[ct], rhs.mutations[ct]) = {}
    OBVIOUS
  <2>2. QED
    BY <2>1, NoReasonsMeansEqual
<1> HIDE DEF Fields, Of
<1>4. UNION {Of(ct) : ct \in ClusterType} = {} <=> \A ct \in ClusterType : Of(ct) = {}
  OBVIOUS
<1>5. QED
  BY <1>1, <1>2, <1>3, <1>4

-----------------------------------------------------------------------------
(* Paths.                                                                  *)

\* A prefix agrees with what it is a prefix of, place by place.
LEMMA PrefixIs ==
    ASSUME NEW S, NEW s \in Seq(S), NEW t \in Seq(S)
    PROVE  IsPrefix(s, t) <=> Len(s) <= Len(t) /\ \A i \in 1..Len(s) : s[i] = t[i]
<1>1. Len(s) \in Nat /\ Len(t) \in Nat
  OBVIOUS
<1>2. CASE ~(Len(s) <= Len(t))
  BY <1>2 DEF IsPrefix
<1>3. CASE Len(s) <= Len(t)
  <2> DEFINE u == SubSeq(s, 1, Len(s))
             v == SubSeq(t, 1, Len(s))
  <2>1. (\A i \in 1..Len(s) : s[i] \in S) /\ (\A i \in 1..Len(s) : t[i] \in S)
    BY <1>1, <1>3
  <2>2. u \in Seq(S) /\ Len(u) = Len(s) /\ \A i \in 1..Len(s) : u[i] = s[i]
    <3>1. /\ u \in Seq(S) /\ Len(u) = IF 1 <= Len(s) THEN Len(s) - 1 + 1 ELSE 0
          /\ \A i \in 1..(Len(s) - 1 + 1) : u[i] = s[1 + i - 1]
      BY <1>1, <2>1, SubSeqProperties
    <3> HIDE DEF u
    <3>2. QED
      BY <1>1, <3>1
  <2>3. v \in Seq(S) /\ Len(v) = Len(s) /\ \A i \in 1..Len(s) : v[i] = t[i]
    <3>1. /\ v \in Seq(S) /\ Len(v) = IF 1 <= Len(s) THEN Len(s) - 1 + 1 ELSE 0
          /\ \A i \in 1..(Len(s) - 1 + 1) : v[i] = t[1 + i - 1]
      BY <1>1, <2>1, SubSeqProperties
    <3> HIDE DEF v
    <3>2. QED
      BY <1>1, <3>1
  <2>4. IsPrefix(s, t) <=> u = v
    BY <1>3 DEF IsPrefix
  <2> HIDE DEF u, v
  <2>5. u = v <=> \A i \in 1..Len(s) : u[i] = v[i]
    BY <2>2, <2>3, SeqEqual
  <2>6. QED
    BY <1>3, <2>2, <2>3, <2>4, <2>5
<1>4. QED
  BY <1>2, <1>3

\* A path is below itself, and what is below is so transitively.
LEMMA PrefixIsReflexive == ASSUME NEW S, NEW s \in Seq(S) PROVE IsPrefix(s, s)
BY PrefixIs

\* What lies below a path that lies below another lies below that.
LEMMA PrefixIsTransitive ==
    ASSUME NEW S, NEW s \in Seq(S), NEW t \in Seq(S), NEW u \in Seq(S), IsPrefix(s, t), IsPrefix(t, u)
    PROVE  IsPrefix(s, u)
<1>1. Len(s) \in Nat /\ Len(t) \in Nat /\ Len(u) \in Nat
  OBVIOUS
<1>2. Len(s) <= Len(t) /\ \A i \in 1..Len(s) : s[i] = t[i]
  BY PrefixIs
<1>3. Len(t) <= Len(u) /\ \A i \in 1..Len(t) : t[i] = u[i]
  BY PrefixIs
<1>4. QED
  BY <1>1, <1>2, <1>3, PrefixIs

\* Common parents do not matter for what is below what.
LEMMA PrefixBelow ==
    ASSUME NEW S, NEW b \in Seq(S), NEW s \in Seq(S), NEW t \in Seq(S), IsPrefix(b \o s, b \o t)
    PROVE  IsPrefix(s, t)
<1> DEFINE bs == b \o s
           bt == b \o t
<1>1. Len(b) \in Nat /\ Len(s) \in Nat /\ Len(t) \in Nat
  OBVIOUS
<1>2. /\ bs \in Seq(S) /\ Len(bs) = Len(b) + Len(s)
      /\ \A i \in 1..(Len(b) + Len(s)) : bs[i] = IF i <= Len(b) THEN b[i] ELSE s[i - Len(b)]
  BY ConcatProperties
<1>3. /\ bt \in Seq(S) /\ Len(bt) = Len(b) + Len(t)
      /\ \A i \in 1..(Len(b) + Len(t)) : bt[i] = IF i <= Len(b) THEN b[i] ELSE t[i - Len(b)]
  BY ConcatProperties
<1> HIDE DEF bs, bt
<1>4. IsPrefix(bs, bt)
  BY DEF bs, bt
<1>5. Len(bs) <= Len(bt) /\ \A i \in 1..Len(bs) : bs[i] = bt[i]
  <2>1. bs \in Seq(S) /\ bt \in Seq(S)
    BY <1>2, <1>3
  <2>2. QED
    BY <1>4, <2>1, PrefixIs
<1>6. ASSUME NEW i \in 1..Len(s) PROVE s[i] = t[i]
  <2>1. Len(b) + i \in 1..Len(bs) /\ ~(Len(b) + i <= Len(b)) /\ (Len(b) + i) - Len(b) = i
    BY <1>1, <1>2
  <2>2. bs[Len(b) + i] = s[i] /\ bt[Len(b) + i] = t[i]
    BY <1>1, <1>2, <1>3, <1>5, <2>1
  <2>3. QED
    BY <1>5, <2>1, <2>2
<1>7. Len(s) <= Len(t)
  BY <1>1, <1>2, <1>3, <1>5
<1>8. QED
  BY <1>6, <1>7, PrefixIs

\* Directories below two different ones, of the same name, are below each other
\* only if the two are.
LEMMA PrefixAbove ==
    ASSUME NEW S, NEW e \in S, NEW s \in Seq(S), NEW t \in Seq(S), IsPrefix(s \o <<e>>, t \o <<e>>)
    PROVE  IsPrefix(s, t)
<1> DEFINE se == s \o <<e>>
           te == t \o <<e>>
<1>1. Len(s) \in Nat /\ Len(t) \in Nat /\ <<e>> \in Seq(S) /\ Len(<<e>>) = 1
  OBVIOUS
<1>2. /\ se \in Seq(S) /\ Len(se) = Len(s) + 1
      /\ \A i \in 1..Len(s) : se[i] = s[i]
  BY <1>1, ConcatProperties
<1>3. /\ te \in Seq(S) /\ Len(te) = Len(t) + 1
      /\ \A i \in 1..Len(t) : te[i] = t[i]
  BY <1>1, ConcatProperties
<1> HIDE DEF se, te
<1>4. Len(se) <= Len(te) /\ \A i \in 1..Len(se) : se[i] = te[i]
  <2>1. IsPrefix(se, te)
    BY DEF se, te
  <2>2. QED
    BY <1>2, <1>3, <2>1, PrefixIs
<1>5. Len(s) <= Len(t)
  BY <1>1, <1>2, <1>3, <1>4
<1>6. \A i \in 1..Len(s) : s[i] = t[i]
  BY <1>1, <1>2, <1>3, <1>4, <1>5
<1>7. QED
  BY <1>5, <1>6, PrefixIs

\* The directories of the tests: paths, and none is at or below a later one's.
LEMMA TestIs == Test = 1..Len(Tests) /\ Len(Tests) \in Nat
BY TestsAssumption DEF Test

\* The bound on faults is a number.
LEMMA FaultsAreBounded == MaxFaults \in Nat
BY TestsAssumption

\* The names that paths are made of.
FixedName == {"output", "tests", "expected-output"}
Name == (FixedName \cup UNION {ToSet(Tests[t].dir) : t \in Test})
          \cup UNION {ToSet(path) : path \in UNION {DOMAIN d : d \in Disks}}

\* A test lies at a path.
LEMMA DirIsPath == ASSUME NEW t \in Test PROVE Tests[t].dir \in Seq(Name)
<1>1. Tests[t].dir \in Seq(ToSet(Tests[t].dir)) /\ ToSet(Tests[t].dir) \subseteq Name
  BY TestsAssumption DEF Name
<1> HIDE DEF Name
<1>2. QED
  BY <1>1, SeqMonotonic

\* The files of every disk the harness may start from have paths.
LEMMA DiskHasPaths == ASSUME NEW d \in Disks PROVE DOMAIN d \subseteq Seq(Name)
<1> SUFFICES ASSUME NEW path \in DOMAIN d PROVE path \in Seq(Name)
  OBVIOUS
<1>1. path \in Seq(ToSet(path)) /\ ToSet(path) \subseteq Name
  BY TestsAssumption DEF Name
<1> HIDE DEF Name
<1>2. QED
  BY <1>1, SeqMonotonic

\* The walk comes to a directory before what is below it.
LEMMA WalkOrder == ASSUME NEW s \in Test, NEW t \in Test, s < t PROVE ~IsPrefix(Tests[t].dir, Tests[s].dir)
BY TestsAssumption

\* The names the harness makes paths with.
LEMMA NamesArePaths ==
    /\ <<"tests">> \in Seq(Name) /\ <<"expected-output">> \in Seq(Name) /\ <<"output">> \in Seq(Name)
    /\ Len(<<"tests">>) = 1 /\ Len(<<"expected-output">>) = 1 /\ Len(<<"output">>) = 1
    /\ "expected-output" \in Name
<1>1. ASSUME NEW name \in Name PROVE <<name>> \in Seq(Name) /\ Len(<<name>>) = 1
  OBVIOUS
<1>2. "tests" \in Name /\ "expected-output" \in Name /\ "output" \in Name
  BY DEF Name, FixedName
<1>3. QED
  BY <1>1, <1>2

\* The output directory of a test has a path.
LEMMA OutputIsPath == ASSUME NEW t \in Test PROVE OutputOf(t) \in Seq(Name) /\ Len(OutputOf(t)) > 0
<1>1. Tests[t].dir \in Seq(Name) /\ <<"tests">> \in Seq(Name) /\ <<"expected-output">> \in Seq(Name)
      /\ Base \in Seq(Name) /\ Len(<<"tests">>) = 1 /\ Len(<<"expected-output">>) = 1 /\ Len(Base) = 1
  BY DirIsPath, NamesArePaths DEF Base
<1> DEFINE below == <<"tests">> \o Tests[t].dir
<1>2. below \in Seq(Name) /\ Len(below) = 1 + Len(Tests[t].dir)
  BY <1>1, ConcatProperties
<1> HIDE DEF below
<1>3. below \o <<"expected-output">> \in Seq(Name) /\ Len(below \o <<"expected-output">>) = Len(below) + 1
  BY <1>1, <1>2, ConcatProperties
<1>4. Base \o Tests[t].dir \in Seq(Name) /\ Len(Base \o Tests[t].dir) = 1 + Len(Tests[t].dir)
  <2> DEFINE dir == Tests[t].dir
  <2>1. dir \in Seq(Name) /\ Base \in Seq(Name) /\ Len(Base) = 1
    BY <1>1
  <2> HIDE DEF dir
  <2>2. Base \o dir \in Seq(Name) /\ Len(Base \o dir) = Len(Base) + Len(dir)
    BY <2>1, ConcatProperties
  <2>3. QED
    BY <2>1, <2>2 DEF dir
<1>5. OutputOf(t) = IF policy = Replace THEN below \o <<"expected-output">> ELSE Base \o Tests[t].dir
  BY DEF OutputOf, below
<1>6. Len(Tests[t].dir) \in Nat
  BY <1>1
<1>7. CASE policy = Replace
  BY <1>2, <1>3, <1>5, <1>6, <1>7
<1>8. CASE policy # Replace
  BY <1>4, <1>5, <1>6, <1>8
<1>9. QED
  BY <1>7, <1>8

\* The output of a test does not lie below that of a later one.
LEMMA NotBelowLater ==
    ASSUME NEW s \in Test, NEW t \in Test, s < t
    PROVE  ~IsPrefix(OutputOf(t), OutputOf(s))
<1> SUFFICES ASSUME IsPrefix(OutputOf(t), OutputOf(s)) PROVE FALSE
  OBVIOUS
<1> DEFINE root == <<"tests">>
           r == Tests[s].dir
           d == Tests[t].dir
<1>1. /\ r \in Seq(Name) /\ d \in Seq(Name) /\ root \in Seq(Name) /\ Base \in Seq(Name)
      /\ ~IsPrefix(d, r)
  BY DirIsPath, WalkOrder, NamesArePaths DEF Base
<1>2. CASE policy = Replace
  <2> DEFINE rr == root \o r
             rd == root \o d
  <2>1. rr \in Seq(Name) /\ rd \in Seq(Name)
    BY <1>1, ConcatProperties
  <2>2. IsPrefix(rd \o <<"expected-output">>, rr \o <<"expected-output">>)
    BY <1>2 DEF OutputOf
  <2> HIDE DEF rr, rd
  <2>3. IsPrefix(rd, rr)
    BY <2>1, <2>2, PrefixAbove, NamesArePaths
  <2>4. IsPrefix(root \o d, root \o r)
    BY <2>3 DEF rr, rd
  <2> HIDE DEF root, r, d
  <2>5. IsPrefix(d, r)
    BY <1>1, <2>4, PrefixBelow
  <2>6. QED
    BY <1>1, <2>5
<1>3. CASE policy # Replace
  <2>1. IsPrefix(Base \o d, Base \o r)
    BY <1>3 DEF OutputOf
  <2> HIDE DEF root, r, d
  <2>2. IsPrefix(d, r)
    BY <1>1, <2>1, PrefixBelow
  <2>3. QED
    BY <1>1, <2>2
<1>4. QED
  BY <1>2, <1>3

-----------------------------------------------------------------------------
(* Removing and making directories.                                        *)

\* What is not at or below a removed path stays, in full or in part.
LEMMA RemovedIsBelow ==
    ASSUME NEW dirs, NEW path, NEW p \in DOMAIN dirs, ~IsPrefix(path, p)
    PROVE  p \in DOMAIN RemoveAll(dirs, path) /\ RemoveAll(dirs, path)[p] = dirs[p]
BY DEF RemoveAll

\* Removing a path, in part too, leaves what is not below it.
LEMMA RemovedInPartIsBelow ==
    ASSUME NEW dirs, NEW path \in Seq(Name), NEW p \in Seq(Name), p \in DOMAIN dirs, ~IsPrefix(path, p),
           NEW left \in RemoveSome(dirs, path), DOMAIN dirs \subseteq Seq(Name)
    PROVE  p \in DOMAIN left /\ left[p] = dirs[p]
<1>1. CASE left = dirs
  BY <1>1
<1>2. ASSUME NEW q \in DOMAIN dirs, IsStrictPrefix(path, q), left = RemoveAll(dirs, q)
      PROVE  p \in DOMAIN left /\ left[p] = dirs[p]
  <2>1. ~IsPrefix(q, p)
    BY <1>2, PrefixIsTransitive DEF IsStrictPrefix
  <2>2. QED
    BY <1>2, <2>1, RemovedIsBelow
<1>3. QED
  BY <1>1, <1>2 DEF RemoveSome

\* MkdirAll makes the directory it is asked for, empty if it is new, and keeps the others.
LEMMA MadeDirectories ==
    ASSUME NEW dirs, NEW path \in Seq(Name), Len(path) > 0
    PROVE  /\ path \in DOMAIN MkdirAll(dirs, path)
           /\ path \notin DOMAIN dirs => MkdirAll(dirs, path)[path] = <<>>
           /\ \A p \in DOMAIN dirs : p \in DOMAIN MkdirAll(dirs, path) /\ MkdirAll(dirs, path)[p] = dirs[p]
<1>1. Len(path) \in 1..Len(path) /\ SubSeq(path, 1, Len(path)) = path
  BY SubSeqFull
<1>2. path \in {SubSeq(path, 1, n) : n \in 1..Len(path)}
  BY <1>1
<1>3. QED
  BY <1>2 DEF MkdirAll

-----------------------------------------------------------------------------
(* Types.                                                                  *)

HarnessTypes == HarnessTypeOK /\ DOMAIN disk \subseteq Seq(Name)

\* Removing leaves paths.
LEMMA RemovedPaths ==
    ASSUME NEW dirs, NEW path, DOMAIN dirs \subseteq Seq(Name)
    PROVE  /\ DOMAIN RemoveAll(dirs, path) \subseteq Seq(Name)
           /\ \A left \in RemoveSome(dirs, path) : DOMAIN left \subseteq Seq(Name)
BY DEF RemoveAll, RemoveSome

\* MkdirAll makes paths.
LEMMA MadePaths ==
    ASSUME NEW dirs, NEW path \in Seq(Name), DOMAIN dirs \subseteq Seq(Name)
    PROVE  DOMAIN MkdirAll(dirs, path) \subseteq Seq(Name)
<1>1. ASSUME NEW n \in 1..Len(path) PROVE SubSeq(path, 1, n) \in Seq(Name)
  <2>1. n \in Int /\ \A i \in 1..n : path[i] \in Name
    OBVIOUS
  <2>2. QED
    BY <2>1, SubSeqProperties
<1>2. QED
  BY <1>1 DEF MkdirAll

\* At the start everything the harness keeps has its type.
LEMMA HarnessTypesStart == HarnessInit => HarnessTypes
<1> SUFFICES ASSUME HarnessInit PROVE HarnessTypes
  OBVIOUS
<1>1. DOMAIN disk \subseteq Seq(Name)
  BY DiskHasPaths DEF HarnessInit
<1>2. HarnessTypeOK
  <2>1. current \in 1..(Len(Tests) + 1) /\ faults \in 0..MaxFaults
    BY TestIs, FaultsAreBounded DEF HarnessInit
  <2>2. verdict \in [Test -> {"none", "pass", "fail"}]
    BY DEF HarnessInit
  <2>3. stage = "remove" /\ result = "none" /\ status = "none" /\ execErr = "none" /\ policy \in Policies
    BY DEF HarnessInit
  <2>4. QED
    BY <2>1, <2>2, <2>3 DEF HarnessTypeOK
<1>3. QED
  BY <1>1, <1>2 DEF HarnessTypes

\* Every step keeps the types.
LEMMA HarnessTypesKept == HarnessTypes /\ [HarnessNext]_harnessVars => HarnessTypes'
<1> SUFFICES ASSUME HarnessTypes, [HarnessNext]_harnessVars PROVE HarnessTypes'
  OBVIOUS
<1> USE TestIs, FaultsAreBounded DEF HarnessTypes, HarnessTypeOK
<1>1. CASE RemoveBase
  <2>1. DOMAIN disk' \subseteq Seq(Name)
    BY <1>1, RemovedPaths DEF RemoveBase
  <2>2. faults' \in 0..MaxFaults
    BY <1>1 DEF RemoveBase, Fault
  <2>3. QED
    BY <1>1, <2>1, <2>2 DEF RemoveBase, testVars, processVars
<1>2. CASE MakeBase
  <2>1. Base \in Seq(Name)
    BY NamesArePaths DEF Base
  <2>2. DOMAIN disk' \subseteq Seq(Name)
    BY <1>2, <2>1, MadePaths DEF MakeBase, Return
  <2>3. faults' \in 0..MaxFaults
    BY <1>2 DEF MakeBase, Fault
  <2>4. QED
    BY <1>2, <2>2, <2>3 DEF MakeBase, Return, testVars, processVars
<1>3. CASE StartTest
  <2>1. current \in Test
    BY <1>3 DEF StartTest, InLoop
  <2>2. OutputOf(current) \in Seq(Name) /\ Len(OutputOf(current)) > 0
    BY <2>1, OutputIsPath
  <2>3. DOMAIN ReplacedOrKept(OutputOf(current)) \subseteq Seq(Name)
    BY RemovedPaths DEF ReplacedOrKept
  <2>4. OutputOf(current) \in DOMAIN disk' /\ DOMAIN disk' \subseteq Seq(Name)
    BY <1>3, <2>2, <2>3, MadeDirectories, MadePaths DEF StartTest
  <2>5. OutputOf(current)' = OutputOf(current)
    BY <1>3 DEF StartTest, OutputOf
  <2>6. QED
    BY <1>3, <2>4, <2>5 DEF StartTest, InLoop, testVars, processVars
<1>4. CASE CannotStartTest
  <2>1. current \in Test /\ current + 1 \in 1..(Len(Tests) + 1)
    BY <1>4 DEF CannotStartTest, InLoop
  <2>2. DOMAIN disk' \subseteq Seq(Name)
    BY <1>4, RemovedPaths DEF CannotStartTest, ReplacedOrKept
  <2>3. QED
    BY <1>4, <2>1, <2>2 DEF CannotStartTest, InLoop, NextTest, Fault, testVars, processVars
<1>5. CASE StartCommand
  BY <1>5 DEF StartCommand, OutputOf
<1>6. CASE CannotStartCommand
  BY <1>6 DEF CannotStartCommand, OutputOf, Fault, processVars
<1>7. CASE CommandStep
  <2>1. status' # "none" /\ faults' \in 0..MaxFaults
    BY <1>7 DEF CommandStep, Decide, GiveUp, WriteNext, ExitWith, WriteFails, LeaveOut, Fault
  <2>2. QED
    BY <1>7, <2>1 DEF CommandStep, OutputOf
<1>8. CASE TimeUp \/ Cancel
  BY <1>8 DEF TimeUp, Cancel, Interrupt, Killed, Running, processVars, OutputOf
<1>9. CASE WaitReturns
  BY <1>9 DEF WaitReturns, WaitError, OutputOf
<1>10. CASE Judge
  BY <1>10 DEF Judge, OutputOf, testVars, processVars
<1>11. CASE PanicOnUnread
  BY <1>11 DEF PanicOnUnread, Return, OutputOf, testVars, processVars
<1>12. CASE CleanUp
  <2>1. DOMAIN disk' \subseteq Seq(Name)
    BY <1>12, RemovedPaths DEF CleanUp
  <2>2. QED
    BY <1>12, <2>1 DEF CleanUp, NextTest, Fault, processVars
<1>13. CASE Finish
  BY <1>13 DEF Finish, Return, Fault, OutputOf, testVars, processVars
<1>14. CASE Done \/ UNCHANGED harnessVars
  BY <1>14 DEF Done, harnessVars, testVars, processVars, OutputOf
<1>15. QED
  BY <1>1, <1>2, <1>3, <1>4, <1>5, <1>6, <1>7, <1>8, <1>9, <1>10, <1>11, <1>12, <1>13, <1>14
  DEF HarnessNext, HarnessStep

-----------------------------------------------------------------------------
(* What is written.                                                        *)

\* The output directory of a test was empty when its command was started.
StartsEmpty == policy = Replace \/ removed

Wanted == ToSet(WrittenBy(command))

\* Every file is one that the command writes, in full or cut short.
OnlyWanted(files) ==
    \A f \in DOMAIN files : \E w \in Wanted : w.path = f /\ files[f] \in {w.content, Truncated}
\* Every file that the command writes is there in full, but for some.
HasAllBut(files, rest) ==
    \A w \in Wanted \ rest : w.path \in DOMAIN files /\ files[w.path] = w.content

\* The output of a test that is over.
Past(t) == t < current \/ (t = current /\ stage \in {"judge", "clean", "done"})
OthersAreEmpty ==
    policy # Replace /\ removed =>
        \A path \in DOMAIN disk :
            IsPrefix(Base, path) => disk[path] = <<>> \/ \E t \in Test : Past(t) /\ path = OutputOf(t)

\* A command that runs: what it exits with 0 for, and what it has left so far.
AtWork ==
    /\ command \in Tests[current].commands
    /\ pending \in Seq(Wanted)
    /\ status = "zero" => pending = <<>> /\ clean
    /\ clean /\ status \in {"writing", "zero"} => HasAllBut(out, ToSet(pending))
    /\ StartsEmpty => OnlyWanted(out)

WhileRunning ==
    /\ stage \notin {"judge", "clean", "done"} => ended = "none"
    /\ stage = "start" /\ StartsEmpty => disk[OutputOf(current)] = <<>>
    /\ stage = "exec" => AtWork

AfterRunning ==
    stage \in {"judge", "clean"} =>
        /\ ended \in {"none", "zero", "nonzero", "killed"}
        /\ ended = "none" => execErr = "start" /\ (StartsEmpty => disk[OutputOf(current)] = <<>>)
        /\ ended = "zero" => execErr \in {"none", "other"} /\ HasAllBut(disk[OutputOf(current)], {})
        /\ ended \in {"nonzero", "killed"} => execErr = "exit"
        /\ ended # "none" =>
              command \in Tests[current].commands /\ (StartsEmpty => OnlyWanted(disk[OutputOf(current)]))

\* A test that has passed was judged by the output that is still there.
JudgedRight == JustPassed => Passes(Result) /\ ~Panics(Result)

Outcome == OthersAreEmpty /\ WhileRunning /\ AfterRunning /\ JudgedRight

\* Decisions about whole files.
LEMMA FilesOfIsSeq == ASSUME NEW dir, NEW req PROVE FilesOf(dir, req) \in Seq(ToSet(FilesOf(dir, req)))
<1> DEFINE m == [path |-> PathOf(dir, req, "metadata"), content |-> Metadata(req)]
           b == [path |-> PathOf(dir, req, "body"), content |-> req.body]
           o == [path |-> PathOf(dir, req, "options"), content |-> [options |-> req.options]]
<1>1. FilesOf(dir, req) = <<m, b>> \o (IF req.options = Empty THEN <<>> ELSE <<o>>)
  BY DEF FilesOf
<1> HIDE DEF m, b, o
<1>2. CASE req.options = Empty
  <2>1. FilesOf(dir, req) = <<m, b>>
    BY <1>1, <1>2, TwoAndNone
  <2>2. ToSet(<<m, b>>) = {m, b}
    BY DEF ToSet
  <2>3. QED
    BY <2>1, <2>2
<1>3. CASE req.options # Empty
  <2>1. FilesOf(dir, req) = <<m, b, o>>
    BY <1>1, <1>3, TwoAndOne
  <2>2. ToSet(<<m, b, o>>) = {m, b, o}
    BY DEF ToSet
  <2>3. QED
    BY <2>1, <2>2
<1>4. QED
  BY <1>2, <1>3

\* The files of one request.
LEMMA FilesOfAre ==
    ASSUME NEW dir, NEW req
    PROVE  ToSet(FilesOf(dir, req)) =
               {[path |-> PathOf(dir, req, "metadata"), content |-> Metadata(req)],
                [path |-> PathOf(dir, req, "body"), content |-> req.body]}
                 \cup (IF req.options = Empty THEN {}
                       ELSE {[path |-> PathOf(dir, req, "options"), content |-> [options |-> req.options]]})
<1> DEFINE m == [path |-> PathOf(dir, req, "metadata"), content |-> Metadata(req)]
           b == [path |-> PathOf(dir, req, "body"), content |-> req.body]
           o == [path |-> PathOf(dir, req, "options"), content |-> [options |-> req.options]]
<1>1. FilesOf(dir, req) = <<m, b>> \o (IF req.options = Empty THEN <<>> ELSE <<o>>)
  BY DEF FilesOf
<1> HIDE DEF m, b, o
<1>2. CASE req.options = Empty
  <2>1. FilesOf(dir, req) = <<m, b>>
    BY <1>1, <1>2, TwoAndNone
  <2>2. ToSet(<<m, b>>) = {m, b}
    BY DEF ToSet
  <2>3. QED
    BY <1>2, <2>1, <2>2 DEF m, b
<1>3. CASE req.options # Empty
  <2>1. FilesOf(dir, req) = <<m, b, o>>
    BY <1>1, <1>3, TwoAndOne
  <2>2. ToSet(<<m, b, o>>) = {m, b, o}
    BY DEF ToSet
  <2>3. QED
    BY <1>3, <2>1, <2>2 DEF m, b, o
<1>4. QED
  BY <1>2, <1>3

\* What a command writes: the files of its requests, and the results.
ResultsOf(c) == [path |-> ResultsFile, content |-> c.results]
FilesToWrite(c) == UNION {ToSet(FilesOf(j.dir, j.req)) : j \in ToSet(c.todo)}

\* A command writes the files of its requests and then its results.
LEMMA WrittenIs ==
    ASSUME NEW t \in Test, NEW c \in Tests[t].commands
    PROVE  /\ WrittenBy(c) \in Seq(ToSet(WrittenBy(c)))
           /\ ToSet(WrittenBy(c)) = FilesToWrite(c) \cup {ResultsOf(c)}
<1> DEFINE Of(i) == FilesOf(c.todo[i].dir, c.todo[i].req)
           files == [i \in DOMAIN c.todo |-> Of(i)]
           All == FilesToWrite(c) \cup {ResultsOf(c)}
<1>1. c.todo \in Seq(ToSet(c.todo))
  BY TestsAssumption
<1>2. Len(c.todo) \in Nat /\ DOMAIN c.todo = 1..Len(c.todo)
  BY <1>1
<1>3. ASSUME NEW i \in DOMAIN c.todo PROVE Of(i) \in Seq(All) /\ ToSet(Of(i)) \subseteq FilesToWrite(c)
  <2>1. c.todo[i] \in ToSet(c.todo)
    BY DEF ToSet
  <2>2. ToSet(Of(i)) \subseteq FilesToWrite(c)
    BY <2>1 DEF FilesToWrite
  <2>3. Of(i) \in Seq(ToSet(Of(i)))
    BY FilesOfIsSeq
  <2> HIDE DEF Of
  <2>4. QED
    BY <2>2, <2>3, SeqMonotonic
<1> HIDE DEF Of, All
<1>4. files \in Seq(Seq(All)) /\ DOMAIN files = DOMAIN c.todo
  BY <1>2, <1>3, IsASeq
<1>5. ToSet(files) = {Of(i) : i \in DOMAIN c.todo}
  BY DEF ToSet
<1>6. UNION {ToSet(q) : q \in ToSet(files)} = FilesToWrite(c)
  <2>1. UNION {ToSet(q) : q \in ToSet(files)} = UNION {ToSet(Of(i)) : i \in DOMAIN c.todo}
    BY <1>5
  <2>2. FilesToWrite(c) = UNION {ToSet(Of(i)) : i \in DOMAIN c.todo}
    <3>1. ToSet(c.todo) = {c.todo[i] : i \in DOMAIN c.todo}
      BY DEF ToSet
    <3>2. \A i \in DOMAIN c.todo : ToSet(FilesOf(c.todo[i].dir, c.todo[i].req)) = ToSet(Of(i))
      BY DEF Of
    <3>3. QED
      BY <3>1, <3>2 DEF FilesToWrite
  <2>3. QED
    BY <2>1, <2>2
<1> DEFINE flat == FlattenSeq(files)
           last == <<ResultsOf(c)>>
<1>7. flat \in Seq(All) /\ ToSet(flat) = FilesToWrite(c)
  BY <1>4, <1>6, FlattenHolds
<1>8. last \in Seq(All) /\ ToSet(last) = {ResultsOf(c)}
  <2>1. ResultsOf(c) \in All
    BY DEF All
  <2>2. QED
    BY <2>1 DEF ToSet
<1>9. WrittenBy(c) = flat \o last
  BY DEF WrittenBy, ResultsOf, Of
<1> HIDE DEF flat, last, files
<1>10. WrittenBy(c) \in Seq(All) /\ ToSet(WrittenBy(c)) = FilesToWrite(c) \cup {ResultsOf(c)}
  BY <1>7, <1>8, <1>9, ConcatHolds
<1>11. QED
  BY <1>10 DEF All

\* A path tells its directory and its kind of file, and the paths of one
\* request differ in nothing else.
LEMMA FilePaths ==
    ASSUME NEW dir, NEW req, NEW file
    PROVE  /\ PathOf(dir, req, file).dir = dir /\ PathOf(dir, req, file).file = file
           /\ PathOf(dir, req, file).action = req.action
           /\ PathOf(dir, req, file) # ResultsFile
           /\ \A other : At(PathOf(dir, req, file), other) = PathOf(dir, req, other)
BY DEF PathOf, At, ResultsFile

\* What a command means to write can be told from what was cut short.
LEMMA WholeFiles ==
    /\ \A req : Metadata(req) # Truncated
    /\ \A options : [options |-> options] # Truncated
<1>1. ASSUME NEW req PROVE Metadata(req) # Truncated
  <2>1. "action" \in DOMAIN Metadata(req) /\ "action" \notin DOMAIN Truncated
    BY DEF Metadata, MetadataFields, Truncated
  <2>2. QED
    BY <2>1
<1>2. ASSUME NEW options PROVE [options |-> options] # Truncated
  <2>1. DOMAIN [options |-> options] = {"options"} /\ DOMAIN Truncated = {"truncated"}
    BY DEF Truncated
  <2>2. QED
    BY <2>1
<1>3. QED
  BY <1>1, <1>2

\* A file is the results or one of a request, which tells its contents.
LEMMA WantedFile ==
    ASSUME NEW t \in Test, command \in Tests[t].commands, NEW w \in Wanted
    PROVE  \/ w = ResultsOf(command)
           \/ \E j \in ToSet(command.todo) :
                 /\ w \in ToSet(FilesOf(j.dir, j.req))
                 /\ w.path = PathOf(j.dir, j.req, w.path.file)
                 /\ \/ w.path.file = "metadata" /\ w.content = Metadata(j.req)
                    \/ w.path.file = "body" /\ w.content = j.req.body
                    \/ w.path.file = "options" /\ w.content = [options |-> j.req.options] /\ j.req.options # Empty
<1>1. w \in FilesToWrite(command) \cup {ResultsOf(command)}
  BY WrittenIs DEF Wanted
<1>2. ASSUME NEW j \in ToSet(command.todo), w \in ToSet(FilesOf(j.dir, j.req))
      PROVE  /\ w.path = PathOf(j.dir, j.req, w.path.file)
             /\ \/ w.path.file = "metadata" /\ w.content = Metadata(j.req)
                \/ w.path.file = "body" /\ w.content = j.req.body
                \/ w.path.file = "options" /\ w.content = [options |-> j.req.options] /\ j.req.options # Empty
  <2>1. w \in {[path |-> PathOf(j.dir, j.req, "metadata"), content |-> Metadata(j.req)],
               [path |-> PathOf(j.dir, j.req, "body"), content |-> j.req.body]}
                 \cup (IF j.req.options = Empty THEN {}
                       ELSE {[path |-> PathOf(j.dir, j.req, "options"), content |-> [options |-> j.req.options]]})
    BY <1>2, FilesOfAre
  <2>2. QED
    BY <2>1, FilePaths
<1>3. QED
  BY <1>1, <1>2 DEF FilesToWrite

\* In one test, two requests with one path for their bodies are one.
LEMMA SamePathSameRequest ==
    ASSUME NEW t \in Test, NEW c \in Tests[t].commands, NEW i \in ToSet(c.todo), NEW j \in ToSet(c.todo),
           PathOf(i.dir, i.req, "body") = PathOf(j.dir, j.req, "body")
    PROVE  i.req = j.req
<1>1. PICK m, n \in DOMAIN c.todo : i = c.todo[m] /\ j = c.todo[n]
  BY DEF ToSet
<1>2. QED
  BY <1>1, TestsAssumption

\* No two of them have the same path.
LEMMA WantedApart ==
    ASSUME NEW t \in Test, command \in Tests[t].commands, NEW v \in Wanted, NEW w \in Wanted, v.path = w.path
    PROVE  v = w
<1>1. CASE v = ResultsOf(command) \/ w = ResultsOf(command)
  <2>1. ResultsOf(command).path = ResultsFile
    BY DEF ResultsOf
  <2>2. ASSUME NEW u \in Wanted, u.path = ResultsFile PROVE u = ResultsOf(command)
    <3>1. ~\E j \in ToSet(command.todo) : u.path = PathOf(j.dir, j.req, u.path.file)
      BY <2>2, FilePaths
    <3>2. QED
      BY <3>1, WantedFile
  <2>3. QED
    BY <1>1, <2>1, <2>2
<1>2. CASE v # ResultsOf(command) /\ w # ResultsOf(command)
  <2>1. PICK i \in ToSet(command.todo) :
            /\ v \in ToSet(FilesOf(i.dir, i.req)) /\ v.path = PathOf(i.dir, i.req, v.path.file)
            /\ \/ v.path.file = "metadata" /\ v.content = Metadata(i.req)
               \/ v.path.file = "body" /\ v.content = i.req.body
               \/ v.path.file = "options" /\ v.content = [options |-> i.req.options]
    BY <1>2, WantedFile
  <2>2. PICK j \in ToSet(command.todo) :
            /\ w \in ToSet(FilesOf(j.dir, j.req)) /\ w.path = PathOf(j.dir, j.req, w.path.file)
            /\ \/ w.path.file = "metadata" /\ w.content = Metadata(j.req)
               \/ w.path.file = "body" /\ w.content = j.req.body
               \/ w.path.file = "options" /\ w.content = [options |-> j.req.options]
    BY <1>2, WantedFile
  <2>3. At(v.path, "body") = PathOf(i.dir, i.req, "body") /\ At(w.path, "body") = PathOf(j.dir, j.req, "body")
    BY <2>1, <2>2, FilePaths
  <2>4. i.req = j.req
    BY <2>1, <2>2, <2>3, SamePathSameRequest
  <2>5. v.content = w.content
    BY <2>1, <2>2, <2>4
  <2>6. ASSUME NEW k, NEW u \in ToSet(FilesOf(k.dir, k.req)) PROVE u = [path |-> u.path, content |-> u.content]
    BY FilesOfAre
  <2>7. v = [path |-> v.path, content |-> v.content] /\ w = [path |-> w.path, content |-> w.content]
    BY <2>1, <2>2, <2>6
  <2>8. QED
    BY <2>5, <2>7
<1>3. QED
  BY <1>1, <1>2

-----------------------------------------------------------------------------
(* A command at work.                                                      *)

\* Writing a wanted file, whole or cut short, leaves only wanted files.
LEMMA StillOnlyWanted ==
    ASSUME NEW fs, OnlyWanted(fs), NEW w \in Wanted, NEW content \in {w.content, Truncated}
    PROVE  OnlyWanted(WriteFile(fs, w.path, content))
<1> DEFINE new == WriteFile(fs, w.path, content)
<1> SUFFICES ASSUME NEW f \in DOMAIN new
             PROVE  \E v \in Wanted : v.path = f /\ new[f] \in {v.content, Truncated}
  BY DEF OnlyWanted
<1>0. /\ DOMAIN new = DOMAIN fs \cup {w.path} /\ new[w.path] = content
      /\ \A p \in DOMAIN fs : p # w.path => new[p] = fs[p]
  BY DEF WriteFile
<1> HIDE DEF new
<1>1. CASE f = w.path
  BY <1>0, <1>1
<1>2. CASE f # w.path
  <2>1. f \in DOMAIN fs /\ new[f] = fs[f]
    BY <1>0, <1>2
  <2>2. QED
    BY <2>1 DEF OnlyWanted
<1>3. QED
  BY <1>1, <1>2

\* Writing a wanted file leaves one file fewer to write.
LEMMA HasOneMore ==
    ASSUME NEW t \in Test, command \in Tests[t].commands, NEW fs, NEW rest, NEW w \in Wanted,
           HasAllBut(fs, {w} \cup rest)
    PROVE  HasAllBut(WriteFile(fs, w.path, w.content), rest)
<1> DEFINE new == WriteFile(fs, w.path, w.content)
<1> SUFFICES ASSUME NEW v \in Wanted \ rest PROVE v.path \in DOMAIN new /\ new[v.path] = v.content
  BY DEF HasAllBut
<1>0. /\ DOMAIN new = DOMAIN fs \cup {w.path} /\ new[w.path] = w.content
      /\ \A p \in DOMAIN fs : p # w.path => new[p] = fs[p]
  BY DEF WriteFile
<1> HIDE DEF new
<1>1. CASE v = w
  BY <1>0, <1>1
<1>2. CASE v # w
  <2>1. v.path \in DOMAIN fs /\ fs[v.path] = v.content
    BY <1>2 DEF HasAllBut
  <2>2. v.path # w.path
    BY <1>2, WantedApart
  <2>3. QED
    BY <1>0, <2>1, <2>2
<1>3. QED
  BY <1>1, <1>2

\* A file that is next, and one that is cut short, is one that is wanted.
LEMMA NextIsWanted ==
    ASSUME AtWork, pending # <<>>
    PROVE  /\ Head(pending) \in Wanted /\ Tail(pending) \in Seq(Wanted)
           /\ ToSet(pending) = {Head(pending)} \cup ToSet(Tail(pending))
           /\ StartsEmpty => OnlyWanted(WriteFile(out, Head(pending).path, Head(pending).content))
           /\ StartsEmpty => OnlyWanted(WriteFile(out, Head(pending).path, Truncated))
<1>1. /\ Head(pending) \in Wanted /\ Tail(pending) \in Seq(Wanted)
      /\ ToSet(pending) = {Head(pending)} \cup ToSet(Tail(pending))
  BY TailHolds DEF AtWork
<1>2. QED
  BY <1>1, StillOnlyWanted DEF AtWork

\* A step of the command keeps what is true while it works.
LEMMA CommandKeeps ==
    ASSUME AtWork, current \in Test, CommandStep
    PROVE  AtWork'
<1> DEFINE h == Head(pending)
<1>1. /\ command' = command /\ current' = current /\ policy' = policy /\ removed' = removed
      /\ Wanted' = Wanted /\ StartsEmpty' = StartsEmpty
  BY DEF CommandStep, Wanted, StartsEmpty
<1>3. CASE pending' = WrittenBy(command) /\ Decide
  <2>1. pending' \in Seq(Wanted) /\ ToSet(pending') = Wanted
    BY <1>3, WrittenIs DEF Wanted, AtWork
  <2>2. HasAllBut(out, ToSet(pending))'
    BY <1>1, <2>1 DEF HasAllBut
  <2>3. OnlyWanted(out)' <=> OnlyWanted(out)
    BY <1>1, <1>3 DEF OnlyWanted, Decide
  <2>4. QED
    BY <1>1, <1>3, <2>1, <2>2, <2>3 DEF AtWork, Decide
<1>4. CASE GiveUp
  <2>1. OnlyWanted(out)' <=> OnlyWanted(out)
    BY <1>1, <1>4 DEF OnlyWanted, GiveUp
  <2>2. QED
    BY <1>1, <1>4, <2>1 DEF AtWork, GiveUp
<1>5. CASE WriteNext
  <2>1. pending # <<>> /\ status = "writing" /\ pending' = Tail(pending)
        /\ out' = WriteFile(out, h.path, h.content) /\ clean' = clean /\ status' = status
    BY <1>5 DEF WriteNext
  <2>2. h \in Wanted /\ Tail(pending) \in Seq(Wanted) /\ ToSet(pending) = {h} \cup ToSet(Tail(pending))
    BY <2>1, NextIsWanted
  <2> HIDE DEF h
  <2>3. ASSUME clean PROVE HasAllBut(out', ToSet(pending'))
    <3>1. HasAllBut(out, {h} \cup ToSet(Tail(pending))) /\ command \in Tests[current].commands
      BY <2>1, <2>2, <2>3 DEF AtWork
    <3>2. HasAllBut(WriteFile(out, h.path, h.content), ToSet(Tail(pending)))
      BY <2>2, <3>1, HasOneMore
    <3>3. QED
      BY <2>1, <3>2
  <2>4. HasAllBut(out, ToSet(pending))' <=> HasAllBut(out', ToSet(pending'))
    BY <1>1 DEF HasAllBut
  <2>5. StartsEmpty => OnlyWanted(out')
    BY <2>1, NextIsWanted DEF h
  <2>6. OnlyWanted(out)' <=> OnlyWanted(out')
    BY <1>1 DEF OnlyWanted
  <2>7. QED
    BY <1>1, <2>1, <2>2, <2>3, <2>4, <2>5, <2>6 DEF AtWork
<1>6. CASE \E code \in {"zero", "nonzero"} : ExitWith(code)
  <2>1. /\ pending = <<>> /\ status = "writing" /\ pending' = pending /\ out' = out /\ clean' = clean
        /\ status' = "zero" => clean
    BY <1>6 DEF ExitWith
  <2>2. (OnlyWanted(out)' <=> OnlyWanted(out)) /\ (HasAllBut(out, ToSet(pending))' <=> HasAllBut(out, ToSet(pending)))
    BY <1>1, <2>1 DEF OnlyWanted, HasAllBut
  <2>3. QED
    BY <1>1, <2>1, <2>2 DEF AtWork
<1>7. CASE WriteFails \/ \E n \in 1..Len(pending) : LeaveOut(n)
  <2>1. clean' = FALSE /\ status' = "writing"
    BY <1>7 DEF WriteFails, LeaveOut
  <2>2. OnlyWanted(out)' <=> OnlyWanted(out')
    BY <1>1 DEF OnlyWanted
  <2>3. CASE WriteFails
    <3>1. pending # <<>> /\ pending' = Tail(pending) /\ out' \in {out, WriteFile(out, h.path, Truncated)}
      BY <2>3 DEF WriteFails
    <3>2. pending' \in Seq(Wanted) /\ (StartsEmpty => OnlyWanted(out'))
      BY <3>1, NextIsWanted DEF AtWork
    <3>3. QED
      BY <1>1, <2>1, <2>2, <3>2 DEF AtWork
  <2>4. ASSUME NEW n \in 1..Len(pending), LeaveOut(n) PROVE AtWork'
    <3>1. pending' = SubSeq(pending, n + 1, Len(pending)) /\ out' = out
      BY <2>4 DEF LeaveOut
    <3>2. pending' \in Seq(Wanted)
      <4>1. n + 1 \in Int /\ Len(pending) \in Int /\ \A i \in (n + 1)..Len(pending) : pending[i] \in Wanted
        BY DEF AtWork
      <4>2. QED
        BY <3>1, <4>1, SubSeqProperties
    <3>3. QED
      BY <1>1, <2>1, <2>2, <3>1, <3>2 DEF AtWork
  <2>5. QED
    BY <1>7, <2>3, <2>4
<1>8. QED
  BY <1>3, <1>4, <1>5, <1>6, <1>7 DEF CommandStep

\* So does a fault in it.
LEMMA InterruptKeeps ==
    ASSUME AtWork, current \in Test, Interrupt, UNCHANGED <<command, current, policy, removed>>
    PROVE  AtWork'
<1>1. Wanted' = Wanted /\ StartsEmpty' = StartsEmpty
  BY DEF Wanted, StartsEmpty
<1>2. OnlyWanted(out)' <=> OnlyWanted(out')
  BY <1>1 DEF OnlyWanted
<1>3. CASE Killed
  <2>1. /\ status' = "killed" /\ pending' = pending /\ clean' = clean
        /\ out' = out \/ (pending # <<>> /\ out' = WriteFile(out, Head(pending).path, Truncated))
    BY <1>3 DEF Killed
  <2>2. StartsEmpty => OnlyWanted(out')
    BY <2>1, NextIsWanted DEF AtWork
  <2>3. QED
    BY <1>1, <1>2, <2>1, <2>2 DEF AtWork
<1>4. CASE UNCHANGED processVars
  <2>1. out' = out /\ pending' = pending /\ clean' = clean /\ status' = status
    BY <1>4 DEF processVars
  <2>2. HasAllBut(out, ToSet(pending))' <=> HasAllBut(out, ToSet(pending))
    BY <1>1, <2>1 DEF HasAllBut
  <2>3. QED
    BY <1>1, <1>2, <2>1, <2>2 DEF AtWork
<1>5. QED
  BY <1>3, <1>4 DEF Interrupt

-----------------------------------------------------------------------------
(* Verdicts.                                                               *)

\* The tests that have a verdict are those before the current one, and that
\* one itself until its output has been cleaned up.
Verdicts ==
    /\ stage \in {"remove", "mkdir"} => current = 1
    /\ \A t \in Test : verdict[t] # "none" <=> t < current \/ (t = current /\ stage = "clean")

\* The verdicts stay what the judgement made them.
LEMMA VerdictsKept ==
    HarnessTypes /\ Verdicts /\ OkMeansAllPassed /\ [HarnessNext]_harnessVars => Verdicts' /\ OkMeansAllPassed'
<1> SUFFICES ASSUME HarnessTypes, Verdicts, OkMeansAllPassed, [HarnessNext]_harnessVars
             PROVE  Verdicts' /\ OkMeansAllPassed'
  OBVIOUS
<1> USE TestIs DEF Verdicts, OkMeansAllPassed, Test
<1>0. /\ current \in 1..(Len(Tests) + 1) /\ verdict \in [Test -> {"none", "pass", "fail"}]
      /\ stage \in {"start", "exec", "judge", "clean"} => current \in Test
      /\ result # "none" <=> stage = "done"
  BY DEF HarnessTypes, HarnessTypeOK
<1>1. CASE RemoveBase
  BY <1>0, <1>1 DEF RemoveBase
<1>2. CASE MakeBase
  BY <1>0, <1>2 DEF MakeBase, Return
<1>3. CASE StartTest
  BY <1>0, <1>3 DEF StartTest, InLoop
<1>4. CASE CannotStartTest
  BY <1>0, <1>4 DEF CannotStartTest, InLoop, NextTest
<1>5. CASE StartCommand \/ CannotStartCommand \/ CommandStep \/ TimeUp \/ Cancel \/ WaitReturns
  BY <1>0, <1>5 DEF StartCommand, CannotStartCommand, CommandStep, TimeUp, Cancel, WaitReturns
<1>6. CASE Judge
  BY <1>0, <1>6 DEF Judge
<1>7. CASE PanicOnUnread
  BY <1>0, <1>7 DEF PanicOnUnread, Return
<1>8. CASE CleanUp
  BY <1>0, <1>8 DEF CleanUp, NextTest
<1>9. CASE Finish
  <2>1. Verdicts'
    BY <1>0, <1>9 DEF Finish, Return
  <2>2. ASSUME result' = "ok" PROVE junit' /\ ~cancelled' /\ \A t \in Test : verdict'[t] = "pass"
    <3>1. Base \in DOMAIN disk /\ ~FailuresOrCancelled
      BY <1>9, <2>2 DEF Finish, Return
    <3>2. current > Len(Tests) /\ ~cancelled /\ \A t \in Test : verdict[t] # "fail"
      BY <1>9, <3>1 DEF Finish, FailuresOrCancelled
    <3>3. \A t \in Test : verdict[t] # "none"
      BY <1>0, <3>2
    <3>4. verdict' = verdict /\ cancelled' = cancelled /\ junit' = (Base \in DOMAIN disk)
      BY <1>9 DEF Finish, Return
    <3>5. \A t \in Test : verdict[t] = "pass"
      BY <1>0, <3>2, <3>3
    <3>6. QED
      BY <3>1, <3>2, <3>4, <3>5
  <2>3. QED
    BY <2>1, <2>2
<1>10. CASE Done \/ UNCHANGED harnessVars
  BY <1>10 DEF Done, harnessVars
<1>11. QED
  BY <1>1, <1>2, <1>3, <1>4, <1>5, <1>6, <1>7, <1>8, <1>9, <1>10 DEF HarnessNext, HarnessStep

-----------------------------------------------------------------------------
(* What is kept.                                                           *)

\* A test that is judged comes before any that an action prepares, runs or
\* cleans up, but for one that is to be cleaned up and is not kept then.
LEMMA OutputKept ==
    ASSUME HarnessTypes, Verdicts, [HarnessNext]_harnessVars,
           NEW t \in Test, Kept(t), OutputOf(t) \in DOMAIN disk
    PROVE  OutputOf(t) \in DOMAIN disk' /\ disk'[OutputOf(t)] = disk[OutputOf(t)]
<1> DEFINE o == OutputOf(t)
           c == OutputOf(current)
<1>1. /\ current \in 1..(Len(Tests) + 1) /\ DOMAIN disk \subseteq Seq(Name)
      /\ stage \in {"start", "exec", "judge", "clean"} => current \in Test
      /\ verdict[t] # "none"
  BY DEF HarnessTypes, HarnessTypeOK, Kept
<1>2. t < current \/ (t = current /\ stage = "clean")
  BY <1>1 DEF Verdicts
<1>3. o \in Seq(Name) /\ o \in DOMAIN disk
  BY OutputIsPath
<1>4. current \in Test => c \in Seq(Name) /\ Len(c) > 0
  BY OutputIsPath
<1>5. current \in Test /\ t < current => ~IsPrefix(c, o) /\ c # o
  <2> SUFFICES ASSUME current \in Test, t < current PROVE ~IsPrefix(c, o) /\ c # o
    OBVIOUS
  <2>1. ~IsPrefix(c, o)
    BY NotBelowLater
  <2>2. IsPrefix(o, o)
    BY <1>3, PrefixIsReflexive
  <2>3. QED
    BY <2>1, <2>2
<1>6. \A p : p \in RemoveSome(disk, c) /\ current \in Test /\ t < current => o \in DOMAIN p /\ p[o] = disk[o]
  BY <1>1, <1>3, <1>4, <1>5, RemovedInPartIsBelow
<1>7. current \in Test /\ t < current => o \in DOMAIN RemoveAll(disk, c) /\ RemoveAll(disk, c)[o] = disk[o]
  BY <1>3, <1>5, RemovedIsBelow
<1>8. current \in Test /\ t < current
        => o \in DOMAIN ReplacedOrKept(c) /\ ReplacedOrKept(c)[o] = disk[o]
  BY <1>3, <1>7 DEF ReplacedOrKept
<1> HIDE DEF o, c
<1>9. CASE RemoveBase \/ MakeBase
  <2>1. stage \in {"remove", "mkdir"}
    BY <1>9 DEF RemoveBase, MakeBase
  <2>2. FALSE
    BY <1>2, <2>1, TestIs DEF Verdicts
  <2>3. QED
    BY <2>2
<1>10. CASE StartTest
  <2>1. current \in Test /\ t < current
    BY <1>1, <1>2, <1>10, TestIs DEF StartTest, InLoop
  <2>2. disk' = MkdirAll(ReplacedOrKept(c), c)
    BY <1>10 DEF StartTest, c
  <2>3. QED
    BY <1>4, <1>8, <2>1, <2>2, MadeDirectories DEF o
<1>11. CASE CannotStartTest
  <2>1. current \in Test /\ t < current
    BY <1>1, <1>2, <1>11, TestIs DEF CannotStartTest, InLoop
  <2>2. disk' \in RemoveSome(disk, c) \/ disk' = ReplacedOrKept(c) \/ disk' = disk
    BY <1>11 DEF CannotStartTest, c
  <2>3. QED
    BY <1>3, <1>6, <1>8, <2>1, <2>2 DEF o
<1>12. CASE WaitReturns
  <2>1. current \in Test /\ t < current
    BY <1>1, <1>2, <1>12 DEF WaitReturns
  <2>2. disk' = [disk EXCEPT ![c] = out]
    BY <1>12 DEF WaitReturns, c
  <2>3. QED
    BY <1>3, <1>5, <2>1, <2>2 DEF o
<1>13. CASE CleanUp
  <2>1. current \in Test
    BY <1>1, <1>13 DEF CleanUp
  <2>2. CASE t = current
    <3>1. ~CleansUp(current)
      BY <2>2 DEF CleansUp, Kept
    <3>2. disk' = disk
      BY <1>13, <3>1 DEF CleanUp
    <3>3. QED
      BY <1>3, <3>2 DEF o
  <2>3. CASE t < current
    <3>1. disk' = disk \/ disk' = RemoveAll(disk, c) \/ disk' \in RemoveSome(disk, c)
      BY <1>13 DEF CleanUp, c
    <3>2. QED
      BY <1>3, <1>6, <1>7, <2>1, <2>3, <3>1 DEF o
  <2>4. QED
    BY <1>2, <2>2, <2>3
<1>14. CASE \/ StartCommand \/ CannotStartCommand \/ CommandStep \/ TimeUp \/ Cancel \/ Judge \/ PanicOnUnread
            \/ Finish \/ Done \/ UNCHANGED harnessVars
  <2>1. disk' = disk
    BY <1>14 DEF StartCommand, CannotStartCommand, CommandStep, TimeUp, Cancel, Judge, PanicOnUnread,
                 Return, Finish, Done, harnessVars
  <2>2. QED
    BY <1>3, <2>1 DEF o
<1>15. QED
  BY <1>9, <1>10, <1>11, <1>12, <1>13, <1>14 DEF HarnessNext, HarnessStep

-----------------------------------------------------------------------------
(* The outcome of a test.                                                  *)

\* Removing adds no directory and fills none.
LEMMA FewerDirectories ==
    ASSUME NEW dirs, NEW path, NEW left \in RemoveSome(dirs, path) \cup {RemoveAll(dirs, path)}, NEW p \in DOMAIN left
    PROVE  p \in DOMAIN dirs /\ left[p] = dirs[p]
<1>1. ASSUME NEW q, NEW r \in DOMAIN RemoveAll(dirs, q)
      PROVE  r \in DOMAIN dirs /\ RemoveAll(dirs, q)[r] = dirs[r]
  BY DEF RemoveAll
<1>2. left = dirs \/ \E q : left = RemoveAll(dirs, q)
  BY DEF RemoveSome
<1>3. QED
  BY <1>1, <1>2

\* A directory that MkdirAll makes is empty.
LEMMA NewAreEmpty ==
    ASSUME NEW dirs, NEW path, NEW p \in DOMAIN MkdirAll(dirs, path)
    PROVE  MkdirAll(dirs, path)[p] = <<>> \/ (p \in DOMAIN dirs /\ MkdirAll(dirs, path)[p] = dirs[p])
BY DEF MkdirAll

\* Unless expectations are replaced, the outputs lie below the base directory.
LEMMA BelowBase == ASSUME NEW t \in Test, policy # Replace PROVE IsPrefix(Base, OutputOf(t))
<1> DEFINE d == Tests[t].dir
           bd == Base \o d
<1>1. Base \in Seq(Name) /\ d \in Seq(Name) /\ Len(Base) = 1
  BY NamesArePaths, DirIsPath DEF Base
<1> HIDE DEF d
<1>2. /\ bd \in Seq(Name) /\ Len(bd) = Len(Base) + Len(d)
      /\ \A i \in 1..(Len(Base) + Len(d)) : bd[i] = IF i <= Len(Base) THEN Base[i] ELSE d[i - Len(Base)]
  BY <1>1, ConcatProperties
<1>3. Len(d) \in Nat
  BY <1>1
<1> HIDE DEF bd
<1>4. IsPrefix(Base, bd)
  BY <1>1, <1>2, <1>3, PrefixIs
<1>5. QED
  BY <1>4 DEF OutputOf, d, bd

\* Nothing changes what the harness was asked for, nor where outputs go.
LEMMA PolicyStays == [HarnessNext]_harnessVars => policy' = policy /\ \A t \in Test : OutputOf(t)' = OutputOf(t)
<1>1. [HarnessNext]_harnessVars => policy' = policy
  BY DEF HarnessNext, HarnessStep, RemoveBase, MakeBase, Return, StartTest, CannotStartTest, StartCommand,
         CannotStartCommand, CommandStep, TimeUp, Cancel, WaitReturns, Judge, PanicOnUnread, CleanUp, Finish,
         Done, harnessVars
<1>2. QED
  BY <1>1 DEF OutputOf

\* From one test to the next.
LEMMA TestsAdvance ==
    ASSUME [HarnessNext]_harnessVars
    PROVE  /\ current' \in {current, current + 1}
           /\ stage \in {"judge", "clean", "done"} =>
                 \/ current' = current /\ stage' \in {"judge", "clean", "done"}
                 \/ current' = current + 1
<1>1. CASE RemoveBase \/ MakeBase \/ StartTest \/ StartCommand \/ CannotStartCommand \/ WaitReturns
  BY <1>1 DEF RemoveBase, MakeBase, Return, StartTest, InLoop, StartCommand, CannotStartCommand, WaitReturns
<1>2. CASE CommandStep \/ TimeUp \/ Cancel
  BY <1>2 DEF CommandStep, TimeUp, Cancel
<1>3. CASE Judge \/ PanicOnUnread \/ Finish
  BY <1>3 DEF Judge, PanicOnUnread, Return, Finish
<1>4. CASE CannotStartTest \/ CleanUp
  BY <1>4 DEF CannotStartTest, CleanUp, NextTest
<1>5. CASE Done \/ UNCHANGED harnessVars
  BY <1>5 DEF Done, harnessVars
<1>6. QED
  BY <1>1, <1>2, <1>3, <1>4, <1>5 DEF HarnessNext, HarnessStep

\* Once the old output is removed, files are where a test has been, only.
LEMMA OthersStayEmpty ==
    ASSUME HarnessTypes, OthersAreEmpty, [HarnessNext]_harnessVars
    PROVE  OthersAreEmpty'
<1>0. policy' = policy /\ \A t \in Test : OutputOf(t)' = OutputOf(t)
  BY PolicyStays
<1> SUFFICES ASSUME policy # Replace, removed', NEW path \in DOMAIN disk', IsPrefix(Base, path)
             PROVE  disk'[path] = <<>> \/ \E t \in Test : Past(t)' /\ path = OutputOf(t)
  BY <1>0 DEF OthersAreEmpty
<1>1. /\ current \in 1..(Len(Tests) + 1) /\ Len(Tests) \in Nat /\ Test = 1..Len(Tests)
      /\ stage \in {"start", "exec", "judge", "clean"} => current \in Test
  BY TestIs DEF HarnessTypes, HarnessTypeOK
<1>2. ASSUME NEW t \in Test PROVE t < current => t < current'
  BY <1>1, TestsAdvance
<1>3. ASSUME NEW t \in Test, t = current, stage \in {"judge", "clean", "done"} PROVE Past(t)'
  BY <1>1, <1>3, TestsAdvance DEF Past
<1>4. ASSUME removed, path \in DOMAIN disk, disk'[path] = disk[path]
      PROVE  disk'[path] = <<>> \/ \E t \in Test : Past(t)' /\ path = OutputOf(t)
  <2>1. \A t \in Test : Past(t) => Past(t)'
    BY <1>2, <1>3 DEF Past
  <2>2. QED
    BY <1>4, <2>1 DEF OthersAreEmpty
<1>5. CASE RemoveBase
  <2>1. CASE disk' = RemoveAll(disk, Base)
    BY <2>1 DEF RemoveAll
  <2>2. CASE disk' \in RemoveSome(disk, Base) /\ removed' = removed
    BY <1>4, <2>2, FewerDirectories
  <2>3. QED
    BY <1>5, <2>1, <2>2 DEF RemoveBase
<1>6. CASE MakeBase
  <2>1. removed /\ (disk' = disk \/ disk' = MkdirAll(disk, Base))
    BY <1>6 DEF MakeBase, Return
  <2>2. QED
    BY <1>4, <2>1, NewAreEmpty
<1>7. CASE StartTest
  <2>1. removed /\ disk' = MkdirAll(disk, OutputOf(current))
    BY <1>7 DEF StartTest, ReplacedOrKept
  <2>2. QED
    BY <1>4, <2>1, NewAreEmpty
<1>8. CASE CannotStartTest
  <2>1. removed /\ disk' = disk
    BY <1>8 DEF CannotStartTest
  <2>2. QED
    BY <1>4, <2>1
<1>9. CASE WaitReturns
  <2>1. removed /\ disk' = [disk EXCEPT ![OutputOf(current)] = out] /\ stage' = "judge" /\ current' = current
    BY <1>9 DEF WaitReturns
  <2>2. CASE path = OutputOf(current)
    <3>1. current \in Test /\ \A t \in Test : t = current => Past(t)'
      BY <1>1, <1>9, <2>1 DEF Past, WaitReturns
    <3>2. QED
      BY <2>2, <3>1
  <2>3. CASE path # OutputOf(current)
    BY <1>4, <2>1, <2>3
  <2>4. QED
    BY <2>2, <2>3
<1>10. CASE CleanUp
  <2>1. /\ removed
        /\ disk' = disk \/ disk' \in RemoveSome(disk, OutputOf(current)) \cup {RemoveAll(disk, OutputOf(current))}
    BY <1>10 DEF CleanUp
  <2>2. path \in DOMAIN disk /\ disk'[path] = disk[path]
    BY <2>1, FewerDirectories
  <2>3. QED
    BY <1>4, <2>1, <2>2
<1>11. CASE \/ StartCommand \/ CannotStartCommand \/ CommandStep \/ TimeUp \/ Cancel \/ Judge \/ PanicOnUnread
            \/ Finish \/ Done \/ UNCHANGED harnessVars
  <2>1. disk' = disk /\ removed' = removed
    BY <1>11 DEF StartCommand, CannotStartCommand, CommandStep, TimeUp, Cancel, Judge, PanicOnUnread,
                 Return, Finish, Done, harnessVars
  <2>2. QED
    BY <1>4, <2>1
<1>12. QED
  BY <1>5, <1>6, <1>7, <1>8, <1>9, <1>10, <1>11 DEF HarnessNext, HarnessStep

\* A test starts in an empty directory if the old output is gone.
LEMMA FreshStart ==
    ASSUME HarnessTypes, OthersAreEmpty, StartTest, StartsEmpty
    PROVE  disk'[OutputOf(current)] = <<>>
<1> DEFINE c == OutputOf(current)
           left == ReplacedOrKept(c)
<1>1. current \in Test /\ current \in Nat /\ stage = "test"
  BY TestIs DEF HarnessTypes, HarnessTypeOK, StartTest, InLoop
<1>2. c \in Seq(Name) /\ Len(c) > 0
  BY <1>1, OutputIsPath
<1>3. IsPrefix(c, c)
  BY <1>2, PrefixIsReflexive
<1>4. disk' = MkdirAll(left, c)
  BY DEF StartTest
<1>5. CASE c \notin DOMAIN left
  <2> HIDE DEF c, left
  <2>1. MkdirAll(left, c)[c] = <<>>
    BY <1>2, <1>5, MadeDirectories
  <2>2. QED
    BY <1>4, <2>1 DEF c
<1>6. CASE c \in DOMAIN left
  <2>1. policy # Replace
    BY <1>3, <1>6 DEF ReplacedOrKept, RemoveAll
  <2>2. left = disk /\ removed
    BY <2>1 DEF ReplacedOrKept, StartsEmpty
  <2>3. IsPrefix(Base, c)
    BY <1>1, <2>1, BelowBase
  <2>4. disk[c] = <<>> \/ \E t \in Test : Past(t) /\ c = OutputOf(t)
    BY <1>6, <2>1, <2>2, <2>3 DEF OthersAreEmpty
  <2>5. ASSUME NEW t \in Test, Past(t), c = OutputOf(t) PROVE FALSE
    <3>1. t < current
      BY <1>1, <2>5 DEF Past
    <3>2. ~IsPrefix(c, OutputOf(t))
      BY <1>1, <3>1, NotBelowLater
    <3>3. QED
      BY <1>3, <2>5, <3>2
  <2>6. disk[c] = <<>>
    BY <2>4, <2>5
  <2> HIDE DEF c, left
  <2>7. MkdirAll(left, c)[c] = left[c]
    BY <1>2, <1>6, MadeDirectories
  <2>8. QED
    BY <1>4, <2>2, <2>6, <2>7 DEF c
<1>7. QED
  BY <1>5, <1>6

\* What is true while a test runs stays so.
LEMMA RunningKept ==
    ASSUME HarnessTypes, OthersAreEmpty, WhileRunning, AfterRunning, [HarnessNext]_harnessVars
    PROVE  WhileRunning'
<1>0. policy' = policy /\ \A t \in Test : OutputOf(t)' = OutputOf(t)
  BY PolicyStays
<1>1. stage \in {"start", "exec", "judge", "clean"} => current \in Test
  BY DEF HarnessTypes, HarnessTypeOK
<1>2. CASE RemoveBase \/ MakeBase \/ CannotStartTest
  BY <1>2 DEF RemoveBase, MakeBase, Return, CannotStartTest, InLoop, NextTest, testVars, WhileRunning
<1>3. CASE StartTest
  <2>1. /\ stage = "test" /\ stage' = "start" /\ ended' = ended /\ current' = current /\ removed' = removed
        /\ current \in Test
    BY <1>3, TestIs DEF StartTest, InLoop, testVars, HarnessTypes, HarnessTypeOK
  <2>2. StartsEmpty' = StartsEmpty /\ OutputOf(current)' = OutputOf(current)
    BY <1>0, <2>1 DEF StartsEmpty, OutputOf
  <2>3. StartsEmpty => disk'[OutputOf(current)] = <<>>
    BY <1>3, FreshStart
  <2>4. QED
    BY <2>1, <2>2, <2>3 DEF WhileRunning
<1>4. CASE StartCommand
  <2>1. /\ stage = "start" /\ stage' = "exec" /\ ended' = ended /\ command' \in Tests[current].commands
        /\ current' = current /\ status' = "starting" /\ pending' = <<>> /\ out' = disk[OutputOf(current)]
        /\ removed' = removed
    BY <1>4 DEF StartCommand
  <2>2. StartsEmpty => out' = <<>>
    BY <2>1 DEF WhileRunning
  <2>3. StartsEmpty' = StartsEmpty
    BY <1>0, <2>1 DEF StartsEmpty
  <2>4. StartsEmpty' => OnlyWanted(out)'
    BY <2>2, <2>3 DEF OnlyWanted
  <2>5. pending' \in Seq(Wanted')
    BY <2>1
  <2>6. AtWork'
    BY <2>1, <2>4, <2>5 DEF AtWork
  <2>7. QED
    BY <2>1, <2>6 DEF WhileRunning
<1>5. CASE CommandStep
  <2>1. stage = "exec" /\ stage' = stage /\ ended' = ended
    BY <1>5 DEF CommandStep
  <2>2. AtWork'
    BY <1>1, <1>5, <2>1, CommandKeeps DEF WhileRunning
  <2>3. QED
    BY <2>1, <2>2 DEF WhileRunning
<1>6. CASE stage = "exec" /\ (TimeUp \/ Cancel)
  <2>1. /\ stage = "exec" /\ stage' = stage /\ ended' = ended /\ Interrupt
        /\ UNCHANGED <<command, current, policy, removed>>
    BY <1>6 DEF TimeUp, Cancel
  <2>2. AtWork'
    BY <1>1, <2>1, InterruptKeeps DEF WhileRunning
  <2>3. QED
    BY <2>1, <2>2 DEF WhileRunning
<1>7. CASE stage # "exec" /\ Cancel
  <2>1. /\ stage' = stage /\ ended' = ended /\ disk' = disk /\ current' = current /\ removed' = removed
    BY <1>7 DEF Cancel
  <2>2. StartsEmpty' = StartsEmpty /\ OutputOf(current)' = OutputOf(current)
    BY <1>0, <2>1 DEF StartsEmpty, OutputOf
  <2>3. QED
    BY <1>7, <2>1, <2>2 DEF WhileRunning
<1>8. CASE WaitReturns \/ Judge \/ PanicOnUnread \/ CleanUp \/ Finish \/ CannotStartCommand
  BY <1>8 DEF WaitReturns, Judge, PanicOnUnread, Return, CleanUp, NextTest, Finish, CannotStartCommand, WhileRunning
<1>9. CASE Done
  BY <1>9 DEF Done, harnessVars, WhileRunning
<1>10. CASE UNCHANGED harnessVars
  <2>1. /\ UNCHANGED <<stage, ended, disk, current, removed, policy, command, pending, out, clean, status>>
    BY <1>10 DEF harnessVars, testVars, processVars
  <2>2. /\ StartsEmpty' = StartsEmpty /\ OutputOf(current)' = OutputOf(current) /\ Wanted' = Wanted
    BY <2>1 DEF StartsEmpty, OutputOf, Wanted
  <2>3. (OnlyWanted(out)' <=> OnlyWanted(out)) /\ (HasAllBut(out, ToSet(pending))' <=> HasAllBut(out, ToSet(pending)))
    BY <2>1, <2>2 DEF OnlyWanted, HasAllBut
  <2>4. QED
    BY <2>1, <2>2, <2>3 DEF WhileRunning, AtWork
<1>11. QED
  BY <1>2, <1>3, <1>4, <1>5, <1>6, <1>7, <1>8, <1>9, <1>10 DEF HarnessNext, HarnessStep, TimeUp

\* What is true after a test has run stays so.
LEMMA AfterKept ==
    ASSUME HarnessTypes, WhileRunning, AfterRunning, [HarnessNext]_harnessVars
    PROVE  AfterRunning'
<1>0. policy' = policy /\ \A t \in Test : OutputOf(t)' = OutputOf(t)
  BY PolicyStays
<1>1. stage \in {"start", "exec", "judge"} => OutputOf(current) \in DOMAIN disk
  BY DEF HarnessTypes, HarnessTypeOK
<1>2. ASSUME UNCHANGED <<current, disk, command, removed>>
      PROVE  /\ StartsEmpty' = StartsEmpty /\ OutputOf(current)' = OutputOf(current)
             /\ OnlyWanted(disk[OutputOf(current)])' <=> OnlyWanted(disk[OutputOf(current)])
             /\ HasAllBut(disk[OutputOf(current)], {})' <=> HasAllBut(disk[OutputOf(current)], {})
  <2>1. StartsEmpty' = StartsEmpty /\ OutputOf(current)' = OutputOf(current) /\ Wanted' = Wanted
    BY <1>0, <1>2 DEF StartsEmpty, OutputOf, Wanted
  <2>2. disk'[OutputOf(current)'] = disk[OutputOf(current)]
    BY <1>2, <2>1
  <2>3. QED
    BY <2>1, <2>2 DEF OnlyWanted, HasAllBut
<1>3. CASE CannotStartCommand
  <2>1. /\ stage = "start" /\ stage' = "judge" /\ ended' = ended /\ execErr' = "start"
        /\ UNCHANGED <<current, disk, command, removed>>
    BY <1>3 DEF CannotStartCommand
  <2>2. ended = "none" /\ (StartsEmpty => disk[OutputOf(current)] = <<>>)
    BY <2>1 DEF WhileRunning
  <2>3. disk'[OutputOf(current)'] = disk[OutputOf(current)] /\ StartsEmpty' = StartsEmpty
    BY <1>2, <2>1
  <2>4. QED
    BY <2>1, <2>2, <2>3 DEF AfterRunning
<1>4. CASE WaitReturns
  <2>1. /\ stage = "exec" /\ stage' = "judge" /\ ended' = status /\ Ended /\ execErr' \in WaitError
        /\ disk' = [disk EXCEPT ![OutputOf(current)] = out]
        /\ UNCHANGED <<current, command, removed>>
    BY <1>4 DEF WaitReturns
  <2>2. AtWork /\ disk'[OutputOf(current)] = out
    BY <1>1, <2>1 DEF WhileRunning
  <2>3. /\ StartsEmpty' = StartsEmpty /\ OutputOf(current)' = OutputOf(current) /\ Wanted' = Wanted
    BY <1>0, <2>1 DEF StartsEmpty, OutputOf, Wanted
  <2>4. disk'[OutputOf(current)'] = out
    BY <2>2, <2>3
  <2>5. /\ OnlyWanted(disk[OutputOf(current)])' <=> OnlyWanted(out)
        /\ HasAllBut(disk[OutputOf(current)], {})' <=> HasAllBut(out, {})
    BY <2>3, <2>4 DEF OnlyWanted, HasAllBut
  <2>6. status = "zero" => HasAllBut(out, {})
    <3>1. ToSet(<<>>) = {}
      BY DEF ToSet
    <3>2. QED
      BY <2>2, <3>1 DEF AtWork
  <2>7. /\ status \in {"zero", "nonzero", "killed"}
        /\ status = "zero" => execErr' \in {"none", "other"}
        /\ status # "zero" => execErr' = "exit"
    BY <2>1 DEF Ended, WaitError
  <2>8. StartsEmpty' => OnlyWanted(disk[OutputOf(current)])'
    BY <2>2, <2>3, <2>5 DEF AtWork
  <2>9. command' \in Tests[current'].commands
    BY <2>1, <2>2 DEF AtWork
  <2>10. QED
    BY <2>1, <2>5, <2>6, <2>7, <2>8, <2>9 DEF AfterRunning
<1>5. CASE Judge \/ (stage \in {"judge", "clean"} /\ Cancel) \/ UNCHANGED harnessVars
  <2>1. /\ stage' \in {"judge", "clean"} => stage \in {"judge", "clean"}
        /\ UNCHANGED <<current, disk, command, removed, ended, execErr>>
    BY <1>5 DEF Judge, Cancel, testVars, harnessVars
  <2>2. QED
    BY <1>2, <2>1 DEF AfterRunning
<1>6. CASE stage' \notin {"judge", "clean"}
  BY <1>6 DEF AfterRunning
<1>7. CASE \/ RemoveBase \/ MakeBase \/ StartTest \/ CannotStartTest \/ StartCommand \/ CommandStep \/ TimeUp
           \/ PanicOnUnread \/ CleanUp \/ Finish \/ Done
  <2>1. stage' \notin {"judge", "clean"}
    BY <1>7 DEF RemoveBase, MakeBase, Return, StartTest, CannotStartTest, NextTest, StartCommand, CommandStep, TimeUp,
                PanicOnUnread, CleanUp, Finish, Done, harnessVars
  <2>2. QED
    BY <1>6, <2>1
<1>8. CASE stage \notin {"judge", "clean"} /\ Cancel
  BY <1>6, <1>8 DEF Cancel
<1>9. QED
  BY <1>3, <1>4, <1>5, <1>7, <1>8 DEF HarnessNext, HarnessStep

\* The judgement of a test stays right.
LEMMA JudgementKept ==
    ASSUME HarnessTypes, JudgedRight, [HarnessNext]_harnessVars
    PROVE  JudgedRight'
<1>0. policy' = policy
  BY PolicyStays
<1>1. ASSUME UNCHANGED <<current, disk, junit, execErr>>
      PROVE  (Passes(Result)' <=> Passes(Result)) /\ (Panics(Result)' <=> Panics(Result))
  <2>1. OutputOf(current)' = OutputOf(current)
    BY <1>0, <1>1 DEF OutputOf
  <2>2. HasUnexpected(OutputOf(current))' <=> HasUnexpected(OutputOf(current))
    BY <1>1, <2>1 DEF HasUnexpected
  <2>3. Result' = Result
    BY <1>1, <2>1, <2>2 DEF Result, ResultOf
  <2>4. QED
    BY <1>0, <1>1, <2>3 DEF Passes, Panics, FailsAtOnce, EndedAsDesired
<1>2. CASE Judge
  <2>1. ~Panics(Result) /\ UNCHANGED <<current, disk, junit, execErr>>
        /\ verdict' = [verdict EXCEPT ![current] = IF Passes(Result) THEN "pass" ELSE "fail"]
    BY <1>2 DEF Judge, testVars
  <2>2. current \in DOMAIN verdict
    BY <1>2 DEF Judge, HarnessTypes, HarnessTypeOK
  <2>3. verdict'[current'] = "pass" => Passes(Result)
    BY <2>1, <2>2
  <2>4. QED
    BY <1>1, <2>1, <2>3 DEF JudgedRight, JustPassed
<1>3. CASE (stage = "clean" /\ Cancel) \/ UNCHANGED harnessVars
  <2>1. UNCHANGED <<current, disk, junit, execErr, verdict, stage>>
    BY <1>3 DEF Cancel, testVars, harnessVars
  <2>2. QED
    BY <1>1, <2>1 DEF JudgedRight, JustPassed
<1>4. CASE \/ RemoveBase \/ MakeBase \/ StartTest \/ CannotStartTest \/ StartCommand \/ CannotStartCommand
           \/ CommandStep \/ TimeUp \/ WaitReturns \/ PanicOnUnread \/ CleanUp \/ Finish \/ Done
           \/ (stage # "clean" /\ Cancel)
  <2>1. stage' # "clean"
    BY <1>4 DEF RemoveBase, MakeBase, Return, StartTest, CannotStartTest, NextTest, StartCommand, CannotStartCommand,
                CommandStep, TimeUp, WaitReturns, PanicOnUnread, CleanUp, Finish, Done, Cancel, harnessVars
  <2>2. QED
    BY <2>1 DEF JudgedRight, JustPassed
<1>5. QED
  BY <1>2, <1>3, <1>4 DEF HarnessNext, HarnessStep

-----------------------------------------------------------------------------
(* Reading what a command has left.                                        *)

\* Files of a request are those of its kind, and tell its contents.
LEMMA FileOfRequest ==
    ASSUME NEW t \in Test, command \in Tests[t].commands, NEW j \in ToSet(command.todo), NEW w \in Wanted,
           NEW file, w.path = PathOf(j.dir, j.req, file)
    PROVE  \/ file = "metadata" /\ w.content = Metadata(j.req)
           \/ file = "body" /\ w.content = j.req.body
           \/ file = "options" /\ w.content = [options |-> j.req.options] /\ j.req.options # Empty
<1>1. w # ResultsOf(command)
  BY FilePaths DEF ResultsOf
<1>2. PICK k \in ToSet(command.todo) :
          /\ w.path = PathOf(k.dir, k.req, w.path.file)
          /\ \/ w.path.file = "metadata" /\ w.content = Metadata(k.req)
             \/ w.path.file = "body" /\ w.content = k.req.body
             \/ w.path.file = "options" /\ w.content = [options |-> k.req.options] /\ k.req.options # Empty
  BY <1>1, WantedFile
<1>3. w.path.file = file
  BY FilePaths
<1>4. At(w.path, "body") = PathOf(j.dir, j.req, "body") /\ At(w.path, "body") = PathOf(k.dir, k.req, "body")
  BY <1>2, FilePaths
<1>5. k.req = j.req
  BY <1>4, SamePathSameRequest
<1>6. QED
  BY <1>2, <1>3, <1>5

\* Whatever can be read is a request of the command, each file in full or cut
\* short.
LEMMA ReadIsWanted ==
    ASSUME NEW t \in Test, command \in Tests[t].commands, NEW files, OnlyWanted(files), NEW ct \in ClusterType,
           NEW p \in BodyPaths(files, ct), Readable(files, p)
    PROVE  \E j \in ToSet(command.todo) :
              /\ j.dir = ct /\ p = PathOf(j.dir, j.req, "body")
              /\ files[p] \in {j.req.body, Truncated}
              /\ files[At(p, "metadata")] \in {Metadata(j.req), Truncated}
<1>1. p \in DOMAIN files /\ p.dir = ct /\ p.file = "body" /\ At(p, "metadata") \in DOMAIN files
  BY DEF BodyPaths, Readable
<1>2. PICK w \in Wanted : w.path = p /\ files[p] \in {w.content, Truncated}
  BY <1>1 DEF OnlyWanted
<1>3. p # ResultsFile
  BY <1>1 DEF ResultsFile, ClusterType
<1>4. w # ResultsOf(command)
  BY <1>2, <1>3 DEF ResultsOf
<1>5. PICK j \in ToSet(command.todo) : w.path = PathOf(j.dir, j.req, w.path.file)
  BY <1>4, WantedFile
<1>6. p = PathOf(j.dir, j.req, "body") /\ j.dir = ct
  BY <1>1, <1>2, <1>5, FilePaths
<1>7. w.content = j.req.body
  BY <1>2, <1>6, FileOfRequest
<1>8. PICK v \in Wanted : v.path = At(p, "metadata") /\ files[At(p, "metadata")] \in {v.content, Truncated}
  BY <1>1 DEF OnlyWanted
<1>9. v.path = PathOf(j.dir, j.req, "metadata")
  BY <1>6, <1>8, FilePaths
<1>10. v.content = Metadata(j.req)
  <2>1. v \in Wanted
    BY <1>8
  <2> DEFINE file == "metadata"
  <2>2. v.path = PathOf(j.dir, j.req, file) /\ file # "body" /\ file # "options"
    BY <1>9
  <2> HIDE DEF file
  <2>3. \/ file = "metadata" /\ v.content = Metadata(j.req)
        \/ file = "body" /\ v.content = j.req.body
        \/ file = "options" /\ v.content = [options |-> j.req.options] /\ j.req.options # Empty
    BY <1>5, <2>1, <2>2, FileOfRequest
  <2>4. QED
    BY <2>2, <2>3
<1>11. QED
  BY <1>2, <1>6, <1>7, <1>8, <1>10

\* The requests of a command have both of their parts.
LEMMA RequestsAreWhole == ASSUME NEW t \in Test, command \in Tests[t].commands, NEW j \in ToSet(command.todo)
                          PROVE  WholeRequest(j.req)
BY TestsAssumption

\* A request that is read and of which nothing is missing is the one that was
\* written, but for options that were cut short.
LEMMA ReadIsIntended ==
    ASSUME NEW t \in Test, command \in Tests[t].commands, NEW files, OnlyWanted(files), NEW ct \in ClusterType,
           NEW p \in BodyPaths(files, ct), Readable(files, p), WholeRequest(FileRequest(files, p))
    PROVE  \E r \in Intended(ct) : [r EXCEPT !.options = Empty] = [FileRequest(files, p) EXCEPT !.options = Empty]
<1> DEFINE q == FileRequest(files, p)
           Field == MetadataFields \cup {"body", "options"}
<1>1. PICK j \in ToSet(command.todo) :
          /\ j.dir = ct /\ p = PathOf(j.dir, j.req, "body")
          /\ files[p] \in {j.req.body, Truncated}
          /\ files[At(p, "metadata")] \in {Metadata(j.req), Truncated}
  BY ReadIsWanted
<1>2. q = [field \in Field |-> CASE field = "body" -> files[p]
                                 [] field = "options" -> ReadOptions(files, At(p, "options"))
                                 [] OTHER -> ReadMetadata(files, At(p, "metadata"))[field]]
  BY DEF FileRequest
<1>3. q.action # NoName /\ q.body # Truncated
  BY DEF WholeRequest
<1> HIDE DEF q
<1>4. q.body = files[p] /\ q.action = ReadMetadata(files, At(p, "metadata")).action
  BY <1>2 DEF MetadataFields
<1>5. files[p] = j.req.body
  BY <1>1, <1>3, <1>4
<1>6. ReadMetadata(files, At(p, "metadata")) = Metadata(j.req)
  <2>1. files[At(p, "metadata")] # Truncated
    <3> SUFFICES ASSUME files[At(p, "metadata")] = Truncated PROVE FALSE
      OBVIOUS
    <3>1. ReadMetadata(files, At(p, "metadata")) = [field \in MetadataFields |-> NoName]
      BY DEF ReadMetadata
    <3>2. QED
      BY <1>3, <1>4, <3>1 DEF MetadataFields
  <2>2. QED
    BY <1>1, <2>1 DEF ReadMetadata
<1>7. j.req = [field \in Field |-> j.req[field]]
  BY RequestsAreWhole DEF WholeRequest
<1>8. [q EXCEPT !.options = Empty] = [field \in Field |-> IF field = "options" THEN Empty ELSE j.req[field]]
  <2>1. ASSUME NEW field \in Field, field # "options" PROVE q[field] = j.req[field]
    BY <1>2, <1>5, <1>6, <2>1 DEF Metadata
  <2>2. DOMAIN q = Field
    BY <1>2
  <2> HIDE DEF Field
  <2>3. [q EXCEPT !.options = Empty] = [field \in Field |-> IF field = "options" THEN Empty ELSE q[field]]
    BY <1>2, <2>2
  <2>4. QED
    BY <2>1, <2>3
<1>9. [j.req EXCEPT !.options = Empty] = [field \in Field |-> IF field = "options" THEN Empty ELSE j.req[field]]
  <2> HIDE DEF Field
  <2>1. DOMAIN j.req = Field
    BY <1>7
  <2>2. QED
    BY <1>7, <2>1
<1>10. j.req \in Intended(ct)
  BY <1>1 DEF Intended
<1>11. QED
  BY <1>8, <1>9, <1>10 DEF q

\* A request all of whose files are there is read as it was written.
LEMMA WrittenIsRead ==
    ASSUME NEW t \in Test, command \in Tests[t].commands, NEW files, OnlyWanted(files), HasAllBut(files, {}),
           NEW j \in ToSet(command.todo)
    PROVE  /\ PathOf(j.dir, j.req, "body") \in DOMAIN files
           /\ FileRequest(files, PathOf(j.dir, j.req, "body")) = j.req
<1> DEFINE b == PathOf(j.dir, j.req, "body")
           m == PathOf(j.dir, j.req, "metadata")
           o == PathOf(j.dir, j.req, "options")
           Field == MetadataFields \cup {"body", "options"}
<1>1. ASSUME NEW w \in ToSet(FilesOf(j.dir, j.req)) PROVE w.path \in DOMAIN files /\ files[w.path] = w.content
  <2>1. w \in Wanted
    BY WrittenIs DEF Wanted, FilesToWrite
  <2>2. QED
    BY <2>1 DEF HasAllBut
<1>2. /\ m \in DOMAIN files /\ files[m] = Metadata(j.req)
      /\ b \in DOMAIN files /\ files[b] = j.req.body
      /\ j.req.options # Empty => o \in DOMAIN files /\ files[o] = [options |-> j.req.options]
  <2>1. /\ [path |-> m, content |-> Metadata(j.req)] \in ToSet(FilesOf(j.dir, j.req))
        /\ [path |-> b, content |-> j.req.body] \in ToSet(FilesOf(j.dir, j.req))
        /\ j.req.options # Empty =>
              [path |-> o, content |-> [options |-> j.req.options]] \in ToSet(FilesOf(j.dir, j.req))
    BY FilesOfAre
  <2> HIDE DEF m, b, o
  <2>2. QED
    BY <1>1, <2>1
<1>3. At(b, "metadata") = m /\ At(b, "options") = o
  BY FilePaths
<1>4. ReadMetadata(files, m) = Metadata(j.req)
  BY <1>2, WholeFiles DEF ReadMetadata
<1>5. ReadOptions(files, o) = j.req.options
  <2>1. CASE j.req.options # Empty
    <3>1. o \in DOMAIN files /\ files[o] = [options |-> j.req.options] /\ files[o] # Truncated
      BY <1>2, <2>1, WholeFiles
    <3>2. QED
      BY <3>1 DEF ReadOptions
  <2>2. CASE j.req.options = Empty
    <3>1. SUFFICES ASSUME o \in DOMAIN files PROVE FALSE
      BY <2>2 DEF ReadOptions
    <3>2. PICK w \in Wanted : w.path = o
      BY <3>1 DEF OnlyWanted
    <3>3. QED
      BY <2>2, <3>2, FileOfRequest
  <2>3. QED
    BY <2>1, <2>2
<1>6. FileRequest(files, b) = [field \in Field |-> CASE field = "body" -> j.req.body
                                                    [] field = "options" -> j.req.options
                                                    [] OTHER -> Metadata(j.req)[field]]
  BY <1>2, <1>3, <1>4, <1>5 DEF FileRequest
<1>7. j.req = [field \in Field |-> j.req[field]]
  BY RequestsAreWhole DEF WholeRequest
<1> HIDE DEF b, m, o
<1>8. ASSUME NEW field \in Field PROVE FileRequest(files, b)[field] = j.req[field]
  BY <1>6 DEF Metadata
<1>9. FileRequest(files, b) = j.req
  <2> HIDE DEF Field
  <2>1. FileRequest(files, b) = [field \in Field |-> FileRequest(files, b)[field]]
    BY <1>6
  <2>2. QED
    BY <1>7, <1>8, <2>1
<1>10. QED
  BY <1>2, <1>9 DEF b

\* Who reads back all the files of a command, and no others, reads what it meant to write.
LEMMA AllIsRead ==
    ASSUME NEW t \in Test, command \in Tests[t].commands, NEW files, OnlyWanted(files), HasAllBut(files, {}),
           NEW ct \in ClusterType, ReadsBack(files, ct)
    PROVE  ReadRequests(files, ct) = Intended(ct)
<1>1. ASSUME NEW p \in BodyPaths(files, ct) PROVE FileRequest(files, p) \in Intended(ct)
  <2>1. PICK j \in ToSet(command.todo) : j.dir = ct /\ p = PathOf(j.dir, j.req, "body")
    BY ReadIsWanted DEF ReadsBack
  <2>2. FileRequest(files, p) = j.req
    BY <2>1, WrittenIsRead
  <2>3. QED
    BY <2>1, <2>2 DEF Intended
<1>2. ASSUME NEW j \in ToSet(command.todo), j.dir = ct PROVE j.req \in ReadRequests(files, ct)
  <2> DEFINE p == PathOf(j.dir, j.req, "body")
  <2>1. p \in DOMAIN files /\ FileRequest(files, p) = j.req
    BY WrittenIsRead
  <2>2. p.dir = ct /\ p.file = "body"
    BY <1>2, FilePaths
  <2>3. p \in BodyPaths(files, ct)
    BY <2>1, <2>2 DEF BodyPaths
  <2>4. QED
    BY <2>1, <2>3 DEF ReadRequests
<1>3. QED
  BY <1>1, <1>2 DEF ReadRequests, Intended

-----------------------------------------------------------------------------
(* The theorems.                                                           *)

HarnessInv == HarnessTypes /\ Verdicts /\ OkMeansAllPassed /\ Outcome

\* The invariant all of them rest on: which tests have a verdict, where there
\* can be files, what a command that runs has left, and what a verdict says.
THEOREM HarnessInvariant == HarnessSpec => []HarnessInv
<1>1. HarnessInit => HarnessInv
  <2> SUFFICES ASSUME HarnessInit PROVE HarnessInv
    OBVIOUS
  <2>1. /\ stage = "remove" /\ current = 1 /\ result = "none" /\ removed = FALSE /\ ended = "none"
        /\ verdict = [t \in Test |-> "none"]
    BY DEF HarnessInit
  <2>2. Verdicts
    BY <2>1, TestIs DEF Verdicts
  <2>3. OkMeansAllPassed
    BY <2>1 DEF OkMeansAllPassed
  <2>4. Outcome
    BY <2>1 DEF Outcome, OthersAreEmpty, WhileRunning, AfterRunning, JudgedRight, JustPassed
  <2>5. QED
    BY <2>2, <2>3, <2>4, HarnessTypesStart DEF HarnessInv
<1>2. HarnessInv /\ [HarnessNext]_harnessVars => HarnessInv'
  BY HarnessTypesKept, VerdictsKept, OthersStayEmpty, RunningKept, AfterKept, JudgementKept DEF HarnessInv, Outcome
<1>3. QED
  BY <1>1, <1>2, PTL DEF HarnessSpec

\* Types, for any tests: no test is started, run or judged that is not there,
\* and none without its output directory.
THEOREM HarnessTypeCorrect == HarnessSpec => []HarnessTypeOK
<1>1. HarnessInv => HarnessTypeOK
  BY DEF HarnessInv, HarnessTypes
<1>2. QED
  BY <1>1, HarnessInvariant, PTL

\* Run succeeds only if every test was run and has passed.
THEOREM OkIsAllPassed == HarnessSpec => []OkMeansAllPassed
<1>1. HarnessInv => OkMeansAllPassed
  BY DEF HarnessInv
<1>2. QED
  BY <1>1, HarnessInvariant, PTL

\* Neither cleaning up nor a later test touches the output of a judged test
\* that is to be kept, in whatever way the directories are nested.
THEOREM JudgedIsKept == HarnessSpec => JudgedOutputIsKept
<1>1. HarnessInv /\ [HarnessNext]_harnessVars
        => [\A t \in Test : Kept(t) /\ OutputOf(t) \in DOMAIN disk =>
               OutputOf(t) \in DOMAIN disk' /\ disk'[OutputOf(t)] = disk[OutputOf(t)]]_harnessVars
  BY OutputKept DEF HarnessInv
<1>2. QED
  BY <1>1, HarnessInvariant, PTL DEF HarnessSpec, JudgedOutputIsKept

\* An expected output that was replaced holds nothing but what its command
\* wrote in this run.
THEOREM ReplacedIsFresh == HarnessSpec => []ReplacedOutputIsFresh
<1>1. HarnessInv => ReplacedOutputIsFresh
  <2> SUFFICES ASSUME HarnessInv, JustPassed, policy = Replace, NEW f \in DOMAIN disk[OutputOf(current)]
               PROVE  /\ ended # "none"
                      /\ \E w \in ToSet(WrittenBy(command)) :
                            w.path = f /\ disk[OutputOf(current)][f] \in {w.content, Truncated}
    BY DEF ReplacedOutputIsFresh
  <2>1. AfterRunning /\ stage = "clean" /\ StartsEmpty
    BY DEF HarnessInv, Outcome, JustPassed, StartsEmpty
  <2>2. ended # "none"
    <3>1. disk[OutputOf(current)] # <<>>
      OBVIOUS
    <3>2. QED
      BY <2>1, <3>1 DEF AfterRunning
  <2>3. OnlyWanted(disk[OutputOf(current)])
    BY <2>1, <2>2 DEF AfterRunning
  <2>4. QED
    BY <2>2, <2>3 DEF OnlyWanted, Wanted
<1>2. QED
  BY <1>1, HarnessInvariant, PTL

\* A test passes only if its command ended as the test wants, meant to make
\* what is expected and, if it exited with 0, made exactly that.
THEOREM GenuinePass == HarnessSpec => []PassIsGenuine
<1>1. ASSUME HarnessInv, JustPassed, policy # Replace, removed
      PROVE  LET expected == Tests[current].expected IN
             /\ ended = "zero" <=> Tests[current].desiredError = NoError
             /\ \A ct \in ClusterType :
                   WithoutOptions(RemoveEvents(expected.mutations[ct])) \subseteq WithoutOptions(Intended(ct))
             /\ ended = "zero" =>
                   /\ expected.controllerResults = command.results
                   /\ \A ct \in ClusterType : RemoveEvents(expected.mutations[ct]) = RemoveEvents(Intended(ct))
  <2> DEFINE expected == Tests[current].expected
             files == disk[OutputOf(current)]
             readable == \A ct \in ClusterType : ReadsBack(files, ct)
             found == (IF readable THEN {} ELSE {"mutations"})
                        \cup (IF HasUnexpected(OutputOf(current)) THEN {"unexpected"} ELSE {})
  <2>1. /\ AfterRunning /\ stage = "clean" /\ StartsEmpty /\ current \in Test
        /\ Passes(Result) /\ ~Panics(Result)
    BY <1>1 DEF HarnessInv, HarnessTypes, HarnessTypeOK, Outcome, JudgedRight, JustPassed, StartsEmpty
  <2>2. /\ execErr # "start" /\ (Result.returned # {} => execErr = "exit") /\ expected # Unreadable
        /\ Result.returned # {} <=> Tests[current].desiredError # NoError
        /\ ResultReasons(expected, Result) = {}
    BY <1>1, <2>1 DEF Passes, FailsAtOnce, EndedAsDesired
  <2>3. /\ ended \in {"zero", "nonzero", "killed"} /\ command \in Tests[current].commands
        /\ OnlyWanted(files)
        /\ ended = "zero" => execErr # "exit" /\ HasAllBut(files, {})
        /\ ended # "zero" => execErr = "exit"
    BY <2>1, <2>2 DEF AfterRunning
  <2>4. Result = ResultOf(OutputOf(current), execErr)
    BY DEF Result
  <2>5. /\ Result.returned = found \cup ({execErr} \ {"none"})
        /\ Result.mutations = IF readable THEN [ct \in ClusterType |-> ReadRequests(files, ct)] ELSE Nil
        /\ Result.controllerResults = (IF ResultsFile \notin DOMAIN files \/ files[ResultsFile] = Truncated THEN Nil
                                       ELSE files[ResultsFile])
    BY <2>4 DEF ResultOf
  <2> HIDE DEF files, readable, found, expected
  <2>6. ended = "zero" <=> Tests[current].desiredError = NoError
    <3>1. CASE ended = "zero"
      BY <2>2, <2>3, <3>1
    <3>2. CASE ended # "zero"
      <4>1. "exit" \in Result.returned
        BY <2>3, <2>5, <3>2
      <4>2. QED
        BY <2>2, <3>2, <4>1
    <3>3. QED
      BY <3>1, <3>2
  <2>7. readable
    <3>1. Result.mutations # Nil
      BY <1>1, <2>1, <2>2 DEF Panics, FailsAtOnce, expected
    <3>2. QED
      BY <2>5, <3>1
  <2>8. /\ expected.controllerResults = Result.controllerResults
        /\ \A ct \in ClusterType : RemoveEvents(expected.mutations[ct]) = RemoveEvents(ReadRequests(files, ct))
    <3>1. /\ expected.controllerResults = Result.controllerResults
          /\ \A ct \in ClusterType : RemoveEvents(expected.mutations[ct]) = RemoveEvents(Result.mutations[ct])
      BY <2>2, EquivalentMeansEqual
    <3>2. QED
      BY <2>5, <2>7, <3>1
  <2>9. ASSUME NEW ct \in ClusterType, NEW r \in RemoveEvents(expected.mutations[ct])
        PROVE  \E i \in Intended(ct) : [i EXCEPT !.options = Empty] = [r EXCEPT !.options = Empty]
    <3>1. r \in expected.mutations[ct] /\ r \in ReadRequests(files, ct)
      BY <2>8 DEF RemoveEvents
    <3>2. PICK p \in BodyPaths(files, ct) : r = FileRequest(files, p)
      BY <3>1 DEF ReadRequests
    <3>3. WholeRequest(r)
      BY <2>1, <2>2, <3>1, TestsAssumption DEF expected
    <3>4. Readable(files, p)
      BY <2>7 DEF readable, ReadsBack
    <3>5. QED
      BY <2>1, <2>3, <3>2, <3>3, <3>4, ReadIsIntended
  <2>10. \A ct \in ClusterType :
            WithoutOptions(RemoveEvents(expected.mutations[ct])) \subseteq WithoutOptions(Intended(ct))
    <3> SUFFICES ASSUME NEW ct \in ClusterType, NEW x \in WithoutOptions(RemoveEvents(expected.mutations[ct]))
                 PROVE  x \in WithoutOptions(Intended(ct))
      OBVIOUS
    <3>1. PICK r \in RemoveEvents(expected.mutations[ct]) : x = [r EXCEPT !.options = Empty]
      BY DEF WithoutOptions
    <3>2. PICK i \in Intended(ct) : [i EXCEPT !.options = Empty] = [r EXCEPT !.options = Empty]
      BY <2>9, <3>1
    <3>3. QED
      BY <3>1, <3>2 DEF WithoutOptions
  <2>11. ASSUME ended = "zero" PROVE expected.controllerResults = command.results
    <3>1. ResultsOf(command) \in Wanted
      BY <2>1, <2>3, WrittenIs DEF Wanted
    <3>2. ResultsFile \in DOMAIN files /\ files[ResultsFile] = command.results
      BY <2>3, <2>11, <3>1 DEF HasAllBut, ResultsOf
    <3>3. command.results # Truncated
      BY <2>1, <2>3, TestsAssumption
    <3>4. QED
      BY <2>5, <2>8, <3>2, <3>3
  <2>12. ASSUME ended = "zero", NEW ct \in ClusterType
         PROVE  RemoveEvents(expected.mutations[ct]) = RemoveEvents(Intended(ct))
    <3>1. ReadRequests(files, ct) = Intended(ct)
      BY <2>1, <2>3, <2>7, <2>12, AllIsRead DEF readable
    <3>2. QED
      BY <2>8, <3>1
  <2>13. QED
    BY <2>6, <2>10, <2>11, <2>12 DEF expected
<1>2. HarnessInv => PassIsGenuine
  BY <1>1 DEF PassIsGenuine
<1>3. QED
  BY <1>2, HarnessInvariant, PTL

=============================================================================
