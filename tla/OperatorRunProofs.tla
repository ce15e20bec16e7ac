-------------------------- MODULE OperatorRunProofs --------------------------
(***************************************************************************)
(* Proofs about OperatorRun for every operator, flag, number of informers  *)
(* and number of writes: types, that only enabled controllers run, that    *)
(* their caches are filled, and that what they saw written is returned and *)
(* stays as it was returned.                                               *)
(***************************************************************************)
EXTENDS OperatorRun, FiniteSetTheorems, TLAPS

\* Informers: those waited for are synced, and the loop begins after all.
Waiting ==
    /\ \A i \in 1..waited : i \in synced
    /\ stage = "running" => waited = NumInformers

\* A controller runs in the loop only, and none ran before it.
Looping ==
    /\ running # NoController => stage = "running"
    /\ stage = "informers" => \A n \in Names : outcome[n] = "none"

\* The checks before the loop hold during it, whatever the shuffle did.
Screened == stage = "running" => ~HasDuplicates(registered) /\ FlagsAreKnown(registered)

\* Only enabled controllers run, and only they leave writes, filed or not.
Enabled ==
    /\ \A n \in Names : Ran(n) => Allowed(n)
    /\ \A i \in DOMAIN mutations :
          mutations[i].controller # NoController => Ran(mutations[i].controller)
    /\ \A e \in inFlight : e.controller # NoController => Ran(e.controller)

\* What was acknowledged is in the log, and in what was returned.
Acknowledged ==
    /\ \A a \in acked : a.at \in DOMAIN mutations /\ mutations[a.at] = a.entry
    /\ Returned => \A a \in acked : a.at \in DOMAIN output /\ output[a.at] = a.entry

\* The results tell of the controllers the loop has come to, in its order, and
\* those it has not come to have not run; sorted they are the report.
Reporting ==
    /\ Len(results) = next - 1 /\ next <= Len(registered) + 1
    /\ stage = "informers" => next = 1
    /\ running # NoController => next <= Len(registered) /\ running = registered[next]
    /\ \A i \in DOMAIN results :
          results[i] = [name |-> registered[i], status |-> StatusOf[outcome[registered[i]]]]
    /\ \A i \in next..Len(registered) : outcome[registered[i]] = "none"
    /\ failed = {n \in Names : outcome[n] = "error"}
    /\ rejected => stage = "returned"
    /\ IF Returned THEN next > Len(registered) /\ ~HasDuplicates(registered) /\ report = Canonical(results)
                   ELSE report = <<>>

RunInv == LoopTypeOK /\ Waiting /\ Looping /\ Screened /\ Enabled /\ Acknowledged /\ Reporting

-----------------------------------------------------------------------------
(* Lemmas.                                                                 *)

\* No controller has the empty name.
LEMMA NamesAreNames == Names \subseteq Nat /\ NoController \notin Names
<1>1. ASSUME NEW n \in Names PROVE n \in Nat \ {NoController}
  <2>1. PICK r \in Registrations : n \in ToSet(r)
    BY DEF Names
  <2>2. r \in Seq(Nat \ {NoController})
    BY RegistrationAssumption DEF RegistrationAssumption
  <2>3. QED
    BY <2>1, <2>2 DEF ToSet
<1>2. QED
  BY <1>1

\* The registered controllers are names.
LEMMA RegisteredAreNames == ASSUME NEW r \in Registrations PROVE r \in Seq(Names)
<1>1. r \in Seq(Nat \ {NoController})
  BY RegistrationAssumption DEF RegistrationAssumption
<1>2. \A i \in 1..Len(r) : r[i] \in Names
  BY <1>1 DEF Names, ToSet
<1>3. QED
  BY <1>1, <1>2

\* A list without duplicates has as many elements as places.
LEMMA DistinctCount ==
    ASSUME NEW S, NEW r \in Seq(S), ~HasDuplicates(r)
    PROVE  Cardinality(ToSet(r)) = Len(r)
<1>1. DOMAIN r = 1..Len(r) /\ Len(r) \in Nat
  OBVIOUS
<1>2. r \in [1..Len(r) -> ToSet(r)]
  BY <1>1 DEF ToSet
<1>3. \A i, j \in 1..Len(r) : r[i] = r[j] => i = j
  BY <1>1 DEF HasDuplicates
<1>4. r \in Bijection(1..Len(r), ToSet(r))
  BY <1>1, <1>2, <1>3 DEF Bijection, Injection, Surjection, IsInjective, ToSet
<1>5. IsFiniteSet(1..Len(r)) /\ Cardinality(1..Len(r)) = Len(r)
  BY <1>1, FS_Interval
<1>6. QED
  BY <1>4, <1>5, FS_Bijection DEF ExistsBijection

\* Shuffling a list neither adds nor removes nor repeats an element.
LEMMA ShuffleKeeps ==
    ASSUME NEW S, NEW r \in Seq(S), NEW s \in Shuffle(r)
    PROVE  /\ s \in Seq(S)
           /\ ToSet(s) = ToSet(r)
           /\ ~HasDuplicates(r) => ~HasDuplicates(s)
<1>1. PICK f \in Bijection(DOMAIN r, DOMAIN r) : s = [i \in DOMAIN r |-> r[f[i]]]
  BY DEF Shuffle
<1>2. /\ f \in [DOMAIN r -> DOMAIN r]
      /\ \A i, j \in DOMAIN r : f[i] = f[j] => i = j
      /\ \A j \in DOMAIN r : \E i \in DOMAIN r : f[i] = j
  BY DEF Bijection, Injection, Surjection, IsInjective
<1>3. DOMAIN r = 1..Len(r) /\ Len(r) \in Nat
  OBVIOUS
<1>4. s \in Seq(S) /\ DOMAIN s = DOMAIN r
  BY <1>1, <1>2, <1>3
<1>5. ToSet(s) = ToSet(r)
  BY <1>1, <1>2, <1>4 DEF ToSet
<1>6. ASSUME ~HasDuplicates(r) PROVE ~HasDuplicates(s)
  <2>1. \A i, j \in DOMAIN r : i # j => r[i] # r[j]
    BY <1>3, <1>6 DEF HasDuplicates
  <2>2. \A i, j \in DOMAIN r : i # j => s[i] # s[j]
    BY <1>1, <1>2, <2>1
  <2>3. QED
    BY <1>3, <1>4, <2>2 DEF HasDuplicates
<1>7. QED
  BY <1>4, <1>5, <1>6

\* A controller is enabled only if the flag names it, or has a star and does
\* not exclude it.
LEMMA EnabledByFlag ==
    ASSUME NEW n \in Names, IsEnabled(n)
    PROVE  On(n) \in ToSet(flags) \/ (Star \in ToSet(flags) /\ Off(n) \notin ToSet(flags))
<1>1. CASE \E i \in DOMAIN flags : flags[i] = On(n)
  BY <1>1 DEF ToSet
<1>2. CASE Star \in ToSet(flags) /\ \A i \in DOMAIN flags : ~Mentions(flags[i], n)
  BY <1>2 DEF ToSet, Mentions, Off
<1>3. QED
  BY <1>1, <1>2 DEF IsEnabled

\* Flags that name registered controllers only are those Allowed asks for.
LEMMA KnownFlags ==
    ASSUME NEW r, FlagsAreKnown(r), flags \in FlagLists
    PROVE  \A flag \in ToSet(flags) \ {Star} : flag.name \in ToSet(r)
<1>1. flags \in Seq({Star} \cup [kind: {"on", "off"}, name: Nat])
  BY FlagAssumption DEF FlagAssumption
<1>2. ASSUME NEW flag \in ToSet(flags) \ {Star} PROVE flag.name \in ToSet(r)
  <2>1. PICK i \in DOMAIN flags : flags[i] = flag
    BY DEF ToSet
  <2>2. flag \in [kind: {"on", "off"}, name: Nat]
    BY <1>1, <2>1
  <2>3. flag.kind # "*"
    BY <2>2
  <2>4. QED
    BY <2>1, <2>3 DEF FlagsAreKnown
<1>3. QED
  BY <1>2

\* Sorting keeps the results, and orders them if no name comes twice.
LEMMA CanonicalSorts ==
    ASSUME NEW S, NEW rs \in Seq(S), \A r \in S : r.name \in Nat,
           \A i, j \in DOMAIN rs : i < j => rs[i].name # rs[j].name
    PROVE  /\ Canonical(rs) \in Seq(S)
           /\ DOMAIN Canonical(rs) = DOMAIN rs
           /\ ToSet(Canonical(rs)) = ToSet(rs)
           /\ \A i, j \in DOMAIN rs : i < j => Canonical(rs)[i].name < Canonical(rs)[j].name
<1> DEFINE R == ToSet(rs)
           D == 1..Len(rs)
           rank(r) == Cardinality(Before(rs, r))
<1>1. DOMAIN rs = D /\ Len(rs) \in Nat
  OBVIOUS
<1>2. R \subseteq S /\ \A r \in R : r.name \in Nat
  BY <1>1 DEF ToSet
<1>3. \A i, j \in D : rs[i].name = rs[j].name => i = j
  BY <1>1, <1>2
<1>4. \A q, r \in R : q.name = r.name => q = r
  BY <1>1, <1>3 DEF ToSet
<1>5. IsFiniteSet(R) /\ Cardinality(R) = Len(rs)
  <2>1. rs \in [D -> R]
    BY <1>1 DEF ToSet
  <2>2. rs \in Bijection(D, R)
    BY <1>1, <1>3, <2>1 DEF Bijection, Injection, Surjection, IsInjective, ToSet
  <2>3. IsFiniteSet(D) /\ Cardinality(D) = Len(rs)
    BY <1>1, FS_Interval
  <2>4. QED
    BY <2>2, <2>3, FS_Bijection DEF ExistsBijection
<1>6. \A r \in R : IsFiniteSet(Before(rs, r)) /\ rank(r) \in Nat /\ rank(r) < Len(rs)
  <2> SUFFICES ASSUME NEW r \in R
               PROVE  IsFiniteSet(Before(rs, r)) /\ rank(r) \in Nat /\ rank(r) < Len(rs)
    OBVIOUS
  <2>1. Before(rs, r) \subseteq R /\ r \notin Before(rs, r)
    BY <1>2 DEF Before
  <2>2. IsFiniteSet(Before(rs, r)) /\ rank(r) <= Len(rs) /\ rank(r) # Len(rs)
    BY <1>5, <2>1, FS_Subset
  <2>3. rank(r) \in Nat
    BY <2>2, FS_CardinalityType
  <2>4. QED
    BY <1>1, <2>2, <2>3
<1>7. \A q, r \in R : q.name < r.name => rank(q) < rank(r)
  <2> SUFFICES ASSUME NEW q \in R, NEW r \in R, q.name < r.name
               PROVE  rank(q) < rank(r)
    OBVIOUS
  <2>1. Before(rs, q) \subseteq Before(rs, r)
    BY <1>2 DEF Before
  <2>2. q \in Before(rs, r) /\ q \notin Before(rs, q)
    BY <1>2 DEF Before
  <2>3. rank(q) <= rank(r) /\ rank(q) # rank(r)
    BY <1>6, <2>1, <2>2, FS_Subset
  <2>4. QED
    BY <1>6, <2>3
<1> HIDE DEF rank
<1>8. \A q, r \in R : rank(q) = rank(r) => q = r
  BY <1>2, <1>4, <1>6, <1>7
<1>9. \A i \in D : \E r \in R : rank(r) = i - 1
  <2> DEFINE place == [k \in D |-> rank(rs[k]) + 1]
  <2>1. \A k \in D : rs[k] \in R
    BY <1>1 DEF ToSet
  <2>2. place \in [D -> D]
    BY <1>1, <1>6, <2>1
  <2>3. place \in Injection(D, D)
    <3>1. ASSUME NEW i \in D, NEW j \in D, place[i] = place[j] PROVE i = j
      <4>1. rank(rs[i]) = rank(rs[j])
        BY <1>6, <2>1, <3>1
      <4>2. QED
        BY <1>3, <1>8, <2>1, <4>1
    <3>2. QED
      BY <2>2, <3>1 DEF Injection, IsInjective
  <2>4. place \in Surjection(D, D)
    BY <1>1, <2>3, FS_Interval, FS_Injection
  <2>5. ASSUME NEW i \in D PROVE \E r \in R : rank(r) = i - 1
    <3>1. PICK k \in D : place[k] = i
      BY <2>4 DEF Surjection
    <3>2. rank(rs[k]) = i - 1
      BY <1>6, <2>1, <3>1
    <3>3. QED
      BY <2>1, <3>2
  <2>6. QED
    BY <2>5
<1> DEFINE c == Canonical(rs)
<1>10. DOMAIN c = D /\ \A i \in D : c[i] = CHOOSE r \in R : rank(r) = i - 1
  BY <1>1 DEF Canonical, rank
<1>11. \A i \in D : c[i] \in R /\ rank(c[i]) = i - 1
  BY <1>9, <1>10
<1> HIDE DEF c
<1>12. c \in Seq(S)
  <2>1. c = [i \in D |-> c[i]]
    BY <1>1 DEF Canonical, c
  <2>2. QED
    BY <1>1, <1>2, <1>11, <2>1
<1>13. ToSet(c) = R
  <2>1. ASSUME NEW r \in R PROVE \E i \in D : c[i] = r
    <3>1. rank(r) + 1 \in D
      BY <1>1, <1>6
    <3>2. rank(c[rank(r) + 1]) = rank(r)
      BY <1>6, <1>11, <3>1
    <3>3. QED
      BY <1>8, <1>11, <3>1, <3>2
  <2>2. ToSet(c) = {c[i] : i \in D}
    BY <1>10 DEF ToSet
  <2> HIDE DEF R
  <2>3. QED
    BY <1>11, <2>1, <2>2
<1>14. ASSUME NEW i \in D, NEW j \in D, i < j PROVE c[i].name < c[j].name
  <2>1. rank(c[i]) < rank(c[j])
    BY <1>11, <1>14
  <2>2. c[i].name # c[j].name /\ ~(c[j].name < c[i].name)
    BY <1>4, <1>6, <1>7, <1>11, <2>1
  <2>3. QED
    BY <1>2, <1>11, <2>2
<1>15. QED
  BY <1>1, <1>10, <1>12, <1>13, <1>14 DEF c
-----------------------------------------------------------------------------
(* The invariant.                                                          *)

\* The invariant of RunOnce holds at the start.
LEMMA RunInvInit == Init => RunInv
<1> SUFFICES ASSUME Init PROVE RunInv
  OBVIOUS
<1> USE DEF Init
<1>1. LoopTypeOK
  <2>1. registered \in Seq(Names)
    BY RegisteredAreNames
  <2>2. /\ started \in 0..NumInformers /\ waited \in 0..NumInformers /\ begun \in 0..MaxWrites
        /\ synced \subseteq 1..NumInformers
    BY BoundAssumption DEF BoundAssumption
  <2>3. outcome \in [Names -> {"none", "ok", "error", "panic"}]
    OBVIOUS
  <2>4. results \in Seq(Result) /\ mutations \in Seq(Entry) /\ output \in Seq(Entry)
    OBVIOUS
  <2>5. stage \in {"informers", "running", "returned"} /\ next \in Nat \ {0}
    OBVIOUS
  <2>6. QED
    BY <2>1, <2>2, <2>3, <2>4, <2>5 DEF LoopTypeOK
<1>2. Waiting /\ Looping /\ Screened /\ Acknowledged
  BY DEF Waiting, Looping, Screened, Acknowledged, Returned
<1>3. Enabled
  BY NamesAreNames DEF Enabled, Ran
<1>4. Reporting
  <2>1. \A i \in 1..Len(registered) : registered[i] \in Names
    BY <1>1 DEF LoopTypeOK
  <2>2. Len(registered) \in Nat
    BY <1>1 DEF LoopTypeOK
  <2>3. QED
    BY <2>1, <2>2 DEF Reporting, Returned
<1>5. QED
  BY <1>1, <1>2, <1>3, <1>4 DEF RunInv

\* Types, step by step.
LEMMA TypesStep == RunInv /\ [Next]_vars => LoopTypeOK'
<1> SUFFICES ASSUME RunInv, [Next]_vars PROVE LoopTypeOK'
  OBVIOUS
<1> USE NamesAreNames, BoundAssumption DEF BoundAssumption, RunInv, LoopTypeOK
<1> USE DEF informerVars, loopVars, writeVars, returnVars
<1>1. CASE StartInformer
  BY <1>1 DEF StartInformer
<1>2. CASE WaitForCacheSync
  BY <1>2 DEF WaitForCacheSync
<1>3. CASE Reject
  BY <1>3 DEF Reject
<1>4. CASE StartLoop
  <2>1. registered' \in Seq(Names)
    BY <1>4, ShuffleKeeps DEF StartLoop
  <2>2. QED
    BY <1>4, <2>1 DEF StartLoop
<1>5. CASE \E i \in 1..NumInformers : CacheSyncs(i)
  BY <1>5 DEF CacheSyncs
<1>6. CASE SkipController
  <2>1. registered[next] \in Names
    BY <1>6 DEF SkipController, InLoop
  <2>2. [name |-> registered[next], status |-> "Skipped"] \in Result
    BY <2>1 DEF Result, Status
  <2>3. results' \in Seq(Result) /\ next' \in Nat \ {0}
    BY <1>6, <2>2 DEF SkipController
  <2>4. QED
    BY <1>6, <2>3 DEF SkipController
<1>7. CASE BeginController
  <2>1. registered[next] \in Names
    BY <1>7 DEF BeginController, InLoop
  <2>2. QED
    BY <1>7, <2>1 DEF BeginController
<1>8. CASE ReturnResults
  BY <1>8 DEF ReturnResults
<1>9. CASE Deadline
  BY <1>9 DEF Deadline
<1>10. ASSUME NEW c \in Names \cup {NoController}, NEW w \in Write, SyncWrite(c, w) PROVE LoopTypeOK'
  <2>1. [controller |-> c, write |-> w] \in Entry
    BY DEF Entry
  <2>2. mutations' = Append(mutations, [controller |-> c, write |-> w]) /\ mutations' \in Seq(Entry)
    BY <1>10, <2>1 DEF SyncWrite
  <2>3. Len(mutations) + 1 \in Nat
    OBVIOUS
  <2>4. [at |-> Len(mutations) + 1, entry |-> [controller |-> c, write |-> w]] \in [at: Nat, entry: Entry]
    BY <2>1, <2>3
  <2>5. acked' \subseteq [at: Nat, entry: Entry]
    BY <1>10, <2>4 DEF SyncWrite
  <2>6. begun' \in 0..MaxWrites
    BY <1>10 DEF SyncWrite
  <2>7. QED
    BY <1>10, <2>2, <2>5, <2>6 DEF SyncWrite
<1>11. ASSUME NEW c \in Names \cup {NoController}, NEW w \in Write, SpawnWrite(c, w) PROVE LoopTypeOK'
  <2>1. [controller |-> c, write |-> w] \in Entry
    BY DEF Entry
  <2>2. inFlight' \subseteq Entry /\ begun' \in 0..MaxWrites
    BY <1>11, <2>1 DEF SpawnWrite
  <2>3. QED
    BY <1>11, <2>2 DEF SpawnWrite
<1>12. ASSUME NEW how \in {"ok", "error", "panic"}, ControllerEnds(how) PROVE LoopTypeOK'
  <2>1. running \in Names
    BY <1>12 DEF ControllerEnds
  <2>2. StatusFor(how) \in Status
    BY DEF StatusFor, Status
  <2>3. [name |-> running, status |-> StatusFor(how)] \in Result
    BY <2>1, <2>2 DEF Result
  <2>4. results' \in Seq(Result) /\ next' \in Nat \ {0}
    BY <1>12, <2>3 DEF ControllerEnds
  <2>5. failed' \subseteq Names
    BY <1>12, <2>1 DEF ControllerEnds
  <2>6. outcome' \in [Names -> {"none", "ok", "error", "panic"}]
    BY <1>12, <2>1 DEF ControllerEnds
  <2>7. QED
    BY <1>12, <2>4, <2>5, <2>6 DEF ControllerEnds
<1>13. ASSUME NEW e \in inFlight, GoroutineRecords(e) PROVE LoopTypeOK'
  <2>1. mutations' \in Seq(Entry) /\ inFlight' \subseteq Entry
    BY <1>13 DEF GoroutineRecords
  <2>2. QED
    BY <1>13, <2>1 DEF GoroutineRecords
<1>14. CASE UNCHANGED vars
  BY <1>14 DEF vars
<1>15. CASE Finished
  BY <1>14, <1>15 DEF Finished
<1>16. QED
  BY <1>1, <1>2, <1>3, <1>4, <1>5, <1>6, <1>7, <1>8, <1>9, <1>10, <1>11, <1>12, <1>13, <1>14, <1>15
     DEF Next, Loop, Controller

\* Waiting, Looping and Screened, step by step.
LEMMA StagesStep == RunInv /\ [Next]_vars => (Waiting /\ Looping /\ Screened)'
<1> SUFFICES ASSUME RunInv, [Next]_vars PROVE (Waiting /\ Looping /\ Screened)'
  OBVIOUS
<1> USE DEF RunInv, Waiting, Looping, Screened, informerVars, loopVars, writeVars, returnVars
<1>0. NoController \notin Names /\ next \in Nat /\ waited \in 0..NumInformers /\ NumInformers \in Nat
  BY NamesAreNames, BoundAssumption DEF LoopTypeOK, BoundAssumption
<1>1. CASE StartInformer
  BY <1>1 DEF StartInformer, FlagsAreKnown
<1>2. CASE WaitForCacheSync
  <2>1. \A i \in 1..waited' : i \in synced'
    BY <1>0, <1>2 DEF WaitForCacheSync
  <2>2. QED
    BY <1>2, <2>1 DEF WaitForCacheSync
<1>3. CASE Reject
  BY <1>3 DEF Reject, CachesReady
<1>4. CASE StartLoop
  <2>1. registered' \in Shuffle(registered) /\ registered \in Seq(Names)
    BY <1>4 DEF StartLoop, LoopTypeOK
  <2>2. ToSet(registered') = ToSet(registered) /\ ~HasDuplicates(registered')
    BY <1>4, <2>1, ShuffleKeeps DEF StartLoop
  <2>3. FlagsAreKnown(registered)'
    BY <1>4, <2>2 DEF StartLoop, FlagsAreKnown
  <2>4. QED
    BY <1>4, <2>2, <2>3 DEF StartLoop, CachesReady
<1>5. CASE \E i \in 1..NumInformers : CacheSyncs(i)
  BY <1>5 DEF CacheSyncs, FlagsAreKnown
<1>6. CASE SkipController
  BY <1>6 DEF SkipController, InLoop, FlagsAreKnown
<1>7. CASE BeginController
  BY <1>7 DEF BeginController, InLoop, FlagsAreKnown
<1>8. CASE ReturnResults
  BY <1>8 DEF ReturnResults
<1>9. CASE Deadline
  BY <1>9 DEF Deadline, FlagsAreKnown
<1>10. CASE \E c \in Names \cup {NoController}, w \in Write : SyncWrite(c, w) \/ SpawnWrite(c, w)
  BY <1>10 DEF SyncWrite, SpawnWrite, FlagsAreKnown
<1>11. CASE \E how \in {"ok", "error", "panic"} : ControllerEnds(how)
  BY <1>11 DEF ControllerEnds, FlagsAreKnown
<1>12. CASE \E e \in inFlight : GoroutineRecords(e)
  BY <1>12 DEF GoroutineRecords, FlagsAreKnown
<1>13. CASE UNCHANGED vars
  BY <1>13 DEF vars, FlagsAreKnown
<1>14. CASE Finished
  BY <1>13, <1>14 DEF Finished
<1>15. QED
  BY <1>1, <1>2, <1>3, <1>4, <1>5, <1>6, <1>7, <1>8, <1>9, <1>10, <1>11, <1>12, <1>13, <1>14
     DEF Next, Loop, Controller

\* A step that runs no other controller and files no write keeps Enabled,
\* whatever else it does.
LEMMA EnabledKept ==
    ASSUME RunInv, UNCHANGED <<registered, flags, running, outcome, mutations, inFlight>>
    PROVE  Enabled'
BY DEF RunInv, Enabled, Ran, Allowed

\* Every write, filed or not, carries a name or none.
LEMMA EntriesAreNamed ==
    RunInv => /\ \A i \in DOMAIN mutations : mutations[i].controller \in Names \cup {NoController}
              /\ \A e \in inFlight : e.controller \in Names \cup {NoController}
<1> SUFFICES ASSUME RunInv PROVE /\ \A i \in DOMAIN mutations : mutations[i].controller \in Names \cup {NoController}
                                 /\ \A e \in inFlight : e.controller \in Names \cup {NoController}
  OBVIOUS
<1>1. mutations \in Seq(Entry) /\ inFlight \subseteq Entry
  BY DEF RunInv, LoopTypeOK
<1>2. \A i \in DOMAIN mutations : mutations[i] \in Entry
  BY <1>1
<1>3. QED
  BY <1>1, <1>2 DEF Entry

\* Every step keeps what is said of enabled controllers.
LEMMA EnabledStep == RunInv /\ [Next]_vars => Enabled'
<1> SUFFICES ASSUME RunInv, [Next]_vars PROVE Enabled'
  OBVIOUS
<1> USE DEF informerVars, loopVars, writeVars, returnVars
<1>0. /\ NoController \notin Names /\ registered \in Seq(Names) /\ mutations \in Seq(Entry)
      /\ outcome \in [Names -> {"none", "ok", "error", "panic"}] /\ running \in Names \cup {NoController}
  BY NamesAreNames DEF RunInv, LoopTypeOK
<1>1. CASE StartInformer
  BY <1>1, EnabledKept DEF StartInformer
<1>2. CASE WaitForCacheSync
  BY <1>2, EnabledKept DEF WaitForCacheSync
<1>3. CASE Reject
  BY <1>3, EnabledKept DEF Reject
<1>4. CASE StartLoop
  <2>1. running = NoController /\ \A n \in Names : outcome[n] = "none"
    BY <1>4 DEF StartLoop, CachesReady, RunInv, Looping
  <2>2. \A n \in Names : ~Ran(n)'
    BY <1>0, <1>4, <2>1 DEF Ran, StartLoop
  <2>3. \A i \in DOMAIN mutations : mutations[i].controller \in Names \cup {NoController}
    BY EntriesAreNamed
  <2>4. \A n \in Names : ~Ran(n)
    BY <1>0, <2>1 DEF Ran
  <2>5. \A e \in inFlight : e.controller \in Names \cup {NoController}
    BY EntriesAreNamed
  <2>6. QED
    BY <1>4, <2>2, <2>3, <2>4, <2>5 DEF StartLoop, RunInv, Enabled
<1>5. CASE \E i \in 1..NumInformers : CacheSyncs(i)
  BY <1>5, EnabledKept DEF CacheSyncs
<1>6. CASE SkipController
  BY <1>6, EnabledKept DEF SkipController
<1>7. CASE BeginController
  <2> DEFINE n == registered[next]
  <2>1. n \in Names
    BY <1>0, <1>7 DEF BeginController, InLoop, RunInv, LoopTypeOK
  <2>2. On(n) \in ToSet(flags) \/ (Star \in ToSet(flags) /\ Off(n) \notin ToSet(flags))
    BY <1>7, <2>1, EnabledByFlag DEF BeginController
  <2>3. ~HasDuplicates(registered) /\ FlagsAreKnown(registered)
    BY <1>7 DEF BeginController, InLoop, RunInv, Screened
  <2>4. Cardinality(ToSet(registered)) = Len(registered)
    BY <1>0, <2>3, DistinctCount
  <2>5. \A flag \in ToSet(flags) \ {Star} : flag.name \in ToSet(registered)
    BY <2>3, KnownFlags DEF RunInv, LoopTypeOK
  <2>6. Allowed(n)
    BY <2>2, <2>4, <2>5 DEF Allowed
  <2>7. \A m \in Names : Ran(m)' <=> Ran(m) \/ m = n
    BY <1>7, <2>1, <1>0 DEF BeginController, InLoop, Ran
  <2>8. \A m \in Names : Allowed(m)' <=> Allowed(m)
    BY <1>7 DEF BeginController, Allowed
  <2>9. \A i \in DOMAIN mutations : mutations[i].controller \in Names \cup {NoController}
    BY EntriesAreNamed
  <2>10. \A e \in inFlight : e.controller \in Names \cup {NoController}
    BY EntriesAreNamed
  <2>11. QED
    BY <1>7, <2>6, <2>7, <2>8, <2>9, <2>10 DEF BeginController, RunInv, Enabled
<1>8. CASE ReturnResults
  BY <1>8, EnabledKept DEF ReturnResults
<1>9. CASE Deadline
  BY <1>9, EnabledKept DEF Deadline
<1>10. ASSUME NEW c \in Names \cup {NoController}, NEW w \in Write, SyncWrite(c, w) PROVE Enabled'
  <2> DEFINE entry == [controller |-> c, write |-> w]
  <2>1. mutations' = Append(mutations, entry)
    BY <1>10 DEF SyncWrite
  <2>2. c = NoController \/ Ran(c)
    BY <1>10 DEF SyncWrite, LiveContexts, Ran
  <2>3. \A i \in DOMAIN mutations' : mutations'[i] = entry \/ (i \in DOMAIN mutations /\ mutations'[i] = mutations[i])
    BY <1>0, <2>1
  <2>4. \A n : Ran(n)' <=> Ran(n)
    BY <1>10 DEF SyncWrite, Ran
  <2>5. \A n : Allowed(n)' <=> Allowed(n)
    BY <1>10 DEF SyncWrite, Allowed
  <2>6. inFlight' = inFlight
    BY <1>10 DEF SyncWrite
  <2>7. QED
    BY <2>2, <2>3, <2>4, <2>5, <2>6 DEF RunInv, Enabled
<1>11. ASSUME NEW c \in Names \cup {NoController}, NEW w \in Write, SpawnWrite(c, w) PROVE Enabled'
  <2>1. inFlight' = inFlight \cup {[controller |-> c, write |-> w]} /\ mutations' = mutations
    BY <1>11 DEF SpawnWrite
  <2>2. c = NoController \/ Ran(c)
    BY <1>11 DEF SpawnWrite, LiveContexts, Ran
  <2>3. \A n : Ran(n)' <=> Ran(n)
    BY <1>11 DEF SpawnWrite, Ran
  <2>4. \A n : Allowed(n)' <=> Allowed(n)
    BY <1>11 DEF SpawnWrite, Allowed
  <2>5. QED
    BY <2>1, <2>2, <2>3, <2>4 DEF RunInv, Enabled
<1>12. ASSUME NEW how \in {"ok", "error", "panic"}, ControllerEnds(how) PROVE Enabled'
  <2>1. running \in Names
    BY <1>0, <1>12 DEF ControllerEnds
  <2>2. \A n \in Names : Ran(n)' <=> Ran(n)
    BY <1>0, <1>12, <2>1 DEF ControllerEnds, Ran
  <2>3. \A n : Allowed(n)' <=> Allowed(n)
    BY <1>12 DEF ControllerEnds, Allowed
  <2>4. mutations' = mutations /\ inFlight' = inFlight
    BY <1>12 DEF ControllerEnds
  <2>5. \A i \in DOMAIN mutations : mutations[i].controller \in Names \cup {NoController}
    BY EntriesAreNamed
  <2>6. \A e \in inFlight : e.controller \in Names \cup {NoController}
    BY EntriesAreNamed
  <2>7. QED
    BY <2>2, <2>3, <2>4, <2>5, <2>6 DEF RunInv, Enabled
<1>13. ASSUME NEW e \in inFlight, GoroutineRecords(e) PROVE Enabled'
  <2>1. mutations' = Append(mutations, e) /\ inFlight' = inFlight \ {e}
    BY <1>13 DEF GoroutineRecords
  <2>2. e \in Entry
    BY DEF RunInv, LoopTypeOK
  <2>3. \A i \in DOMAIN mutations' : mutations'[i] = e \/ (i \in DOMAIN mutations /\ mutations'[i] = mutations[i])
    BY <1>0, <2>1, <2>2
  <2>4. \A n : Ran(n)' <=> Ran(n)
    BY <1>13 DEF GoroutineRecords, Ran
  <2>5. \A n : Allowed(n)' <=> Allowed(n)
    BY <1>13 DEF GoroutineRecords, Allowed
  <2>6. QED
    BY <2>1, <2>3, <2>4, <2>5 DEF RunInv, Enabled
<1>14. CASE UNCHANGED vars
  BY <1>14, EnabledKept DEF vars
<1>15. CASE Finished
  BY <1>14, <1>15 DEF Finished
<1>16. QED
  BY <1>1, <1>2, <1>3, <1>4, <1>5, <1>6, <1>7, <1>8, <1>9, <1>10, <1>11, <1>12, <1>13, <1>14, <1>15
     DEF Next, Loop, Controller

\* A step that files no write keeps Acknowledged, unless RunOnce returns in it.
LEMMA AcknowledgedKept ==
    ASSUME RunInv, UNCHANGED <<mutations, acked, output>>,
           (stage' = stage /\ rejected' = rejected) \/ ~Returned'
    PROVE  Acknowledged'
BY DEF RunInv, Acknowledged, Returned

\* Every step keeps what is said of acknowledged writes.
LEMMA AcknowledgedStep == RunInv /\ [Next]_vars => Acknowledged'
<1> SUFFICES ASSUME RunInv, [Next]_vars PROVE Acknowledged'
  OBVIOUS
<1> USE DEF informerVars, loopVars, writeVars, returnVars
<1>0. mutations \in Seq(Entry) /\ Acknowledged /\ acked \subseteq [at: Nat, entry: Entry]
  BY DEF RunInv, LoopTypeOK
<1>1. CASE StartInformer
  BY <1>1, AcknowledgedKept DEF StartInformer
<1>2. CASE WaitForCacheSync
  BY <1>2, AcknowledgedKept DEF WaitForCacheSync
<1>3. CASE Reject
  BY <1>3, AcknowledgedKept DEF Reject, Returned
<1>4. CASE StartLoop
  BY <1>4, AcknowledgedKept DEF StartLoop, Returned
<1>5. CASE \E i \in 1..NumInformers : CacheSyncs(i)
  BY <1>5, AcknowledgedKept DEF CacheSyncs
<1>6. CASE SkipController \/ BeginController
  BY <1>6, AcknowledgedKept DEF SkipController, BeginController
<1>7. CASE ReturnResults
  BY <1>0, <1>7 DEF ReturnResults, Acknowledged
<1>8. CASE Deadline
  BY <1>8, AcknowledgedKept DEF Deadline
<1>9. ASSUME NEW c \in Names \cup {NoController}, NEW w \in Write, SyncWrite(c, w) PROVE Acknowledged'
  <2> DEFINE entry == [controller |-> c, write |-> w]
  <2>1. ~Returned'
    BY <1>9 DEF SyncWrite, RunInv, Looping, Returned
  <2>2. mutations' = Append(mutations, entry) /\ acked' = acked \cup {[at |-> Len(mutations) + 1, entry |-> entry]}
    BY <1>9 DEF SyncWrite
  <2>3. \A i \in DOMAIN mutations : i \in DOMAIN mutations' /\ mutations'[i] = mutations[i]
    BY <1>0, <2>2
  <2>4. Len(mutations) + 1 \in DOMAIN mutations' /\ mutations'[Len(mutations) + 1] = entry
    BY <1>0, <2>2
  <2>5. QED
    BY <1>0, <2>1, <2>2, <2>3, <2>4 DEF Acknowledged
<1>10. ASSUME NEW c \in Names \cup {NoController}, NEW w \in Write, SpawnWrite(c, w) PROVE Acknowledged'
  BY <1>10, AcknowledgedKept DEF SpawnWrite
<1>11. CASE \E how \in {"ok", "error", "panic"} : ControllerEnds(how)
  BY <1>11, AcknowledgedKept DEF ControllerEnds
<1>12. ASSUME NEW e \in inFlight, GoroutineRecords(e) PROVE Acknowledged'
  <2>1. mutations' = Append(mutations, e) /\ acked' = acked /\ output' = output /\ (Returned' <=> Returned)
    BY <1>12 DEF GoroutineRecords, Returned
  <2>2. \A i \in DOMAIN mutations : i \in DOMAIN mutations' /\ mutations'[i] = mutations[i]
    BY <1>0, <2>1
  <2>3. QED
    BY <1>0, <2>1, <2>2 DEF Acknowledged
<1>13. CASE UNCHANGED vars
  BY <1>13, AcknowledgedKept DEF vars
<1>14. CASE Finished
  BY <1>13, <1>14 DEF Finished
<1>15. QED
  BY <1>1, <1>2, <1>3, <1>4, <1>5, <1>6, <1>7, <1>8, <1>9, <1>10, <1>11, <1>12, <1>13, <1>14
     DEF Next, Loop, Controller

\* A step of the informers, of a clock or of a write keeps Reporting.
LEMMA ReportingKept ==
    ASSUME RunInv, UNCHANGED <<registered, next, running, results, failed, outcome, rejected, report>>,
           stage' = stage
    PROVE  Reporting'
BY DEF RunInv, Reporting, Returned, HasDuplicates

\* The loop reports on the next controller and goes on.
LEMMA ReportingAppended ==
    ASSUME RunInv, stage = "running", next <= Len(registered),
           NEW how \in {"none", "ok", "error", "panic"},
           results' = Append(results, [name |-> registered[next], status |-> StatusOf[how]]),
           outcome' = [outcome EXCEPT ![registered[next]] = how],
           failed' = IF how = "error" THEN failed \cup {registered[next]} ELSE failed,
           next' = next + 1, running' = NoController,
           UNCHANGED <<registered, stage, rejected, report>>
    PROVE  Reporting'
<1> DEFINE n == registered[next]
<1>1. /\ registered \in Seq(Names) /\ results \in Seq(Result) /\ next \in Nat \ {0} /\ n \in Names
      /\ outcome \in [Names -> {"none", "ok", "error", "panic"}]
  BY DEF RunInv, LoopTypeOK
<1>2. ~HasDuplicates(registered)
  BY DEF RunInv, Screened
<1>3. \A i \in 1..Len(registered) : i # next => registered[i] # n
  BY <1>1, <1>2 DEF HasDuplicates
<1>4. \A i \in 1..Len(registered) : registered[i] \in Names
  BY <1>1
<1>5. \A i \in 1..Len(registered) : outcome'[registered[i]] = IF i = next THEN how ELSE outcome[registered[i]]
  BY <1>1, <1>3, <1>4
<1>6. /\ Len(results) = next - 1
      /\ \A i \in 1..(next - 1) :
            results[i] = [name |-> registered[i], status |-> StatusOf[outcome[registered[i]]]]
  BY <1>1 DEF RunInv, Reporting
<1>7. Len(results') = next /\ results'[next] = [name |-> n, status |-> StatusOf[how]]
      /\ \A i \in 1..(next - 1) : results'[i] = results[i]
  <2> DEFINE r == [name |-> n, status |-> StatusOf[how]]
  <2>1. r \in Result
    BY <1>1 DEF Result, Status, StatusOf
  <2>2. results' = Append(results, r)
    OBVIOUS
  <2> HIDE DEF r
  <2>3. Len(results') = next /\ results'[next] = r /\ \A i \in 1..(next - 1) : results'[i] = results[i]
    BY <1>1, <1>6, <2>1, <2>2
  <2>4. QED
    BY <2>3 DEF r
<1>8. \A i \in 1..next : results'[i] = [name |-> registered[i], status |-> StatusOf[outcome'[registered[i]]]]
  BY <1>1, <1>5, <1>6, <1>7
<1>9. \A i \in next'..Len(registered) : outcome'[registered[i]] = "none"
  <2>1. \A i \in next..Len(registered) : outcome[registered[i]] = "none"
    BY DEF RunInv, Reporting
  <2>2. QED
    BY <1>1, <1>5, <2>1
<1>10. failed' = {m \in Names : outcome'[m] = "error"}
  <2>1. failed = {m \in Names : outcome[m] = "error"} /\ outcome[n] = "none"
    BY <1>1 DEF RunInv, Reporting
  <2>2. \A m \in Names : outcome'[m] = IF m = n THEN how ELSE outcome[m]
    BY <1>1
  <2>3. QED
    BY <1>1, <2>1, <2>2
<1>11. /\ stage' = "running" /\ ~Returned' /\ ~rejected' /\ report' = <<>>
  BY DEF RunInv, Reporting, Returned
<1>12. DOMAIN results' = 1..next
  <2>1. results' \in Seq(Result \cup {[name |-> n, status |-> StatusOf[how]]})
    BY <1>1
  <2>2. QED
    BY <1>7, <2>1
<1>13. registered' = registered /\ running' = NoController /\ next' = next + 1
  OBVIOUS
<1>14. QED
  BY <1>1, <1>7, <1>8, <1>9, <1>10, <1>11, <1>12, <1>13 DEF Reporting

\* Every step keeps what is said of results and report.
LEMMA ReportingStep == RunInv /\ [Next]_vars => Reporting'
<1> SUFFICES ASSUME RunInv, [Next]_vars PROVE Reporting'
  OBVIOUS
<1> USE DEF informerVars, loopVars, writeVars, returnVars
<1>0. /\ NoController \notin Names /\ registered \in Seq(Names) /\ next \in Nat \ {0} /\ results \in Seq(Result)
      /\ outcome \in [Names -> {"none", "ok", "error", "panic"}] /\ running \in Names \cup {NoController}
  BY NamesAreNames DEF RunInv, LoopTypeOK
<1>1. CASE StartInformer
  BY <1>1, ReportingKept DEF StartInformer
<1>2. CASE WaitForCacheSync
  BY <1>2, ReportingKept DEF WaitForCacheSync
<1>3. CASE Reject
  <2>1. Reporting /\ ~Returned /\ ~Returned'
    BY <1>3 DEF Reject, CachesReady, RunInv, Returned
  <2>2. QED
    BY <1>3, <2>1 DEF Reject, Reporting
<1>4. CASE StartLoop
  <2>1. registered' \in Seq(Names) /\ Len(registered') = Len(registered)
    BY <1>0, <1>4, ShuffleKeeps DEF StartLoop, Shuffle
  <2>2. /\ next = 1 /\ running = NoController /\ ~Returned /\ ~Returned' /\ ~rejected
        /\ \A n \in Names : outcome[n] = "none"
    BY <1>4 DEF StartLoop, CachesReady, RunInv, Looping, Reporting, Returned
  <2>3. results = <<>>
    BY <1>0, <2>2 DEF RunInv, Reporting
  <2>4. \A i \in 1..Len(registered') : registered'[i] \in Names
    BY <2>1
  <2>5. QED
    BY <1>0, <1>4, <2>1, <2>2, <2>3, <2>4 DEF StartLoop, RunInv, Reporting
<1>5. CASE \E i \in 1..NumInformers : CacheSyncs(i)
  BY <1>5, ReportingKept DEF CacheSyncs
<1>6. CASE SkipController
  <2>1. registered[next] \in Names /\ outcome[registered[next]] = "none"
    BY <1>0, <1>6 DEF SkipController, InLoop, RunInv, Reporting
  <2>2. outcome' = [outcome EXCEPT ![registered[next]] = "none"]
    BY <1>0, <1>6, <2>1 DEF SkipController
  <2>3. results' = Append(results, [name |-> registered[next], status |-> StatusOf["none"]])
    BY <1>6 DEF SkipController, StatusOf
  <2>4. QED
    BY <1>6, <2>2, <2>3, ReportingAppended DEF SkipController, InLoop
<1>7. CASE BeginController
  <2>1. Reporting /\ ~Returned /\ ~Returned'
    BY <1>7 DEF BeginController, InLoop, RunInv, Returned
  <2>2. QED
    BY <1>7, <2>1 DEF BeginController, InLoop, Reporting
<1>8. CASE ReturnResults
  <2>1. Reporting /\ ~rejected /\ Returned' /\ ~HasDuplicates(registered)
    BY <1>8 DEF ReturnResults, RunInv, Screened, Reporting, Returned
  <2>2. QED
    BY <1>8, <2>1 DEF ReturnResults, Reporting, HasDuplicates
<1>9. CASE Deadline
  BY <1>9, ReportingKept DEF Deadline
<1>10. CASE \E c \in Names \cup {NoController}, w \in Write : SyncWrite(c, w) \/ SpawnWrite(c, w)
  BY <1>10, ReportingKept DEF SyncWrite, SpawnWrite
<1>11. ASSUME NEW how \in {"ok", "error", "panic"}, ControllerEnds(how) PROVE Reporting'
  <2>1. stage = "running" /\ next <= Len(registered) /\ running = registered[next]
    BY <1>11 DEF ControllerEnds, RunInv, Looping, Reporting
  <2>2. StatusFor(how) = StatusOf[how]
    BY DEF StatusFor, StatusOf
  <2>3. QED
    BY <1>11, <2>1, <2>2, ReportingAppended DEF ControllerEnds
<1>12. CASE \E e \in inFlight : GoroutineRecords(e)
  BY <1>12, ReportingKept DEF GoroutineRecords
<1>13. CASE UNCHANGED vars
  BY <1>13, ReportingKept DEF vars
<1>14. CASE Finished
  BY <1>13, <1>14 DEF Finished
<1>15. QED
  BY <1>1, <1>2, <1>3, <1>4, <1>5, <1>6, <1>7, <1>8, <1>9, <1>10, <1>11, <1>12, <1>13, <1>14
     DEF Next, Loop, Controller

\* What the report of a run that was not rejected is made of.
LEMMA ReportOfResults ==
    ASSUME RunInv, Returned
    PROVE  /\ report \in Seq(Result) /\ ToSet(report) = ToSet(results)
           /\ \A i, j \in DOMAIN report : i < j => report[i].name < report[j].name
           /\ DOMAIN results = DOMAIN registered
           /\ \A i \in DOMAIN results :
                 results[i] = [name |-> registered[i], status |-> StatusOf[outcome[registered[i]]]]
<1>1. registered \in Seq(Names) /\ results \in Seq(Result) /\ next \in Nat \ {0}
  BY DEF RunInv, LoopTypeOK
<1>2. /\ Reporting /\ next > Len(registered) /\ ~HasDuplicates(registered) /\ report = Canonical(results)
  BY DEF RunInv, Reporting
<1>3. /\ Len(results) = next - 1 /\ next <= Len(registered) + 1
      /\ \A i \in DOMAIN results :
            results[i] = [name |-> registered[i], status |-> StatusOf[outcome[registered[i]]]]
  BY <1>2 DEF Reporting
<1>4. DOMAIN results = DOMAIN registered
  BY <1>1, <1>2, <1>3
<1>5. \A i, j \in DOMAIN results : i < j => results[i].name # results[j].name
  <2>1. \A i \in DOMAIN results : results[i].name = registered[i]
    BY <1>3
  <2>2. \A i, j \in DOMAIN registered : i < j => registered[i] # registered[j]
    BY <1>2 DEF HasDuplicates
  <2>3. QED
    BY <1>4, <2>1, <2>2
<1>6. \A r \in Result : r.name \in Nat
  BY NamesAreNames DEF Result
<1>7. /\ Canonical(results) \in Seq(Result) /\ DOMAIN Canonical(results) = DOMAIN results
      /\ ToSet(Canonical(results)) = ToSet(results)
      /\ \A i, j \in DOMAIN results : i < j => Canonical(results)[i].name < Canonical(results)[j].name
  BY <1>1, <1>5, <1>6, CanonicalSorts
<1>8. QED
  BY <1>2, <1>3, <1>4, <1>7

\* The report is a list of results.
LEMMA RunInvTypes == RunInv => TypeOK
<1> SUFFICES ASSUME RunInv PROVE report \in Seq(Result)
  BY DEF RunInv, TypeOK
<1>1. CASE Returned
  BY <1>1, ReportOfResults
<1>2. CASE ~Returned
  BY <1>2 DEF RunInv, Reporting
<1>3. QED
  BY <1>1, <1>2

\* After RunOnce has returned, only caches and the tracker's log change.
LEMMA ReturnedStays ==
    ASSUME RunInv, [Next]_vars, stage = "returned"
    PROVE  UNCHANGED <<stage, report, output, failed, rejected>>
<1>1. running = NoController
  BY DEF RunInv, Looping
<1> USE DEF informerVars, loopVars, writeVars, returnVars
<1>2. CASE \E i \in 1..NumInformers : CacheSyncs(i)
  BY <1>2 DEF CacheSyncs
<1>3. CASE \E e \in inFlight : GoroutineRecords(e)
  BY <1>3 DEF GoroutineRecords
<1>4. CASE UNCHANGED vars \/ Finished
  BY <1>4 DEF Finished, vars
<1>5. ~(StartInformer \/ WaitForCacheSync \/ Reject \/ StartLoop \/ Loop)
  BY DEF StartInformer, WaitForCacheSync, Reject, StartLoop, CachesReady, Loop, SkipController,
         BeginController, InLoop, ReturnResults
<1>6. ~(Deadline \/ Controller)
  BY <1>1 DEF Deadline, Controller, SyncWrite, SpawnWrite, ControllerEnds
<1>7. QED
  BY <1>2, <1>3, <1>4, <1>5, <1>6 DEF Next

-----------------------------------------------------------------------------
(* The theorems.                                                           *)

\* The invariant holds in every state of RunOnce.
THEOREM RunInvariant == Spec => []RunInv
<1>1. RunInv /\ [Next]_vars => RunInv'
  BY TypesStep, StagesStep, EnabledStep, AcknowledgedStep, ReportingStep DEF RunInv
<1>2. QED
  BY RunInvInit, <1>1, PTL DEF Spec

\* All variables, the report included, have their types.
THEOREM RunTypes == Spec => []TypeOK
BY RunInvTypes, RunInvariant, PTL

\* However many controllers there are and whatever order they ran in: the
\* report names every one of them, once, in the order of the names.
THEOREM ReportComplete == Spec => []ReportIsComplete
<1>1. RunInv => ReportIsComplete
  <2> SUFFICES ASSUME RunInv, Returned
               PROVE  /\ {report[i].name : i \in DOMAIN report} = ToSet(registered)
                      /\ \A i, j \in DOMAIN report : i < j => report[i].name < report[j].name
    BY DEF ReportIsComplete
  <2>1. {report[i].name : i \in DOMAIN report} = {r.name : r \in ToSet(report)}
    BY DEF ToSet
  <2>2. {r.name : r \in ToSet(results)} = ToSet(registered)
    BY ReportOfResults DEF ToSet
  <2>3. QED
    BY <2>1, <2>2, ReportOfResults
<1>2. QED
  BY <1>1, RunInvariant, PTL

\* The report says of each controller how its run ended, and the errors are
\* those of the controllers that returned one, however the others ended.
THEOREM ReportTruthful == Spec => []ReportTellsOutcome
<1>1. RunInv => ReportTellsOutcome
  <2> SUFFICES ASSUME RunInv, Returned
               PROVE  /\ \A i \in DOMAIN report : report[i].status = StatusOf[outcome[report[i].name]]
                      /\ failed = {n \in Names : outcome[n] = "error"}
    BY DEF ReportTellsOutcome
  <2>1. \A r \in ToSet(results) : r.status = StatusOf[outcome[r.name]]
    BY ReportOfResults DEF ToSet
  <2>2. \A i \in DOMAIN report : report[i] \in ToSet(report)
    BY DEF ToSet
  <2>3. QED
    BY <2>1, <2>2, ReportOfResults DEF RunInv, Reporting
<1>2. QED
  BY <1>1, RunInvariant, PTL

\* Whatever controllers an operator registers and whatever the --controllers
\* flag says, only controllers the flag enables run, none of a run that the
\* checks reject does, and no mutation carries the name of one that did not.
THEOREM EnabledOnly == Spec => []OnlyEnabledRun
<1>1. RunInv => OnlyEnabledRun
  BY DEF RunInv, Enabled, OnlyEnabledRun
<1>2. QED
  BY <1>1, RunInvariant, PTL

\* However many informers there are and in whatever order their caches fill,
\* no controller runs before all of them are full.
THEOREM ListersReady == Spec => []ListersAreReady
<1>1. RunInv => ListersAreReady
  BY DEF RunInv, LoopTypeOK, Waiting, Looping, ListersAreReady
<1>2. QED
  BY <1>1, RunInvariant, PTL

\* A write that a controller saw succeed is among the returned mutations at
\* the place it was filed, however many goroutines write before and after.
THEOREM WritesReturned == Spec => []SyncWritesAreReturned
<1>1. RunInv => SyncWritesAreReturned
  BY DEF RunInv, Acknowledged, SyncWritesAreReturned
<1>2. QED
  BY <1>1, RunInvariant, PTL

\* Nothing RunOnce returned changes while goroutines it left behind go on.
THEOREM ReturnedFrozen == Spec => ReturnedIsFrozen
<1>1. RunInv /\ [Next]_vars => [stage = "returned" => UNCHANGED <<report, output, failed, rejected>>]_vars
  BY ReturnedStays
<1>2. QED
  BY <1>1, RunInvariant, PTL DEF Spec, ReturnedIsFrozen

=============================================================================
