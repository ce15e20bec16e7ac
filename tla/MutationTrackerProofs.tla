----------------------- MODULE MutationTrackerProofs -----------------------
(***************************************************************************)
(* Proofs about MutationTracker for any number of clients, readers and     *)
(* requests: type correctness, the invariants its run checks, and that it  *)
(* implements MutationLog.                                                 *)
(***************************************************************************)
EXTENDS MutationTracker, TLAPS

\* Membership in AllRequests, without the union of sets that defines it.
LEMMA InAllRequests ==
    ASSUME NEW tracker, NEW e
    PROVE  e \in AllRequests(tracker)
             <=> \E a \in Action : \E i \in DOMAIN tracker[a] : e = tracker[a][i]
BY DEF AllRequests

\* Appending one entry to the list of its action adds that entry and nothing
\* else to the requests of a tracker.
LEMMA AppendAddsOne ==
    ASSUME NEW tracker \in [Action -> Seq(Entry)], NEW a \in Action, NEW e \in Entry
    PROVE  AllRequests([tracker EXCEPT ![a] = Append(@, e)]) = AllRequests(tracker) \cup {e}
<1> DEFINE longer == [tracker EXCEPT ![a] = Append(@, e)]
<1>1. \A b \in Action \ {a} : longer[b] = tracker[b]
  OBVIOUS
<1>2. longer[a] = Append(tracker[a], e)
  OBVIOUS
<1>3. /\ DOMAIN longer[a] = 1..(Len(tracker[a]) + 1)
      /\ DOMAIN tracker[a] = 1..Len(tracker[a])
      /\ Len(tracker[a]) \in Nat
      /\ longer[a][Len(tracker[a]) + 1] = e
      /\ \A i \in 1..Len(tracker[a]) : longer[a][i] = tracker[a][i]
  BY <1>2
<1>4. ASSUME NEW d \in AllRequests(longer) PROVE d \in AllRequests(tracker) \cup {e}
  <2>0. PICK b \in Action : \E i \in DOMAIN longer[b] : d = longer[b][i]
    BY DEF AllRequests
  <2>1. PICK i \in DOMAIN longer[b] : d = longer[b][i]
    BY <2>0
  <2>2. CASE b # a
    BY <2>1, <2>2, <1>1, InAllRequests
  <2>3. CASE b = a
    <3>1. i = Len(tracker[a]) + 1 \/ i \in DOMAIN tracker[a]
      BY <2>1, <2>3, <1>3
    <3>2. QED
      BY <2>1, <2>3, <3>1, <1>3, InAllRequests
  <2>4. QED
    BY <2>2, <2>3
<1>5. ASSUME NEW d \in AllRequests(tracker) PROVE d \in AllRequests(longer)
  <2>0. PICK b \in Action : \E i \in DOMAIN tracker[b] : d = tracker[b][i]
    BY InAllRequests
  <2>1. PICK i \in DOMAIN tracker[b] : d = tracker[b][i]
    BY <2>0
  <2>2. i \in DOMAIN longer[b] /\ d = longer[b][i]
    BY <2>1, <1>1, <1>3
  <2>3. QED
    BY <2>2, InAllRequests
<1>6. e \in AllRequests(longer)
  <2>1. /\ Len(tracker[a]) + 1 \in DOMAIN longer[a]
        /\ e = longer[a][Len(tracker[a]) + 1]
    BY <1>3
  <2> HIDE DEF longer
  <2>2. QED
    BY <2>1, InAllRequests
<1>7. QED
  BY <1>4, <1>5, <1>6

\* An acceptable request is filed under one of the eight actions.
LEMMA SerializeType ==
    ASSUME NEW h \in HttpRequest, Accepted(h)
    PROVE  Serialize(h) \in Request /\ Serialize(h).action \in Action
<1>1. Serialize(h) \in Request
  BY DEF Request
<1>2. Serialize(h).action = ActionOf(h)
  BY DEF Serialize
<1>3. ActionOf(h) \in Action \cup {Unsupported}
  BY DEF ActionOf, Action
<1>4. QED
  BY <1>1, <1>2, <1>3 DEF Accepted

-----------------------------------------------------------------------------

InLock(p) == pc[p] \in {"locked", "numbered", "recorded", "copying"}

\* The goroutine inside the critical section is the holder of the lock; clients
\* and readers go through their own steps; only acceptable requests got this
\* far, and those past TakeNumber have a number.
ControlInv ==
    /\ \A p \in Process : InLock(p) <=> lock = p
    /\ \A c \in Client :
           /\ pc[c] # "copying"
           /\ pc[c] # "idle" => Accepted(sending[c])
           /\ pc[c] \in {"numbered", "recorded"} => number[c] # 0
    /\ \A r \in Reader : pc[r] \notin {"locked", "numbered", "recorded"}

TypeInv == TypeOK /\ ControlInv

\* At the start everything has its type.
LEMMA TypeInvInit == Init => TypeInv
<1> SUFFICES ASSUME Init PROVE TypeInv
  OBVIOUS
<1>1. (CHOOSE h \in HttpRequest : TRUE) \in HttpRequest
  BY RequestAssumption
<1>2. Nothing \in [Action -> Seq(Entry)]
  BY DEF Nothing
<1>3. TypeOK
  BY <1>1, <1>2 DEF Init, TypeOK, Process
<1>4. ControlInv
  BY ProcessAssumption DEF Init, ControlInv, InLock, Process
<1>5. QED
  BY <1>3, <1>4 DEF TypeInv

\* Every step keeps the types.
LEMMA TypeInvStep == TypeInv /\ [Next]_vars => TypeInv'
<1> SUFFICES ASSUME TypeInv, [Next]_vars PROVE TypeInv'
  OBVIOUS
<1> USE ProcessAssumption DEF TypeInv, Process
<1>1. ASSUME NEW c \in Client, NEW h \in HttpRequest, Send(c, h) PROVE TypeInv'
  <2>1. TypeOK'
    BY <1>1 DEF Send, TypeOK, readerVars
  <2>2. ControlInv'
    BY <1>1 DEF Send, TypeOK, ControlInv, InLock
  <2>3. QED
    BY <2>1, <2>2
<1>2. ASSUME NEW c \in Client, Acquire(c) PROVE TypeInv'
  <2>1. TypeOK'
    BY <1>2 DEF Acquire, Lock, TypeOK, clientVars, readerVars
  <2>2. ControlInv'
    BY <1>2 DEF Acquire, Lock, TypeOK, ControlInv, InLock, clientVars
  <2>3. QED
    BY <2>1, <2>2
<1>3. ASSUME NEW c \in Client, TakeNumber(c) PROVE TypeInv'
  <2>1. TypeOK'
    BY <1>3 DEF TakeNumber, TypeOK, readerVars
  <2>2. ControlInv'
    BY <1>3 DEF TakeNumber, TypeOK, ControlInv, InLock
  <2>3. QED
    BY <2>1, <2>2
<1>4. ASSUME NEW c \in Client, AddRequest(c) PROVE TypeInv'
  <2> DEFINE req == Serialize(sending[c])
             entry == [num |-> number[c], req |-> req]
  <2>1. req \in Request /\ req.action \in Action
    BY <1>4, SerializeType DEF AddRequest, ControlInv, TypeOK
  <2>2. entry \in Entry
    BY <1>4, <2>1 DEF AddRequest, ControlInv, TypeOK, Entry
  <2>3. actionTracker' = [actionTracker EXCEPT ![req.action] = Append(@, entry)]
    BY <1>4 DEF AddRequest
  <2> HIDE DEF req
  <2>4. actionTracker' \in [Action -> Seq(Entry)]
    BY <2>1, <2>2, <2>3 DEF TypeOK
  <2>5. TypeOK'
    BY <1>4, <2>4 DEF AddRequest, TypeOK, clientVars, readerVars
  <2>6. ControlInv'
    BY <1>4 DEF AddRequest, TypeOK, ControlInv, InLock, clientVars
  <2>7. QED
    BY <2>5, <2>6
<1>5. ASSUME NEW c \in Client, Respond(c) PROVE TypeInv'
  <2>0. number[c] \in Nat \ {0}
    BY <1>5 DEF Respond, TypeOK, ControlInv
  <2>1. TypeOK'
    <3>1. acked' \subseteq Nat \ {0}
      BY <1>5, <2>0 DEF Respond, TypeOK
    <3>2. QED
      BY <1>5, <3>1 DEF Respond, Unlock, TypeOK, readerVars
  <2>2. ControlInv'
    BY <1>5 DEF Respond, Unlock, TypeOK, ControlInv, InLock
  <2>3. QED
    BY <2>1, <2>2
<1>6. ASSUME NEW r \in Reader, CallGetMutations(r) PROVE TypeInv'
  <2>1. TypeOK'
    BY <1>6 DEF CallGetMutations, TypeOK, clientVars
  <2>2. ControlInv'
    BY <1>6 DEF CallGetMutations, TypeOK, ControlInv, InLock, clientVars
  <2>3. QED
    BY <2>1, <2>2
<1>7. ASSUME NEW r \in Reader, AcquireForCopy(r) PROVE TypeInv'
  <2>1. Nothing \in [Action -> Seq(Entry)]
    BY DEF Nothing
  <2>2. TypeOK'
    BY <1>7, <2>1 DEF AcquireForCopy, Lock, TypeOK, clientVars
  <2>3. ControlInv'
    BY <1>7 DEF AcquireForCopy, Lock, TypeOK, ControlInv, InLock, clientVars
  <2>4. QED
    BY <2>2, <2>3
<1>8. ASSUME NEW r \in Reader, NEW a \in Action, CopyAction(r, a) PROVE TypeInv'
  <2>1. TypeOK'
    BY <1>8 DEF CopyAction, TypeOK, clientVars
  <2>2. ControlInv'
    BY <1>8 DEF CopyAction, TypeOK, ControlInv, InLock, clientVars
  <2>3. QED
    BY <2>1, <2>2
<1>9. ASSUME NEW r \in Reader, ReturnMutations(r) PROVE TypeInv'
  <2>1. TypeOK'
    BY <1>9 DEF ReturnMutations, Unlock, TypeOK, clientVars
  <2>2. ControlInv'
    BY <1>9 DEF ReturnMutations, Unlock, TypeOK, ControlInv, InLock, clientVars
  <2>3. QED
    BY <2>1, <2>2
<1>10. CASE UNCHANGED vars
  BY <1>10 DEF vars, clientVars, readerVars, TypeOK, ControlInv, InLock
<1>11. QED
  BY <1>1, <1>2, <1>3, <1>4, <1>5, <1>6, <1>7, <1>8, <1>9, <1>10
  DEF Next, ClientStep, ReaderStep

\* For any clients, readers and requests the state of the tracker is well
\* formed: what the lists hold are accepted requests with positive numbers.
THEOREM TypeCorrect == Spec => []TypeOK
<1>1. Spec => []TypeInv
  BY TypeInvInit, TypeInvStep, PTL DEF Spec
<1>2. TypeInv => TypeOK
  BY DEF TypeInv
<1>3. QED
  BY <1>1, <1>2, PTL

-----------------------------------------------------------------------------

Recorded == AllRequests(actionTracker)

\* A client that has a number but has not filed its request has the last
\* number given out; one that has filed it finds it in the tracker.
NumberInv ==
    \A c \in Client : /\ pc[c] = "numbered" => number[c] = nextRequestNumber - 1
                      /\ pc[c] = "recorded" => number[c] \in Numbers(actionTracker)

\* While a reader copies, the lists it has copied are those of the tracker.
CopyInv ==
    \A r \in Reader : pc[r] = "copying" =>
        \A a \in Action : copy[r][a] = IF a \in copied[r] THEN actionTracker[a] ELSE <<>>

IInv == TypeInv /\ NumberInv /\ CopyInv

\* The one action that changes the lists, in the terms of the set of requests.
LEMMA AddRequestAdds ==
    ASSUME TypeInv, NEW c \in Client, AddRequest(c)
    PROVE  /\ Serialize(sending[c]) \in Request
           /\ Serialize(sending[c]).action \in Action
           /\ Recorded' = Recorded \cup {[num |-> number[c], req |-> Serialize(sending[c])]}
<1> DEFINE req == Serialize(sending[c])
           entry == [num |-> number[c], req |-> req]
<1>1. req \in Request /\ req.action \in Action
  BY SerializeType DEF AddRequest, TypeInv, ControlInv, TypeOK
<1>2. entry \in Entry
  BY <1>1 DEF AddRequest, TypeInv, ControlInv, TypeOK, Entry
<1>3. actionTracker' = [actionTracker EXCEPT ![req.action] = Append(@, entry)]
  BY DEF AddRequest
<1>4. actionTracker \in [Action -> Seq(Entry)]
  BY DEF TypeInv, TypeOK
<1>5. AllRequests(actionTracker') = Recorded \cup {entry}
  <2> HIDE DEF req, entry
  <2>1. QED
    BY <1>1, <1>2, <1>3, <1>4, AppendAddsOne DEF Recorded, entry
<1>6. QED
  BY <1>1, <1>5 DEF Recorded

\* At most one goroutine is in the critical section.
LEMMA MutualExclusion ==
    ASSUME TypeInv, NEW p \in Process, NEW q \in Process, InLock(p), InLock(q)
    PROVE  p = q
BY DEF TypeInv, ControlInv

\* The inductive invariant holds at the start.
LEMMA IInvInit == Init => IInv
<1> SUFFICES ASSUME Init PROVE IInv
  OBVIOUS
<1>1. TypeInv
  BY TypeInvInit
<1>2. NumberInv /\ CopyInv
  BY DEF Init, NumberInv, CopyInv, Process
<1>3. QED
  BY <1>1, <1>2 DEF IInv

\* Every step keeps the inductive invariant.
LEMMA IInvStep == IInv /\ [Next]_vars => IInv'
<1> SUFFICES ASSUME IInv, [Next]_vars PROVE NumberInv' /\ CopyInv'
  BY TypeInvStep DEF IInv
<1> USE ProcessAssumption DEF IInv, TypeInv, Process
<1>1. ASSUME NEW c \in Client, NEW h \in HttpRequest, Send(c, h) PROVE NumberInv' /\ CopyInv'
  BY <1>1 DEF Send, TypeOK, NumberInv, CopyInv, readerVars
<1>2. ASSUME NEW c \in Client, Acquire(c) PROVE NumberInv' /\ CopyInv'
  BY <1>2 DEF Acquire, Lock, TypeOK, NumberInv, CopyInv, clientVars, readerVars
<1>3. ASSUME NEW c \in Client, TakeNumber(c) PROVE NumberInv' /\ CopyInv'
  <2>1. \A d \in Client : d # c => pc[d] # "numbered"
    BY <1>3 DEF TakeNumber, ControlInv, InLock
  <2>2. NumberInv'
    BY <1>3, <2>1 DEF TakeNumber, TypeOK, NumberInv
  <2>3. CopyInv'
    BY <1>3 DEF TakeNumber, TypeOK, CopyInv, readerVars
  <2>4. QED
    BY <2>2, <2>3
<1>4. ASSUME NEW c \in Client, AddRequest(c) PROVE NumberInv' /\ CopyInv'
  <2> DEFINE entry == [num |-> number[c], req |-> Serialize(sending[c])]
  <2>0. AllRequests(actionTracker') = AllRequests(actionTracker) \cup {entry}
    BY <1>4, AddRequestAdds DEF Recorded
  <2>1. number[c] \in Numbers(actionTracker')
    <3>1. entry.num = number[c] /\ entry \in AllRequests(actionTracker')
      BY <2>0
    <3>2. QED
      BY <3>1 DEF Numbers
  <2>2. Numbers(actionTracker) \subseteq Numbers(actionTracker')
    BY <2>0 DEF Numbers
  <2>3. /\ pc' = [pc EXCEPT ![c] = "recorded"]
        /\ UNCHANGED <<number, nextRequestNumber>>
    BY <1>4 DEF AddRequest, clientVars
  <2>4. NumberInv'
    BY <2>1, <2>2, <2>3 DEF TypeOK, NumberInv
  <2>5. \A r \in Reader : pc'[r] # "copying"
    BY <1>4, <2>3 DEF AddRequest, TypeOK, ControlInv, InLock
  <2>6. CopyInv'
    BY <2>5 DEF CopyInv
  <2>7. QED
    BY <2>4, <2>6
<1>5. ASSUME NEW c \in Client, Respond(c) PROVE NumberInv' /\ CopyInv'
  BY <1>5 DEF Respond, Unlock, TypeOK, NumberInv, CopyInv, readerVars
<1>6. ASSUME NEW r \in Reader, CallGetMutations(r) PROVE NumberInv' /\ CopyInv'
  BY <1>6 DEF CallGetMutations, TypeOK, NumberInv, CopyInv, clientVars
<1>7. ASSUME NEW r \in Reader, AcquireForCopy(r) PROVE NumberInv' /\ CopyInv'
  <2>1. NumberInv'
    BY <1>7 DEF AcquireForCopy, Lock, TypeOK, NumberInv, clientVars
  <2>2. CopyInv'
    BY <1>7 DEF AcquireForCopy, Lock, TypeOK, CopyInv, Nothing
  <2>3. QED
    BY <2>1, <2>2
<1>8. ASSUME NEW r \in Reader, NEW a \in Action, CopyAction(r, a) PROVE NumberInv' /\ CopyInv'
  <2>1. NumberInv'
    BY <1>8 DEF CopyAction, NumberInv, clientVars
  <2>2. CopyInv'
    BY <1>8 DEF CopyAction, TypeOK, CopyInv
  <2>3. QED
    BY <2>1, <2>2
<1>9. ASSUME NEW r \in Reader, ReturnMutations(r) PROVE NumberInv' /\ CopyInv'
  BY <1>9 DEF ReturnMutations, Unlock, TypeOK, NumberInv, CopyInv, clientVars
<1>10. CASE UNCHANGED vars
  BY <1>10 DEF vars, clientVars, readerVars, NumberInv, CopyInv
<1>11. QED
  BY <1>1, <1>2, <1>3, <1>4, <1>5, <1>6, <1>7, <1>8, <1>9, <1>10
  DEF Next, ClientStep, ReaderStep

\* So it holds of every run of the tracker.
LEMMA IInvariant == Spec => []IInv
BY IInvInit, IInvStep, PTL DEF Spec

-----------------------------------------------------------------------------
(* Refinement.                                                             *)

LogNext == IF BetweenNumberAndAdd THEN nextRequestNumber - 1 ELSE nextRequestNumber
LogSnap == [r \in Reader |-> AllRequests(snapshot[r])]

\* The mapped variables, as this module names them.
LogStutter == UNCHANGED <<Recorded, LogNext, acked, LogSnap>>

\* A step that leaves the log alone is none of the abstract log.
LEMMA StutterIsLogStutter == LogStutter => UNCHANGED Log!absVars
BY DEF LogStutter, Log!absVars, Recorded, LogNext, LogSnap

\* The tracker starts with an empty log.
LEMMA InitIsLogInit == Init => Log!AbsInit
<1> SUFFICES ASSUME Init PROVE Log!AbsInit
  OBVIOUS
<1>1. AllRequests(Nothing) = {}
  <2>1. \A e : e \notin AllRequests(Nothing)
    BY InAllRequests DEF Nothing
  <2>2. QED
    BY <2>1
<1>2. ~BetweenNumberAndAdd
  BY DEF Init, BetweenNumberAndAdd, Process
<1>3. QED
  BY <1>1, <1>2 DEF Init, Log!AbsInit

\* A step that changes neither the lists nor the snapshots, and no goroutine's
\* being between its number and its request, is a stutter of the log.
LEMMA QuietStep ==
    ASSUME UNCHANGED <<nextRequestNumber, actionTracker, acked, snapshot>>,
           \A c \in Client : pc'[c] = "numbered" <=> pc[c] = "numbered"
    PROVE  LogStutter
<1>1. BetweenNumberAndAdd' <=> BetweenNumberAndAdd
  BY DEF BetweenNumberAndAdd
<1>2. QED
  BY <1>1 DEF LogStutter, Recorded, LogNext, LogSnap

\* A step of the tracker is a step of the abstract log, or none.
LEMMA StepIsLogStep == IInv /\ [Next]_vars => [Log!AbsNext]_(Log!absVars)
<1> SUFFICES ASSUME IInv, [Next]_vars PROVE [Log!AbsNext]_(Log!absVars)
  OBVIOUS
<1> USE ProcessAssumption DEF IInv, TypeInv, Process
<1>1. ASSUME NEW c \in Client, NEW h \in HttpRequest, Send(c, h) PROVE LogStutter
  BY <1>1, QuietStep DEF Send, TypeOK, readerVars
<1>2. ASSUME NEW c \in Client, Acquire(c) PROVE LogStutter
  BY <1>2, QuietStep DEF Acquire, Lock, TypeOK, clientVars, readerVars
<1>3. ASSUME NEW c \in Client, TakeNumber(c) PROVE LogStutter
  <2>1. ~BetweenNumberAndAdd
    BY <1>3 DEF TakeNumber, BetweenNumberAndAdd, ControlInv, InLock
  <2>2. BetweenNumberAndAdd'
    BY <1>3 DEF TakeNumber, BetweenNumberAndAdd, TypeOK
  <2>3. LogNext' = LogNext
    BY <1>3, <2>1, <2>2 DEF TakeNumber, LogNext, TypeOK
  <2>4. QED
    BY <1>3, <2>3 DEF TakeNumber, LogStutter, Recorded, LogSnap, readerVars
<1>4. ASSUME NEW c \in Client, AddRequest(c)
      PROVE  Log!Record(Serialize(sending[c])) /\ Serialize(sending[c]) \in Request
  <2>1. /\ Serialize(sending[c]) \in Request
        /\ Recorded' = Recorded \cup {[num |-> number[c], req |-> Serialize(sending[c])]}
    BY <1>4, AddRequestAdds
  <2>2. BetweenNumberAndAdd /\ number[c] = nextRequestNumber - 1
    BY <1>4 DEF AddRequest, BetweenNumberAndAdd, NumberInv
  <2>3. ~BetweenNumberAndAdd'
    BY <1>4 DEF AddRequest, BetweenNumberAndAdd, TypeOK, ControlInv, InLock
  <2>4. LogNext = number[c] /\ LogNext' = LogNext + 1
    BY <1>4, <2>2, <2>3 DEF AddRequest, LogNext, TypeOK
  <2>5. UNCHANGED <<acked, LogSnap>>
    BY <1>4 DEF AddRequest, LogSnap, clientVars, readerVars
  <2>6. QED
    BY <2>1, <2>4, <2>5 DEF Log!Record, Recorded, LogNext, LogSnap
<1>5. ASSUME NEW c \in Client, Respond(c)
      PROVE  LogStutter \/ \E e \in AllRequests(actionTracker) : Log!Acknowledge(e)
  <2>1. UNCHANGED <<Recorded, LogSnap>>
    BY <1>5 DEF Respond, Recorded, LogSnap, readerVars
  <2>2. LogNext' = LogNext
    <3>1. BetweenNumberAndAdd' <=> BetweenNumberAndAdd
      BY <1>5 DEF Respond, Unlock, BetweenNumberAndAdd, TypeOK
    <3>2. QED
      BY <1>5, <3>1 DEF Respond, LogNext
  <2>3. CASE acked' = acked
    BY <2>1, <2>2, <2>3 DEF LogStutter
  <2>4. CASE acked' = acked \cup {number[c]}
    <3>1. PICK e \in AllRequests(actionTracker) : e.num = number[c]
      BY <1>5 DEF Respond, NumberInv, Numbers
    <3>2. Log!Acknowledge(e)
      BY <2>1, <2>2, <2>4, <3>1 DEF Log!Acknowledge, Recorded, LogNext, LogSnap
    <3>3. QED
      BY <3>2
  <2>5. QED
    BY <1>5, <2>3, <2>4 DEF Respond
<1>6. ASSUME NEW r \in Reader, CallGetMutations(r) PROVE LogStutter
  BY <1>6, QuietStep DEF CallGetMutations, TypeOK, clientVars
<1>7. ASSUME NEW r \in Reader, AcquireForCopy(r) PROVE LogStutter
  BY <1>7, QuietStep DEF AcquireForCopy, Lock, TypeOK, clientVars
<1>8. ASSUME NEW r \in Reader, NEW a \in Action, CopyAction(r, a) PROVE LogStutter
  BY <1>8, QuietStep DEF CopyAction, TypeOK, clientVars
<1>9. ASSUME NEW r \in Reader, ReturnMutations(r) PROVE Log!Snapshot(r)
  <2>1. \A a \in Action : copy[r][a] = actionTracker[a]
    BY <1>9 DEF ReturnMutations, CopyInv, ListActions
  <2>2. copy[r] = actionTracker
    BY <2>1 DEF TypeOK
  <2>3. snapshot' = [snapshot EXCEPT ![r] = actionTracker]
    BY <1>9, <2>2 DEF ReturnMutations
  <2>4. LogSnap' = [LogSnap EXCEPT ![r] = Recorded]
    BY <2>3 DEF LogSnap, Recorded, TypeOK
  <2>5. LogNext' = LogNext
    <3>1. BetweenNumberAndAdd' <=> BetweenNumberAndAdd
      BY <1>9 DEF ReturnMutations, Unlock, BetweenNumberAndAdd, TypeOK
    <3>2. QED
      BY <1>9, <3>1 DEF ReturnMutations, LogNext
  <2>6. UNCHANGED <<Recorded, acked>>
    BY <1>9 DEF ReturnMutations, Recorded, clientVars
  <2>7. QED
    BY <2>4, <2>5, <2>6 DEF Log!Snapshot, Recorded, LogNext, LogSnap
<1>10. ASSUME UNCHANGED vars PROVE LogStutter
  BY <1>10, QuietStep DEF vars, clientVars, readerVars
<1>11. ASSUME NEW c \in Client, AddRequest(c) PROVE Log!AbsNext
  BY <1>4, <1>11 DEF Log!AbsNext
<1>12. ASSUME NEW c \in Client, Respond(c) PROVE LogStutter \/ Log!AbsNext
  BY <1>5, <1>12 DEF Log!AbsNext
<1>13. ASSUME NEW r \in Reader, ReturnMutations(r) PROVE Log!AbsNext
  BY <1>9, <1>13 DEF Log!AbsNext
<1>14. LogStutter \/ Log!AbsNext
  BY <1>1, <1>2, <1>3, <1>6, <1>7, <1>8, <1>10, <1>11, <1>12, <1>13
  DEF Next, ClientStep, ReaderStep
<1>15. QED
  BY <1>14, StutterIsLogStutter

\* The lock, the lists per action and the copy made list by list behave, to
\* every number of controllers and readers, like one atomic log.
THEOREM TrackerImplementsLog == Spec => ImplementsLog
<1>1. Spec => []IInv
  BY IInvariant
<1>2. QED
  BY <1>1, InitIsLogInit, StepIsLogStep, PTL DEF Spec, ImplementsLog, Log!AbsSpec

-----------------------------------------------------------------------------
(* What the log promises.                                                  *)

\* Recording with the next number keeps the log numbered.
LEMMA RecordKeepsNumbered ==
    ASSUME NEW L \in SUBSET Log!Entry, NEW n \in Nat \ {0}, NEW req, Log!Numbered(L, n)
    PROVE  Log!Numbered(L \cup {[num |-> n, req |-> req]}, n + 1)
<1> DEFINE new == [num |-> n, req |-> req]
           M == L \cup {new}
<1>1. \A e \in L : e.num \in Nat /\ e.num < n
  BY DEF Log!Numbered, Log!Entry
<1>2. new.num = n
  OBVIOUS
<1>3. \A e \in M : e.num < n + 1
  BY <1>1, <1>2
<1>4. ASSUME NEW m \in 1..((n + 1) - 1) PROVE \E e \in M : e.num = m
  <2>1. CASE m = n
    BY <2>1, <1>2
  <2>2. CASE m \in 1..(n - 1)
    BY <2>2 DEF Log!Numbered
  <2>3. QED
    BY <2>1, <2>2
<1>5. ASSUME NEW d \in M, NEW e \in M, d.num = e.num PROVE d = e
  BY <1>1, <1>2, <1>5 DEF Log!Numbered
<1>6. QED
  BY <1>3, <1>4, <1>5 DEF Log!Numbered

\* The invariant of the log, in the names of this module.
Cuts(snap) == \A r \in Reader : snap[r] \subseteq Recorded /\ \E n \in 1..LogNext : Log!Numbered(snap[r], n)

LogTypes == /\ Recorded \subseteq Log!Entry /\ LogNext \in Nat \ {0} /\ acked \subseteq Nat \ {0}
            /\ LogSnap \in [Reader -> SUBSET Log!Entry]

LogHolds == /\ LogTypes
            /\ Log!Numbered(Recorded, LogNext) /\ acked \subseteq {e.num : e \in Recorded}
            /\ Cuts(LogSnap)

\* The invariant of the abstract log says the same of the tracker.
LEMMA LogHoldsIsLogInv == (LogInv <=> LogHolds) /\ (LogInv' <=> LogHolds')
BY DEF LogInv, LogHolds, LogTypes, Cuts, Log!AbsInv, Log!AbsTypeOK, Log!LogIsNumbered, Log!SnapshotsAreCuts,
       Recorded, LogNext, LogSnap

\* Every step of the abstract log keeps it.
LEMMA LogKeeps == LogHolds /\ [Log!AbsNext]_(Log!absVars) => LogHolds'
<1> SUFFICES ASSUME LogHolds, [Log!AbsNext]_(Log!absVars) PROVE LogHolds'
  OBVIOUS
<1> USE DEF LogHolds
<1>1. ASSUME NEW req \in Request, Log!Record(req) PROVE LogHolds'
  <2>1. /\ Recorded' = Recorded \cup {[num |-> LogNext, req |-> req]}
        /\ LogNext' = LogNext + 1 /\ acked' = acked /\ LogSnap' = LogSnap
    BY <1>1 DEF Log!Record, Recorded, LogNext, LogSnap
  <2>2. LogTypes'
    BY <2>1 DEF LogTypes, Log!Entry
  <2>3. Log!Numbered(Recorded, LogNext)'
    <3> DEFINE new == Recorded \cup {[num |-> LogNext, req |-> req]}
    <3>1. Log!Numbered(new, LogNext + 1)
      BY RecordKeepsNumbered DEF LogTypes
    <3> HIDE DEF new
    <3>2. QED
      BY <2>1, <3>1 DEF Log!Numbered, new
  <2>4. (acked \subseteq {e.num : e \in Recorded})'
    BY <2>1
  <2>5. Cuts(LogSnap)'
    <3>1. \A r \in Reader : \E n \in 1..(LogNext + 1) : Log!Numbered(LogSnap[r], n)
      BY DEF Cuts, LogTypes
    <3>2. \A r \in Reader : LogSnap[r] \subseteq Recorded'
      BY <2>1 DEF Cuts
    <3>3. QED
      BY <2>1, <3>1, <3>2 DEF Cuts, Log!Numbered
  <2>6. QED
    BY <2>2, <2>3, <2>4, <2>5
<1>2. ASSUME NEW e \in Recorded, Log!Acknowledge(e) PROVE LogHolds'
  <2>1. acked' = acked \cup {e.num} /\ Recorded' = Recorded /\ LogNext' = LogNext /\ LogSnap' = LogSnap
    BY <1>2 DEF Log!Acknowledge, Recorded, LogNext, LogSnap
  <2>2. LogTypes'
    BY <2>1 DEF LogTypes, Log!Entry
  <2>3. (acked \subseteq {d.num : d \in Recorded})'
    BY <2>1
  <2>4. Log!Numbered(Recorded, LogNext)' /\ Cuts(LogSnap)'
    BY <2>1 DEF Cuts, Log!Numbered
  <2>5. QED
    BY <2>2, <2>3, <2>4
<1>3. ASSUME NEW r \in Reader, Log!Snapshot(r) PROVE LogHolds'
  <2>1. LogSnap' = [LogSnap EXCEPT ![r] = Recorded] /\ Recorded' = Recorded /\ LogNext' = LogNext /\ acked' = acked
    BY <1>3 DEF Log!Snapshot, Recorded, LogNext, LogSnap
  <2>2. LogTypes' /\ Log!Numbered(Recorded, LogNext)' /\ (acked \subseteq {e.num : e \in Recorded})'
    BY <2>1 DEF LogTypes, Log!Numbered
  <2>3. ASSUME NEW q \in Reader
        PROVE  LogSnap'[q] \subseteq Recorded /\ \E n \in 1..LogNext : Log!Numbered(LogSnap'[q], n)
    <3>1. CASE q = r
      <4>1. LogNext \in 1..LogNext /\ LogSnap'[q] = Recorded
        BY <2>1, <3>1 DEF LogTypes
      <4>2. QED
        BY <4>1
    <3>2. CASE q # r
      <4>1. LogSnap'[q] = LogSnap[q]
        BY <2>1, <3>2 DEF LogTypes
      <4>2. QED
        BY <4>1 DEF Cuts
    <3>3. QED
      BY <3>1, <3>2
  <2>4. Cuts(LogSnap)'
    BY <2>1, <2>3 DEF Cuts, Log!Numbered
  <2>5. QED
    BY <2>2, <2>4
<1>4. CASE UNCHANGED Log!absVars
  <2>1. Recorded' = Recorded /\ LogNext' = LogNext /\ acked' = acked /\ LogSnap' = LogSnap
    BY <1>4 DEF Log!absVars, Recorded, LogNext, LogSnap
  <2>2. LogTypes' /\ (acked \subseteq {e.num : e \in Recorded})'
    BY <2>1 DEF LogTypes
  <2>3. Log!Numbered(Recorded, LogNext)' /\ Cuts(LogSnap)'
    BY <2>1 DEF Cuts, Log!Numbered
  <2>4. QED
    BY <2>2, <2>3
<1>5. QED
  BY <1>1, <1>2, <1>3, <1>4 DEF Log!AbsNext, Recorded

\* Request numbers identify requests and have no gap, and every result of
\* GetMutations is a beginning of the log: the log promises it for any readers
\* and requests, and the tracker implements the log.
THEOREM TrackerLogSafety == Spec => []LogInv
<1>1. Log!AbsInit => LogHolds
  <2> SUFFICES ASSUME Log!AbsInit PROVE LogHolds
    OBVIOUS
  <2>1. Recorded = {} /\ LogNext = 1 /\ acked = {} /\ LogSnap = [r \in Reader |-> {}]
    BY DEF Log!AbsInit, Recorded, LogNext, LogSnap
  <2>2. Log!Numbered({}, 1) /\ 1 \in 1..1
    BY DEF Log!Numbered
  <2>3. QED
    BY <2>1, <2>2 DEF LogHolds, LogTypes, Cuts
<1>2. ImplementsLog => []LogHolds
  BY <1>1, LogKeeps, PTL DEF ImplementsLog, Log!AbsSpec
<1>3. LogHolds => LogInv
  BY LogHoldsIsLogInv
<1>4. QED
  BY <1>2, <1>3, TrackerImplementsLog, PTL

\* No request that was answered 200 OK is missing from the tracker.
THEOREM AcknowledgedIsRecorded == Spec => []AckedIsRecorded
<1>1. LogInv => AckedIsRecorded
  BY DEF LogInv, Log!AbsInv, Log!LogIsNumbered, AckedIsRecorded, Numbers
<1>2. QED
  BY <1>1, TrackerLogSafety, PTL

-----------------------------------------------------------------------------

\* Each list is ordered because the number of the request that is filed is
\* larger than every number in the tracker.
LEMMA ListsStep == IInv /\ LogInv /\ ListsAreOrdered /\ [Next]_vars => ListsAreOrdered'
<1> SUFFICES ASSUME IInv, LogInv, ListsAreOrdered, [Next]_vars PROVE ListsAreOrdered'
  OBVIOUS
<1>1. CASE UNCHANGED actionTracker
  BY <1>1 DEF ListsAreOrdered
<1>2. ASSUME NEW c \in Client, AddRequest(c) PROVE ListsAreOrdered'
  <2> DEFINE act == Serialize(sending[c]).action
             entry == [num |-> number[c], req |-> Serialize(sending[c])]
  <2>1. act \in Action /\ actionTracker' = [actionTracker EXCEPT ![act] = Append(@, entry)]
    BY <1>2, AddRequestAdds DEF AddRequest, IInv
  <2>2. number[c] \in Nat /\ number[c] = LogNext
    BY <1>2 DEF AddRequest, IInv, TypeInv, TypeOK, NumberInv, LogNext, BetweenNumberAndAdd
  <2>3. \A e \in AllRequests(actionTracker) : e.num < number[c]
    BY <2>2 DEF LogInv, Log!AbsInv, Log!LogIsNumbered, Log!Numbered, LogNext
  <2>4. \A i \in DOMAIN actionTracker[act] : actionTracker[act][i].num < number[c]
    BY <2>1, <2>3, InAllRequests
  <2>5. entry.num = number[c] /\ actionTracker \in [Action -> Seq(Entry)]
    BY DEF IInv, TypeInv, TypeOK
  <2> HIDE DEF act, entry
  <2>6. ASSUME NEW a \in Action, NEW i \in DOMAIN actionTracker'[a], NEW j \in DOMAIN actionTracker'[a],
               i < j
        PROVE  actionTracker'[a][i].num < actionTracker'[a][j].num
    <3>1. CASE a # act
      BY <2>1, <2>6, <3>1 DEF ListsAreOrdered, IInv, TypeInv, TypeOK
    <3>2. CASE a = act
      <4> DEFINE old == actionTracker[act]
      <4>1. actionTracker'[a] = Append(old, entry) /\ old \in Seq(Entry)
        BY <2>1, <2>5, <3>2
      <4>2. Len(old) \in Nat /\ i \in 1..(Len(old) + 1) /\ j \in 1..(Len(old) + 1)
        BY <2>6, <4>1, SMT
      <4>3. i \in 1..Len(old) /\ actionTracker'[a][i] = old[i]
        BY <2>6, <4>1, <4>2
      <4>4. CASE j = Len(old) + 1
        BY <2>4, <2>5, <4>1, <4>3, <4>4
      <4>5. CASE j \in 1..Len(old)
        <5>1. actionTracker'[a][j] = old[j] /\ j \in DOMAIN old /\ i \in DOMAIN old
          BY <4>1, <4>3, <4>5
        <5>2. QED
          BY <2>1, <2>6, <4>3, <5>1 DEF ListsAreOrdered
      <4>6. QED
        BY <4>2, <4>4, <4>5
    <3>3. QED
      BY <3>1, <3>2
  <2>7. QED
    BY <2>6 DEF ListsAreOrdered
<1>3. QED
  BY <1>1, <1>2 DEF Next, ClientStep, ReaderStep, vars, Send, Acquire, TakeNumber, Respond,
     CallGetMutations, AcquireForCopy, CopyAction, ReturnMutations

\* Every list of the tracker is in the order of the request numbers.
THEOREM ListsStayOrdered == Spec => []ListsAreOrdered
<1>1. Init => ListsAreOrdered
  BY DEF Init, ListsAreOrdered, Nothing
<1>2. QED
  BY <1>1, ListsStep, IInvariant, TrackerLogSafety, PTL DEF Spec

\* What a reader in GetMutations must see is acknowledged, and what it must
\* have seen is in its result.
SeenInv ==
    \A r \in Reader : IF pc[r] = "idle" THEN mustSee[r] \subseteq Numbers(snapshot[r])
                                       ELSE mustSee[r] \subseteq acked

\* Every step of the tracker keeps what readers have seen.
LEMMA SeenStep == IInv /\ AckedIsRecorded /\ SeenInv /\ [Next]_vars => SeenInv'
<1> SUFFICES ASSUME IInv, AckedIsRecorded, SeenInv, [Next]_vars PROVE SeenInv'
  OBVIOUS
<1> USE ProcessAssumption DEF IInv, TypeInv, Process
<1>1. ASSUME NEW c \in Client, NEW h \in HttpRequest, Send(c, h) PROVE SeenInv'
  BY <1>1 DEF Send, TypeOK, SeenInv, readerVars
<1>2. ASSUME NEW c \in Client, Acquire(c) PROVE SeenInv'
  BY <1>2 DEF Acquire, Lock, TypeOK, SeenInv, clientVars, readerVars
<1>3. ASSUME NEW c \in Client, TakeNumber(c) PROVE SeenInv'
  BY <1>3 DEF TakeNumber, TypeOK, SeenInv, readerVars
<1>4. ASSUME NEW c \in Client, AddRequest(c) PROVE SeenInv'
  BY <1>4 DEF AddRequest, TypeOK, SeenInv, clientVars, readerVars
<1>5. ASSUME NEW c \in Client, Respond(c) PROVE SeenInv'
  <2>1. acked \subseteq acked'
    BY <1>5 DEF Respond
  <2>2. QED
    BY <1>5, <2>1 DEF Respond, Unlock, TypeOK, SeenInv, readerVars
<1>6. ASSUME NEW r \in Reader, CallGetMutations(r) PROVE SeenInv'
  BY <1>6 DEF CallGetMutations, TypeOK, SeenInv, clientVars
<1>7. ASSUME NEW r \in Reader, AcquireForCopy(r) PROVE SeenInv'
  BY <1>7 DEF AcquireForCopy, Lock, TypeOK, SeenInv, clientVars
<1>8. ASSUME NEW r \in Reader, NEW a \in Action, CopyAction(r, a) PROVE SeenInv'
  BY <1>8 DEF CopyAction, SeenInv, clientVars
<1>9. ASSUME NEW r \in Reader, ReturnMutations(r) PROVE SeenInv'
  <2>1. \A a \in Action : copy[r][a] = actionTracker[a]
    BY <1>9 DEF ReturnMutations, CopyInv, ListActions
  <2>2. copy[r] = actionTracker
    BY <2>1 DEF TypeOK
  <2>3. mustSee[r] \subseteq Numbers(copy[r])
    BY <1>9, <2>2 DEF ReturnMutations, SeenInv, AckedIsRecorded
  <2>4. QED
    BY <1>9, <2>3 DEF ReturnMutations, Unlock, TypeOK, SeenInv, clientVars
<1>10. CASE UNCHANGED vars
  BY <1>10 DEF vars, clientVars, readerVars, SeenInv
<1>11. QED
  BY <1>1, <1>2, <1>3, <1>4, <1>5, <1>6, <1>7, <1>8, <1>9, <1>10
  DEF Next, ClientStep, ReaderStep

\* A result of GetMutations holds every request that had been answered 200 OK
\* when GetMutations was called.
THEOREM SnapshotsSeeAcknowledged == Spec => []SnapshotSeesAcked
<1>1. Init => SeenInv
  BY DEF Init, SeenInv, Process
<1>2. SeenInv => SnapshotSeesAcked
  BY DEF SeenInv, SnapshotSeesAcked
<1>3. QED
  BY <1>1, <1>2, SeenStep, IInvariant, AcknowledgedIsRecorded, PTL DEF Spec

=============================================================================
