--------------------------- MODULE MutationTracker ---------------------------
(***************************************************************************)
(* The in-memory recorder behind the clients that the controllers of an    *)
(* apply-configuration command are given: writeTrackingRoundTripper and    *)
(* its AllActionsTracker (manifestclient/write_roundtripper.go and         *)
(* mutation_tracker.go).                                                   *)
(*                                                                         *)
(* Each client is a goroutine that issues write requests one after the     *)
(* other; each reader is a goroutine that calls GetMutations.  They meet   *)
(* at one lock.  The steps a goroutine takes while it holds the lock are   *)
(* separate actions, so that what the lock is for can be seen to fail.     *)
(***************************************************************************)
EXTENDS WriteRequests, Integers, Sequences

CONSTANTS Client,          \* goroutines that write
          Reader,          \* goroutines that call GetMutations
          HttpRequest,     \* the requests the clients may send
          KnownResource,   \* resources the discovery data has a kind for
          NoOne,           \* the lock is free
          MaxRequests      \* bound: recorded requests of a behaviour

Request == {Serialize(h) : h \in {g \in HttpRequest : Accepted(g)}}
Process == Client \cup Reader

ASSUME ProcessAssumption == /\ Client \cap Reader = {}
                            /\ NoOne \notin Process
ASSUME RequestAssumption == HttpRequest # {}
ASSUME BoundAssumption == MaxRequests \in Nat

VARIABLES
    lock,               \* writeTrackingRoundTripper.lock: its holder or NoOne
    nextRequestNumber,
    actionTracker,      \* actionToTracker: the requests recorded per action
    pc,                 \* where each goroutine is
    sending,            \* the request a client is in RoundTrip with
    number,             \* the number it was given
    acked,              \* numbers answered 200 OK (history)
    copied,             \* actions the reader's DeepCopy has copied
    copy,               \* its copy so far
    snapshot,           \* the last result of each reader
    mustSee             \* acked when the reader called GetMutations (history)

clientVars == <<sending, number, acked>>
readerVars == <<copied, copy, snapshot, mustSee>>
vars == <<lock, nextRequestNumber, actionTracker, pc, clientVars, readerVars>>

Entry == [num: Nat \ {0}, req: Request]

\* Variant: the actions that were added last are forgotten.
NothingButApplies == [a \in Action \ {"Apply", "ApplyStatus"} |-> <<>>]

\* NewAllActionsTracker, a list that is missing being an empty one.
Nothing == [a \in Action |-> <<>>]

\* The requests of a tracker, in no order (AllRequests ranges over a Go map).
AllRequests(tracker) == UNION {{tracker[a][i] : i \in DOMAIN tracker[a]} : a \in Action}

TypeOK ==
    /\ lock \in Process \cup {NoOne}
    /\ nextRequestNumber \in Nat \ {0}
    /\ actionTracker \in [Action -> Seq(Entry)]
    /\ pc \in [Process -> {"idle", "waiting", "locked", "numbered", "recorded", "copying"}]
    /\ sending \in [Client -> HttpRequest]
    /\ number \in [Client -> Nat]
    /\ acked \subseteq Nat \ {0}
    /\ copied \in [Reader -> SUBSET Action]
    /\ copy \in [Reader -> [Action -> Seq(Entry)]]
    /\ snapshot \in [Reader -> [Action -> Seq(Entry)]]
    /\ mustSee \in [Reader -> SUBSET (Nat \ {0})]

Init ==
    /\ lock = NoOne
    /\ nextRequestNumber = 1
    /\ actionTracker = Nothing
    /\ pc = [p \in Process |-> "idle"]
    /\ sending = [c \in Client |-> CHOOSE h \in HttpRequest : TRUE]
    /\ number = [c \in Client |-> 0]
    /\ acked = {}
    /\ copied = [r \in Reader |-> {}]
    /\ copy = [r \in Reader |-> Nothing]
    /\ snapshot = [r \in Reader |-> Nothing]
    /\ mustSee = [r \in Reader |-> {}]

-----------------------------------------------------------------------------
(* The lock.                                                               *)

\* Variants: a lock that does not exclude, and one that is not given back.
LockWithoutWaiting(p, next) == pc[p] = "waiting" /\ lock' = p /\ pc' = [pc EXCEPT ![p] = next]
KeepLock(p) == UNCHANGED lock /\ pc' = [pc EXCEPT ![p] = "idle"]

Lock(p, next) == /\ pc[p] = "waiting"
                 /\ lock = NoOne
                 /\ lock' = p
                 /\ pc' = [pc EXCEPT ![p] = next]

Unlock(p) == /\ lock' = NoOne
             /\ pc' = [pc EXCEPT ![p] = "idle"]

(* A client in RoundTrip.                                                  *)

\* An acceptable request goes on to the lock.  One that is not is answered
\* with 500 at once and changes nothing, so it is no action here.
Send(c, h) ==
    /\ pc[c] = "idle"
    /\ nextRequestNumber <= MaxRequests
    /\ Accepted(h)
    /\ sending' = [sending EXCEPT ![c] = h]
    /\ pc' = [pc EXCEPT ![c] = "waiting"]
    /\ UNCHANGED <<lock, nextRequestNumber, actionTracker, number, acked, readerVars>>

Acquire(c) ==
    /\ Lock(c, "locked")
    /\ UNCHANGED <<nextRequestNumber, actionTracker, clientVars, readerVars>>

\* Variant: the number is not incremented.
TakeSameNumber(c) ==
    /\ pc[c] = "locked"
    /\ number' = [number EXCEPT ![c] = nextRequestNumber]
    /\ pc' = [pc EXCEPT ![c] = "numbered"]
    /\ UNCHANGED <<lock, nextRequestNumber, actionTracker, sending, acked, readerVars>>

\* trackedRequest gets nextRequestNumber, which is then incremented.
TakeNumber(c) ==
    /\ pc[c] = "locked"
    /\ number' = [number EXCEPT ![c] = nextRequestNumber]
    /\ nextRequestNumber' = nextRequestNumber + 1
    /\ pc' = [pc EXCEPT ![c] = "numbered"]
    /\ UNCHANGED <<lock, actionTracker, sending, acked, readerVars>>

\* Variant: the list is replaced instead of appended to.
ReplaceRequests(c) ==
    LET entry == [num |-> number[c], req |-> Serialize(sending[c])] IN
    /\ pc[c] = "numbered"
    /\ actionTracker' = [actionTracker EXCEPT ![entry.req.action] = <<entry>>]
    /\ pc' = [pc EXCEPT ![c] = "recorded"]
    /\ UNCHANGED <<lock, nextRequestNumber, clientVars, readerVars>>

AddRequest(c) ==
    LET entry == [num |-> number[c], req |-> Serialize(sending[c])] IN
    /\ pc[c] = "numbered"
    /\ actionTracker' = [actionTracker EXCEPT ![entry.req.action] = Append(@, entry)]
    /\ pc' = [pc EXCEPT ![c] = "recorded"]
    /\ UNCHANGED <<lock, nextRequestNumber, clientVars, readerVars>>

\* A patch of a resource that discovery has no kind for is answered with 500
\* although it has been recorded.
Answered200(c) == \/ HasObjectBody(ActionOf(sending[c]))
                  \/ sending[c].resource \in KnownResource

Respond(c) ==
    /\ pc[c] = "recorded"
    /\ Unlock(c)
    /\ acked' = IF Answered200(c) THEN acked \cup {number[c]} ELSE acked
    /\ UNCHANGED <<nextRequestNumber, actionTracker, sending, number, readerVars>>

(* A reader in GetMutations.                                               *)

CallGetMutations(r) ==
    /\ pc[r] = "idle"
    /\ pc' = [pc EXCEPT ![r] = "waiting"]
    /\ mustSee' = [mustSee EXCEPT ![r] = acked]
    /\ UNCHANGED <<lock, nextRequestNumber, actionTracker, clientVars, copied, copy, snapshot>>

\* Variant: the copy of the previous call is kept.
AcquireForOldCopy(r) ==
    /\ Lock(r, "copying")
    /\ UNCHANGED <<nextRequestNumber, actionTracker, clientVars, copied, copy, snapshot, mustSee>>

AcquireForCopy(r) ==
    /\ Lock(r, "copying")
    /\ copied' = [copied EXCEPT ![r] = {}]
    /\ copy' = [copy EXCEPT ![r] = Nothing]
    /\ UNCHANGED <<nextRequestNumber, actionTracker, clientVars, snapshot, mustSee>>

\* The keys of actionToTracker: AddRequest makes a list when it first needs it.
ListActions == {a \in Action : actionTracker[a] # <<>>}

\* DeepCopy visits the actions in the order of a Go map range: any order.
CopyAction(r, a) ==
    /\ pc[r] = "copying"
    /\ a \in ListActions \ copied[r]
    /\ copied' = [copied EXCEPT ![r] = @ \cup {a}]
    /\ copy' = [copy EXCEPT ![r][a] = actionTracker[a]]
    /\ UNCHANGED <<lock, nextRequestNumber, actionTracker, pc, clientVars, snapshot, mustSee>>

ReturnMutations(r) ==
    /\ pc[r] = "copying"
    /\ ListActions \subseteq copied[r]
    /\ Unlock(r)
    /\ snapshot' = [snapshot EXCEPT ![r] = copy[r]]
    /\ UNCHANGED <<nextRequestNumber, actionTracker, clientVars, copied, copy, mustSee>>

ClientStep(c) == TakeNumber(c) \/ AddRequest(c) \/ Respond(c)
ReaderStep(r) == (\E a \in Action : CopyAction(r, a)) \/ ReturnMutations(r)

Next == \/ \E c \in Client : \/ \E h \in HttpRequest : Send(c, h)
                             \/ Acquire(c)
                             \/ ClientStep(c)
        \/ \E r \in Reader : \/ CallGetMutations(r)
                             \/ AcquireForCopy(r)
                             \/ ReaderStep(r)

Spec == Init /\ [][Next]_vars

\* A goroutine that holds the lock keeps running, and Go's mutex hands the
\* lock to a goroutine that has waited for it too long (starvation mode).
\* Nothing makes a client send or a reader call.
Fairness == /\ \A c \in Client : WF_vars(ClientStep(c)) /\ SF_vars(Acquire(c))
            /\ \A r \in Reader : WF_vars(ReaderStep(r)) /\ SF_vars(AcquireForCopy(r))

FairSpec == Spec /\ Fairness

-----------------------------------------------------------------------------

Numbers(tracker) == {e.num : e \in AllRequests(tracker)}

\* A request that was answered 200 OK is in the tracker
\* ("all mutations are stored", write_roundtripper.go:25).
AckedIsRecorded == acked \subseteq Numbers(actionTracker)

\* Each list of the tracker is in the order of the request numbers, although
\* the goroutines that append to it race for the lock: a reader of one action
\* sees its requests in the order they were numbered.
ListsAreOrdered ==
    \A a \in Action : \A i, j \in DOMAIN actionTracker[a] :
        i < j => actionTracker[a][i].num < actionTracker[a][j].num

\* The result of GetMutations holds every request that had been answered
\* 200 OK when it was called, so a controller's writes are in the result that
\* RunOnce reads after the controller returned.
SnapshotSeesAcked ==
    \A r \in Reader : pc[r] = "idle" => mustSee[r] \subseteq Numbers(snapshot[r])

\* The lock and the lists implement the atomic log.  A number that is taken
\* but not yet filed belongs to the log's future.
BetweenNumberAndAdd == \E c \in Client : pc[c] = "numbered"

Log == INSTANCE MutationLog WITH
           log  <- AllRequests(actionTracker),
           next <- IF BetweenNumberAndAdd THEN nextRequestNumber - 1 ELSE nextRequestNumber,
           snap <- [r \in Reader |-> AllRequests(snapshot[r])]

\* Every behaviour of the tracker is one of the atomic log.
ImplementsLog == Log!AbsSpec

\* At every moment the numbers in the tracker have no gap and no repetition,
\* and each result of GetMutations is a beginning of the log.
LogInv == Log!AbsInv

\* Every goroutine that asks for the lock gets its answer.
Waiting(p) == pc[p] = "waiting"
EveryCallReturns == \A p \in Process : Waiting(p) ~> pc[p] = "idle"

==============================================================================
