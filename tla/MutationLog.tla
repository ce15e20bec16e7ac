----------------------------- MODULE MutationLog -----------------------------
(***************************************************************************)
(* What the mutation tracker of the offline client promises its users: one *)
(* append-only log of numbered requests that is written and read           *)
(* atomically ("all mutations are stored", write_roundtripper.go).         *)
(* MutationTracker implements it with a lock, one list per action and a    *)
(* copy made list by list.                                                 *)
(***************************************************************************)
EXTENDS Integers

CONSTANTS Reader,    \* callers of GetMutations
          Request    \* the serialized requests that may be recorded

VARIABLES log,       \* the set of [num, req] recorded so far
          next,      \* the number of the next request
          acked,     \* the numbers answered 200 OK
          snap       \* the last result of each reader

absVars == <<log, next, acked, snap>>

Entry == [num: Nat \ {0}, req: Request]

AbsTypeOK == /\ log \subseteq Entry
             /\ next \in Nat \ {0}
             /\ acked \subseteq Nat \ {0}
             /\ snap \in [Reader -> SUBSET Entry]

AbsInit == /\ log = {}
           /\ next = 1
           /\ acked = {}
           /\ snap = [r \in Reader |-> {}]

Record(req) == /\ log' = log \cup {[num |-> next, req |-> req]}
               /\ next' = next + 1
               /\ UNCHANGED <<acked, snap>>

Acknowledge(e) == /\ acked' = acked \cup {e.num}
                  /\ UNCHANGED <<log, next, snap>>

Snapshot(r) == /\ snap' = [snap EXCEPT ![r] = log]
               /\ UNCHANGED <<log, next, acked>>

AbsNext == \/ \E req \in Request : Record(req)
           \/ \E e \in log : Acknowledge(e)
           \/ \E r \in Reader : Snapshot(r)

AbsSpec == AbsInit /\ [][AbsNext]_absVars

-----------------------------------------------------------------------------

\* The entries of L are numbered 1 .. n-1 without a gap or a repetition.
Numbered(L, n) ==
    /\ \A e \in L : e.num < n
    /\ \A m \in 1..(n - 1) : \E e \in L : e.num = m
    /\ \A d, e \in L : d.num = e.num => d = e

\* Numbers identify requests and leave no gap, and what was acknowledged is
\* in the log.
LogIsNumbered == Numbered(log, next) /\ acked \subseteq {e.num : e \in log}

\* What a reader got is a beginning of the log: no request of it is missing
\* while a later one is there.
SnapshotsAreCuts == \A r \in Reader : /\ snap[r] \subseteq log
                                      /\ \E n \in 1..next : Numbered(snap[r], n)

AbsInv == AbsTypeOK /\ LogIsNumbered /\ SnapshotsAreCuts

=============================================================================
