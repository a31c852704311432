------------------------------ MODULE LeaseLock ------------------------------
(***************************************************************************)
(* solution3_LeaseBasedLock of solutions/challenge09_solution.go: a lease  *)
(* manager, its cleanup goroutine, and workers that acquire a lease, renew *)
(* it from a heartbeat ticker while they work, and release it.             *)
(*                                                                         *)
(* ExpiresAt is kept as the time left, -1 once it is past. acquireLease    *)
(* hands out the very pointer the table holds and IDs are never reused, so *)
(* renewLease's test of Version compares an object with itself whenever    *)
(* the IDs agree: Version is left out.                                     *)
(***************************************************************************)
EXTENDS Integers

CONSTANTS
    Workers,
    Duration,    \* the lease duration passed to acquireLease and renewLease
    MaxLeases,   \* bound: leases created in one behaviour (lm.counter)
    Nobody

ASSUME DurationAssumption == Duration \in Nat \ {0}
ASSUME LeasesAssumption == MaxLeases \in Nat
ASSUME WorkersAssumption == Nobody \notin Workers

VARIABLES
    current,  \* lm.leases[resource]; ID 0 when there is none
    counter,  \* lm.counter
    mine,     \* worker -> ID of the lease it works under, 0 when it does not work
    left      \* worker -> time left on that lease, as the worker's pointer shows it

leaseVars == <<current, counter, mine, left>>

TimeLeft == -1 .. Duration

Lease(id, h, l) == [ID |-> id, Holder |-> h, left |-> l]

NoLease == Lease(0, Nobody, -1)

LeaseTypeOK ==
    /\ current \in [ID : Nat, Holder : Workers \cup {Nobody}, left : TimeLeft]
    /\ counter \in Nat
    /\ mine \in [Workers -> Nat]
    /\ left \in [Workers -> TimeLeft]

LeaseInit ==
    /\ current = NoLease
    /\ counter = 0
    /\ mine = [w \in Workers |-> 0]
    /\ left = [w \in Workers |-> -1]
-----------------------------------------------------------------------------
Leased == current.ID # 0

\* now.Before(lease.ExpiresAt)
Valid(l) == l.left > 0

Work(w, id) ==
    /\ mine' = [mine EXCEPT ![w] = id]
    /\ left' = [left EXCEPT ![w] = Duration]

Stop(w) ==
    /\ mine' = [mine EXCEPT ![w] = 0]
    /\ left' = [left EXCEPT ![w] = -1]

\* acquireLease by the holder of a valid lease (a worker that was restarted):
\* the same lease, with a new expiry.
AcquireAgain(w) ==
    /\ mine[w] = 0
    /\ Leased /\ Valid(current) /\ current.Holder = w
    /\ current' = Lease(current.ID, w, Duration)
    /\ Work(w, current.ID)
    /\ UNCHANGED counter

\* Faulty NewID: the expired lease that is replaced passes its ID on.
NewIDInherited == IF Leased THEN current.ID ELSE counter + 1

\* Faulty NewID: the counter runs backwards.
NewIDNegative == -(counter + 1)

\* lm.counter.Add(1)
NewID == counter + 1

\* acquireLease with no lease, or an expired one, which is deleted first. With
\* another worker's valid lease it returns an error and the worker gives up.
AcquireLease(w) ==
    /\ mine[w] = 0
    /\ ~(Leased /\ Valid(current))
    /\ counter < MaxLeases
    /\ counter' = counter + 1
    /\ current' = Lease(NewID, w, Duration)
    /\ Work(w, NewID)

\* Faulty SameLease: IDs are not compared.
SameLeaseUnchecked(w) == Leased

\* The current lease is the worker's: current.ID == lease.ID.
SameLease(w) == Leased /\ current.ID = mine[w]

\* One heartbeat: renewLease. It does not look at the expiry, so it revives an
\* expired lease the cleanup has not removed; when it fails the worker stops.
Heartbeat(w) ==
    /\ mine[w] # 0
    /\ IF SameLease(w)
       THEN /\ current' = Lease(current.ID, current.Holder, Duration)
            /\ Work(w, mine[w])
       ELSE Stop(w) /\ UNCHANGED current
    /\ UNCHANGED counter

\* workDone: releaseLease deletes the lease if it is still the worker's.
Finish(w) ==
    /\ mine[w] # 0
    /\ current' = IF SameLease(w) THEN NoLease ELSE current
    /\ Stop(w)
    /\ UNCHANGED counter

\* Faulty Removable: the test against ExpiresAt is inverted.
RemovableInverted(l) == l.left > 0

\* Faulty Removable: an expiry is never recognised.
RemovableNever(l) == l.left < -1

\* now.After(lease.ExpiresAt)
Removable(l) == l.left < 0

\* One tick of the cleanup goroutine.
CleanupLeases ==
    /\ Leased /\ Removable(current)
    /\ current' = NoLease
    /\ UNCHANGED <<counter, mine, left>>

Less(t) == IF t > -1 THEN t - 1 ELSE t

\* Environment: time passes.
LeaseTick ==
    /\ current' = Lease(current.ID, current.Holder, Less(current.left))
    /\ left' = [w \in Workers |-> Less(left[w])]
    /\ UNCHANGED <<counter, mine>>

\* Environment: the worker dies with its lease and may later start afresh.
WorkerCrash(w) ==
    /\ mine[w] # 0
    /\ Stop(w)
    /\ UNCHANGED <<current, counter>>

WorkerStep(w) ==
    \/ AcquireAgain(w)
    \/ AcquireLease(w)
    \/ Heartbeat(w)
    \/ Finish(w)
    \/ WorkerCrash(w)

LeaseNext == CleanupLeases \/ LeaseTick \/ \E w \in Workers : WorkerStep(w)

LeaseSpec == LeaseInit /\ [][LeaseNext]_leaseVars

\* Time passes and the cleanup ticker fires; the workers may do nothing.
LeaseFairSpec == LeaseSpec /\ WF_leaseVars(LeaseTick) /\ WF_leaseVars(CleanupLeases)
-----------------------------------------------------------------------------
\* The worker works under a lease that has not expired.
Holds(w) == mine[w] # 0 /\ left[w] > 0

\* Two workers never hold unexpired leases together.
LeaseExclusion == \A w, v \in Workers : Holds(w) /\ Holds(v) => w = v

\* The inductive form: an unexpired lease is the table's, with the same time left.
HolderIsCurrent ==
    \A w \in Workers :
        Holds(w) => /\ current.ID = mine[w]
                    /\ current.Holder = w
                    /\ current.left = left[w]

\* IDs are not reused: two workers that still point at a lease, expired or not, point
\* at different ones, so a late renewLease or releaseLease cannot hit a successor's.
LeasesDistinct ==
    \A w, v \in Workers : mine[w] # 0 /\ mine[w] = mine[v] => w = v

\* A valid lease ends only through its holder: no other worker's acquire, late
\* heartbeat or late release, and no cleanup, takes it away.
ValidLeaseEndsByHolder ==
    [][\A w \in Workers : Holds(w) => current'.ID = mine[w] \/ mine'[w] = 0]_leaseVars

\* A lease nobody works under any more (its worker crashed) does not stay.
AbandonedLeaseEnds ==
    \A i \in 1 .. MaxLeases :
        (current.ID = i /\ \A w \in Workers : mine[w] # i)
        ~> (current.ID # i \/ \E w \in Workers : mine[w] = i)

LeaseRight == INSTANCE ExclusiveRight WITH
    Clients <- Workers,
    Resources <- {"shared_resource"},
    owners <- [r \in {"shared_resource"} |-> {w \in Workers : Holds(w)}]

\* The lease manager implements ExclusiveRight for its one resource.
LeaseIsExclusiveRight == LeaseRight!Spec
=============================================================================
