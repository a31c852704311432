--------------------------- MODULE DistributedLocks ---------------------------
(***************************************************************************)
(* Challenge09_DistributedLockSolution of solutions/challenge09_solution.go: *)
(* the program runs its three locks, which share nothing. `solution' is    *)
(* the one that runs; the state of the others stays as it was made.        *)
(***************************************************************************)
EXTENDS TTLLock, LeaseLock, Redlock

VARIABLE solution

lockVars == <<solution, vars, leaseVars, redlockVars>>

LocksInit ==
    /\ solution \in {"TTLWithFencingToken", "RedlockAlgorithm", "LeaseBasedLock"}
    /\ Init /\ RedlockInit /\ LeaseInit

TTLStep(action) ==
    solution = "TTLWithFencingToken" /\ action /\ UNCHANGED <<solution, leaseVars, redlockVars>>

RedlockStep(action) ==
    solution = "RedlockAlgorithm" /\ action /\ UNCHANGED <<solution, vars, leaseVars>>

LeaseStep(action) ==
    solution = "LeaseBasedLock" /\ action /\ UNCHANGED <<solution, vars, redlockVars>>

LocksNext == TTLStep(Next) \/ RedlockStep(RedlockNext) \/ LeaseStep(LeaseNext)

\* The fairness of FairSpec, RedlockFairSpec and LeaseFairSpec.
LocksSpec ==
    /\ LocksInit /\ [][LocksNext]_lockVars
    /\ WF_lockVars(TTLStep(Cleanup)) /\ WF_lockVars(TTLStep(Tick))
    /\ \A c \in Clients : WF_lockVars(RedlockStep(ClientStep(c)))
    /\ WF_lockVars(LeaseStep(LeaseTick)) /\ WF_lockVars(LeaseStep(CleanupLeases))
-----------------------------------------------------------------------------
\* Bounded retries: every client of Redlock finishes, with the lock or without it.
EveryClientFinishes ==
    \A c \in Clients : solution = "RedlockAlgorithm" ~> pc[c] = "done"
=============================================================================
