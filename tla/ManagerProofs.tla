--------------------------- MODULE ManagerProofs ---------------------------
(***************************************************************************)
(* The safety of the manager for any set of runnables and configurations.   *)
(* Everything hangs on mu: the invariant says who holds it, and what the    *)
(* others can therefore not have done.                                      *)
(***************************************************************************)
EXTENDS Manager, TLAPS

\* mu is held exactly across the waits for caches and the stop procedure.
LockInv ==
  /\ \A p \in Procs : pc[p] = "sync" <=> mu = p /\ p # "main"
  /\ mu = "main" <=> pc["main"] \in {"wait", "waitElector", "defers"}
  /\ pc["main"] # "sync"
  /\ pc["onStarted"] \in {"off", "lock", "sync", "done"}
  /\ pc["nonleader"] \in {"off", "lock", "sync", "done"}

\* startLeaderElectionRunnables is reached by one goroutine, once.
OnceInv ==
  /\ config.election = "none" => pc["onStarted"] = "off" /\ elector = "off"
  /\ config.election # "none" => pc["leader"] # "sync"
  /\ elector \in {"off", "acquiring"} => pc["onStarted"] = "off"
  /\ pc["leader"] \in {"off", "lock", "sync"} => elector = "off"
  /\ startedLeader => /\ started
                      /\ \/ config.election = "none" /\ pc["leader"] = "done"
                         \/ config.election # "none" /\ pc["onStarted"] = "done"

\* A runnable that was not accepted was not started, and its goroutines are
\* among its starts.
StartsInv ==
  /\ \A r \in Runnables : running[r] + sending[r] <= starts[r]
  /\ \A r \in Runnables : added[r] # "accepted" => starts[r] = 0
  /\ \A r \in Leaders : starts[r] <= (IF startedLeader THEN 1 ELSE 0)
  /\ \A r \in Others : pc["nonleader"] # "done" => starts[r] <= 1
  /\ \A r \in Webhooks : pc["nonleader"] \in {"off", "lock"} => starts[r] <= 1

\* The caches are started by the first goroutine that gets mu and not again.
CachesInv ==
  /\ \A c \in Caches : starts[c] <= 1
  /\ \A c \in Caches : ~started /\ mu \in {"free", "main"} => starts[c] = 0
  /\ \A c \in Caches : started /\ starts[c] > 0 => c \in synced \/ InternalDone
  /\ pc["main"] = "lock" => /\ \A p \in Procs \ {"main"} : pc[p] = "off"
                            /\ ~started /\ \A r \in Runnables : starts[r] = 0

\* What Start has waited for stays ended while it holds mu.
StopInv == GracefulStopWaits /\ ElectorEndsFirst

Inv == TypeOK /\ LockInv /\ OnceInv /\ StartsInv /\ CachesInv /\ StopInv

----------------------------------------------------------------------------
\* Every step of the manager keeps the invariant.
LEMMA StepKeepsInv ==
  ASSUME Inv, Step, config' = config
  PROVE  Inv'
<1> USE ConstantsAssumption
    DEF Inv, Runnables, Procs, Graces, MaxStarts, InternalDone, Goto,
        vars, stopVars, electVars, runVars, startVars
<1>1. CASE StartBegins
  <2>1. TypeOK'
    BY <1>1 DEF StartBegins, TypeOK, LockInv, OnceInv, StartsInv, CachesInv
  <2>2. LockInv'
    BY <1>1 DEF StartBegins, TypeOK, LockInv, OnceInv
  <2>3. OnceInv'
    BY <1>1 DEF StartBegins, TypeOK, LockInv, OnceInv, CachesInv
  <2>4. StartsInv'
    BY <1>1 DEF StartBegins, TypeOK, LockInv, OnceInv, StartsInv, CachesInv
  <2>5. CachesInv'
    BY <1>1 DEF StartBegins, TypeOK, LockInv, OnceInv, StartsInv, CachesInv
  <2>6. StopInv'
    BY <1>1 DEF StartBegins, TypeOK, LockInv, StopInv, GracefulStopWaits,
       ElectorEndsFirst, AllEnded
  <2> QED  BY <2>1, <2>2, <2>3, <2>4, <2>5, <2>6
<1>2. CASE StartFails
  BY <1>2 DEF StartFails, TypeOK, LockInv, OnceInv, StartsInv, CachesInv, StopInv,
     GracefulStopWaits, ElectorEndsFirst, AllEnded
<1>3. CASE SelectDone
  BY <1>3 DEF SelectDone, TypeOK, LockInv, OnceInv, StartsInv, CachesInv, StopInv,
     GracefulStopWaits, ElectorEndsFirst, AllEnded
<1>4. ASSUME NEW x \in Senders, SelectError(x) PROVE Inv'
  <2>1. TypeOK'
    BY <1>4 DEF SelectError, Receive, Senders, TypeOK, LockInv, OnceInv, StartsInv,
       CachesInv
  <2>2. LockInv'
    BY <1>4 DEF SelectError, Receive, Senders, TypeOK, LockInv, OnceInv
  <2>3. OnceInv'
    BY <1>4 DEF SelectError, Receive, Senders, TypeOK, LockInv, OnceInv
  <2>4. StartsInv'
    BY <1>4 DEF SelectError, Receive, Senders, TypeOK, LockInv, OnceInv, StartsInv,
       CachesInv
  <2>5. CachesInv'
    BY <1>4 DEF SelectError, Receive, Senders, TypeOK, LockInv, OnceInv, StartsInv,
       CachesInv
  <2>6. StopInv'
    BY <1>4 DEF SelectError, Receive, Senders, TypeOK, LockInv, StopInv,
       GracefulStopWaits, ElectorEndsFirst, AllEnded
  <2> QED  BY <2>1, <2>2, <2>3, <2>4, <2>5, <2>6
<1>5. ASSUME NEW x \in Senders, Drain(x) PROVE Inv'
  <2>1. TypeOK'
    BY <1>5 DEF Drain, Receive, Senders, TypeOK, LockInv, OnceInv, StartsInv,
       CachesInv
  <2>2. LockInv'
    BY <1>5 DEF Drain, Receive, Senders, TypeOK, LockInv, OnceInv
  <2>3. OnceInv'
    BY <1>5 DEF Drain, Receive, Senders, TypeOK, LockInv, OnceInv
  <2>4. StartsInv'
    BY <1>5 DEF Drain, Receive, Senders, TypeOK, LockInv, OnceInv, StartsInv,
       CachesInv
  <2>5. CachesInv'
    BY <1>5 DEF Drain, Receive, Senders, TypeOK, LockInv, OnceInv, StartsInv,
       CachesInv
  <2>6. StopInv'
    BY <1>5 DEF Drain, Receive, Senders, TypeOK, LockInv, StopInv, GracefulStopWaits,
       ElectorEndsFirst, AllEnded
  <2> QED  BY <2>1, <2>2, <2>3, <2>4, <2>5, <2>6
<1>6. CASE StopSignalled
  BY <1>6 DEF StopSignalled, TypeOK, LockInv, OnceInv, StartsInv, CachesInv, StopInv,
     GracefulStopWaits, ElectorEndsFirst, AllEnded
<1>7. CASE StopSkipped
  <2>1. TypeOK'
    BY <1>7 DEF StopSkipped, TypeOK, LockInv, OnceInv, StartsInv, CachesInv
  <2>2. LockInv'
    BY <1>7 DEF StopSkipped, TypeOK, LockInv, OnceInv
  <2>3. OnceInv'
    BY <1>7 DEF StopSkipped, TypeOK, LockInv, OnceInv
  <2>4. StartsInv'
    BY <1>7 DEF StopSkipped, TypeOK, LockInv, OnceInv, StartsInv, CachesInv
  <2>5. CachesInv'
    BY <1>7 DEF StopSkipped, TypeOK, LockInv, OnceInv, StartsInv, CachesInv
  <2>6. StopInv'
    BY <1>7 DEF StopSkipped, TypeOK, LockInv, StopInv, GracefulStopWaits,
       ElectorEndsFirst, AllEnded
  <2> QED  BY <2>1, <2>2, <2>3, <2>4, <2>5, <2>6
<1>8. CASE StopGraceful
  BY <1>8 DEF StopGraceful, TypeOK, LockInv, OnceInv, StartsInv, CachesInv, StopInv,
     GracefulStopWaits, ElectorEndsFirst, AllEnded
<1>9. CASE StopEngaged
  <2>1. TypeOK'
    BY <1>9 DEF StopEngaged, TypeOK, LockInv, OnceInv, StartsInv, CachesInv
  <2>2. LockInv'
    BY <1>9 DEF StopEngaged, TypeOK, LockInv, OnceInv
  <2>3. OnceInv'
    BY <1>9 DEF StopEngaged, TypeOK, LockInv, OnceInv
  <2>4. StartsInv'
    BY <1>9 DEF StopEngaged, TypeOK, LockInv, OnceInv, StartsInv, CachesInv
  <2>5. CachesInv'
    BY <1>9 DEF StopEngaged, TypeOK, LockInv, OnceInv, StartsInv, CachesInv
  <2>6. StopInv'
    BY <1>9 DEF StopEngaged, TypeOK, LockInv, StopInv, GracefulStopWaits,
       ElectorEndsFirst, AllEnded
  <2> QED  BY <2>1, <2>2, <2>3, <2>4, <2>5, <2>6
<1>10. CASE AllRunnablesEnded
  <2>1. TypeOK'
    BY <1>10 DEF AllRunnablesEnded, TypeOK, LockInv, OnceInv, StartsInv, CachesInv
  <2>2. LockInv'
    BY <1>10 DEF AllRunnablesEnded, TypeOK, LockInv, OnceInv
  <2>3. OnceInv'
    BY <1>10 DEF AllRunnablesEnded, TypeOK, LockInv, OnceInv
  <2>4. StartsInv'
    BY <1>10 DEF AllRunnablesEnded, TypeOK, LockInv, OnceInv, StartsInv, CachesInv
  <2>5. CachesInv'
    BY <1>10 DEF AllRunnablesEnded, TypeOK, LockInv, OnceInv, StartsInv, CachesInv
  <2>6. StopInv'
    BY <1>10 DEF AllRunnablesEnded, TypeOK, LockInv, StopInv, GracefulStopWaits,
       ElectorEndsFirst, AllEnded
  <2> QED  BY <2>1, <2>2, <2>3, <2>4, <2>5, <2>6
<1>11. CASE ElectorEnded
  BY <1>11 DEF ElectorEnded, TypeOK, LockInv, OnceInv, StartsInv, CachesInv, StopInv,
     GracefulStopWaits, ElectorEndsFirst, AllEnded
<1>12. CASE GraceExpires
  <2>1. TypeOK'
    BY <1>12 DEF GraceExpires, TypeOK, LockInv, OnceInv, StartsInv, CachesInv
  <2>2. LockInv'
    BY <1>12 DEF GraceExpires, TypeOK, LockInv, OnceInv
  <2>3. OnceInv'
    BY <1>12 DEF GraceExpires, TypeOK, LockInv, OnceInv
  <2>4. StartsInv'
    BY <1>12 DEF GraceExpires, TypeOK, LockInv, OnceInv, StartsInv, CachesInv
  <2>5. CachesInv'
    BY <1>12 DEF GraceExpires, TypeOK, LockInv, OnceInv, StartsInv, CachesInv
  <2>6. StopInv'
    BY <1>12 DEF GraceExpires, TypeOK, LockInv, StopInv, GracefulStopWaits,
       ElectorEndsFirst, AllEnded
  <2> QED  BY <2>1, <2>2, <2>3, <2>4, <2>5, <2>6
<1>13. CASE StartReturns
  <2>1. TypeOK'
    BY <1>13 DEF StartReturns, TypeOK, LockInv, OnceInv, StartsInv, CachesInv
  <2>2. LockInv'
    BY <1>13 DEF StartReturns, TypeOK, LockInv, OnceInv
  <2>3. OnceInv'
    BY <1>13 DEF StartReturns, TypeOK, LockInv, OnceInv
  <2>4. StartsInv'
    BY <1>13 DEF StartReturns, TypeOK, LockInv, OnceInv, StartsInv, CachesInv
  <2>5. CachesInv'
    BY <1>13 DEF StartReturns, TypeOK, LockInv, OnceInv, StartsInv, CachesInv
  <2>6. StopInv'
    BY <1>13 DEF StartReturns, TypeOK, LockInv, StopInv, GracefulStopWaits,
       ElectorEndsFirst, AllEnded
  <2> QED  BY <2>1, <2>2, <2>3, <2>4, <2>5, <2>6
<1>14. CASE NonLeaderWebhooks
  <2>1. TypeOK'
    BY <1>14 DEF NonLeaderWebhooks, startRunnable, CachesToStart, Accepted, TypeOK,
       LockInv, OnceInv, StartsInv, CachesInv
  <2>2. LockInv'
    BY <1>14 DEF NonLeaderWebhooks, startRunnable, CachesToStart, Accepted, TypeOK,
       LockInv, OnceInv
  <2>3. OnceInv'
    BY <1>14 DEF NonLeaderWebhooks, startRunnable, CachesToStart, Accepted, TypeOK,
       LockInv, OnceInv
  <2>4. StartsInv'
    BY <1>14 DEF NonLeaderWebhooks, startRunnable, CachesToStart, Accepted, TypeOK,
       LockInv, OnceInv, StartsInv, CachesInv
  <2>5. CachesInv'
    BY <1>14 DEF NonLeaderWebhooks, startRunnable, CachesToStart, Accepted, TypeOK,
       LockInv, OnceInv, StartsInv, CachesInv
  <2>6. StopInv'
    BY <1>14 DEF NonLeaderWebhooks, startRunnable, CachesToStart, Accepted, TypeOK,
       LockInv, StopInv, GracefulStopWaits, ElectorEndsFirst, AllEnded
  <2> QED  BY <2>1, <2>2, <2>3, <2>4, <2>5, <2>6
<1>15. CASE NonLeaderOthers
  <2>1. TypeOK'
    BY <1>15 DEF NonLeaderOthers, startRunnable, Accepted, CachesReady, TypeOK,
       LockInv, OnceInv, StartsInv, CachesInv
  <2>2. LockInv'
    BY <1>15 DEF NonLeaderOthers, startRunnable, Accepted, CachesReady, TypeOK,
       LockInv, OnceInv
  <2>3. OnceInv'
    BY <1>15 DEF NonLeaderOthers, startRunnable, Accepted, CachesReady, TypeOK,
       LockInv, OnceInv
  <2>4. StartsInv'
    BY <1>15 DEF NonLeaderOthers, startRunnable, Accepted, CachesReady, TypeOK,
       LockInv, OnceInv, StartsInv, CachesInv
  <2>5. CachesInv'
    BY <1>15 DEF NonLeaderOthers, startRunnable, Accepted, CachesReady, TypeOK,
       LockInv, OnceInv, StartsInv, CachesInv
  <2>6. StopInv'
    BY <1>15 DEF NonLeaderOthers, startRunnable, Accepted, CachesReady, TypeOK,
       LockInv, StopInv, GracefulStopWaits, ElectorEndsFirst, AllEnded
  <2> QED  BY <2>1, <2>2, <2>3, <2>4, <2>5, <2>6
<1>16. ASSUME NEW p \in Procs, LeaderCaches(p) PROVE Inv'
  <2>1. TypeOK'
    BY <1>16 DEF LeaderCaches, startRunnable, CachesToStart, Accepted, TypeOK,
       LockInv, OnceInv, StartsInv, CachesInv
  <2>2. LockInv'
    BY <1>16 DEF LeaderCaches, startRunnable, CachesToStart, Accepted, TypeOK,
       LockInv, OnceInv
  <2>3. OnceInv'
    BY <1>16 DEF LeaderCaches, startRunnable, CachesToStart, Accepted, TypeOK,
       LockInv, OnceInv
  <2>4. StartsInv'
    BY <1>16 DEF LeaderCaches, startRunnable, CachesToStart, Accepted, TypeOK,
       LockInv, OnceInv, StartsInv, CachesInv
  <2>5. CachesInv'
    BY <1>16 DEF LeaderCaches, startRunnable, CachesToStart, Accepted, TypeOK,
       LockInv, OnceInv, StartsInv, CachesInv
  <2>6. StopInv'
    BY <1>16 DEF LeaderCaches, startRunnable, CachesToStart, Accepted, TypeOK,
       LockInv, StopInv, GracefulStopWaits, ElectorEndsFirst, AllEnded
  <2> QED  BY <2>1, <2>2, <2>3, <2>4, <2>5, <2>6
<1>17. ASSUME NEW p \in Procs, LeaderRunnables(p) PROVE Inv'
  <2>1. TypeOK'
    BY <1>17 DEF LeaderRunnables, startRunnable, Accepted, CachesReady, TypeOK,
       LockInv, OnceInv, StartsInv, CachesInv
  <2>2. LockInv'
    BY <1>17 DEF LeaderRunnables, startRunnable, Accepted, CachesReady, TypeOK,
       LockInv, OnceInv
  <2>3. OnceInv'
    BY <1>17 DEF LeaderRunnables, startRunnable, Accepted, CachesReady, TypeOK,
       LockInv, OnceInv
  <2>4. StartsInv'
    BY <1>17 DEF LeaderRunnables, startRunnable, Accepted, CachesReady, TypeOK,
       LockInv, OnceInv, StartsInv, CachesInv
  <2>5. CachesInv'
    BY <1>17 DEF LeaderRunnables, startRunnable, Accepted, CachesReady, TypeOK,
       LockInv, OnceInv, StartsInv, CachesInv
  <2>6. StopInv'
    BY <1>17 DEF LeaderRunnables, startRunnable, Accepted, CachesReady, TypeOK,
       LockInv, StopInv, GracefulStopWaits, ElectorEndsFirst, AllEnded
  <2> QED  BY <2>1, <2>2, <2>3, <2>4, <2>5, <2>6
<1>18. CASE ElectionStarts
  <2>1. TypeOK'
    BY <1>18 DEF ElectionStarts, TypeOK, LockInv, OnceInv, StartsInv, CachesInv
  <2>2. LockInv'
    BY <1>18 DEF ElectionStarts, TypeOK, LockInv, OnceInv
  <2>3. OnceInv'
    BY <1>18 DEF ElectionStarts, TypeOK, LockInv, OnceInv
  <2>4. StartsInv'
    BY <1>18 DEF ElectionStarts, TypeOK, LockInv, OnceInv, StartsInv, CachesInv
  <2>5. CachesInv'
    BY <1>18 DEF ElectionStarts, TypeOK, LockInv, OnceInv, StartsInv, CachesInv
  <2>6. StopInv'
    BY <1>18 DEF ElectionStarts, TypeOK, LockInv, StopInv, GracefulStopWaits,
       ElectorEndsFirst, AllEnded
  <2> QED  BY <2>1, <2>2, <2>3, <2>4, <2>5, <2>6
<1>19. CASE ElectorAcquires
  BY <1>19 DEF ElectorAcquires, TypeOK, LockInv, OnceInv, StartsInv, CachesInv,
     StopInv, GracefulStopWaits, ElectorEndsFirst, AllEnded
<1>20. CASE LeaseLost
  BY <1>20 DEF LeaseLost, StoppedLeading, TypeOK, LockInv, OnceInv, StartsInv,
     CachesInv, StopInv, GracefulStopWaits, ElectorEndsFirst, AllEnded
<1>21. CASE ElectorCancelled
  BY <1>21 DEF ElectorCancelled, StoppedLeading, TypeOK, LockInv, OnceInv, StartsInv,
     CachesInv, StopInv, GracefulStopWaits, ElectorEndsFirst, AllEnded
<1>22. CASE ElectorStops
  BY <1>22 DEF ElectorStops, TypeOK, LockInv, OnceInv, StartsInv, CachesInv, StopInv,
     GracefulStopWaits, ElectorEndsFirst, AllEnded
<1>23. ASSUME NEW r \in Runnables, AddAccepted(r) PROVE Inv'
  <2>1. TypeOK'
    BY <1>23 DEF AddAccepted, startRunnable, ShouldStart, TypeOK, LockInv, OnceInv,
       StartsInv, CachesInv
  <2>2. LockInv'
    BY <1>23 DEF AddAccepted, startRunnable, ShouldStart, TypeOK, LockInv, OnceInv
  <2>3. OnceInv'
    BY <1>23 DEF AddAccepted, startRunnable, ShouldStart, TypeOK, LockInv, OnceInv
  <2>4. StartsInv'
    BY <1>23 DEF AddAccepted, startRunnable, ShouldStart, TypeOK, LockInv, OnceInv,
       StartsInv, CachesInv
  <2>5. CachesInv'
    BY <1>23 DEF AddAccepted, startRunnable, ShouldStart, TypeOK, LockInv, OnceInv,
       StartsInv, CachesInv
  <2>6. StopInv'
    BY <1>23 DEF AddAccepted, startRunnable, ShouldStart, TypeOK, LockInv, StopInv,
       GracefulStopWaits, ElectorEndsFirst, AllEnded
  <2> QED  BY <2>1, <2>2, <2>3, <2>4, <2>5, <2>6
<1>24. ASSUME NEW r \in Runnables, AddRefused(r) PROVE Inv'
  BY <1>24 DEF AddRefused, TypeOK, LockInv, OnceInv, StartsInv, CachesInv, StopInv,
     GracefulStopWaits, ElectorEndsFirst, AllEnded
<1>25. ASSUME NEW r \in Runnables, RunnableReturns(r) PROVE Inv'
  <2>1. TypeOK'
    BY <1>25 DEF RunnableReturns, TypeOK, LockInv, OnceInv, StartsInv, CachesInv
  <2>2. LockInv'
    BY <1>25 DEF RunnableReturns, TypeOK, LockInv, OnceInv
  <2>3. OnceInv'
    BY <1>25 DEF RunnableReturns, TypeOK, LockInv, OnceInv
  <2>4. StartsInv'
    BY <1>25 DEF RunnableReturns, TypeOK, LockInv, OnceInv, StartsInv, CachesInv
  <2>5. CachesInv'
    BY <1>25 DEF RunnableReturns, TypeOK, LockInv, OnceInv, StartsInv, CachesInv
  <2>6. StopInv'
    BY <1>25 DEF RunnableReturns, TypeOK, LockInv, StopInv, GracefulStopWaits,
       ElectorEndsFirst, AllEnded
  <2> QED  BY <2>1, <2>2, <2>3, <2>4, <2>5, <2>6
<1>26. ASSUME NEW r \in Runnables, RunnableFails(r) PROVE Inv'
  <2>1. TypeOK'
    BY <1>26 DEF RunnableFails, TypeOK, LockInv, OnceInv, StartsInv, CachesInv
  <2>2. LockInv'
    BY <1>26 DEF RunnableFails, TypeOK, LockInv, OnceInv
  <2>3. OnceInv'
    BY <1>26 DEF RunnableFails, TypeOK, LockInv, OnceInv
  <2>4. StartsInv'
    BY <1>26 DEF RunnableFails, TypeOK, LockInv, OnceInv, StartsInv, CachesInv
  <2>5. CachesInv'
    BY <1>26 DEF RunnableFails, TypeOK, LockInv, OnceInv, StartsInv, CachesInv
  <2>6. StopInv'
    BY <1>26 DEF RunnableFails, TypeOK, LockInv, StopInv, GracefulStopWaits,
       ElectorEndsFirst, AllEnded
  <2> QED  BY <2>1, <2>2, <2>3, <2>4, <2>5, <2>6
<1>27. ASSUME NEW c \in Caches, CacheSyncs(c) PROVE Inv'
  BY <1>27 DEF CacheSyncs, TypeOK, LockInv, OnceInv, StartsInv, CachesInv, StopInv,
     GracefulStopWaits, ElectorEndsFirst, AllEnded
<1>28. CASE Cancel
  BY <1>28 DEF Cancel, TypeOK, LockInv, OnceInv, StartsInv, CachesInv, StopInv,
     GracefulStopWaits, ElectorEndsFirst, AllEnded
<1> QED
  BY <1>1, <1>2, <1>3, <1>4, <1>5, <1>6, <1>7, <1>8, <1>9, <1>10, <1>11, <1>12, <1>13,
     <1>14, <1>15, <1>16, <1>17, <1>18, <1>19, <1>20, <1>21, <1>22, <1>23, <1>24,
     <1>25, <1>26, <1>27, <1>28 DEF Step, MainStep, NonLeaderStep, LeaderStep,
     ElectorStep, RunnableStep

LEMMA Invariance == Spec => []Inv
<1> USE ConstantsAssumption
<1>1. Init => Inv
  <2> SUFFICES ASSUME Init PROVE Inv
    OBVIOUS
  <2>0. config.grace \in Graces
    BY DEF Init
  <2>1. TypeOK
    <3>1. /\ pc \in [Procs -> {"lock", "off"}]
          /\ {starts, running, sending} \subseteq [Runnables -> 0..MaxStarts]
          /\ added \in [Runnables -> {"no"}]
      BY DEF Init, Procs, MaxStarts
    <3> QED  BY <2>0, <3>1, Zenon DEF Init, TypeOK
  <2>2. LockInv /\ OnceInv
    BY DEF Init, LockInv, OnceInv, Procs
  <2>3. StartsInv /\ CachesInv
    BY DEF Init, StartsInv, CachesInv, Procs, Runnables
  <2>4. StopInv
    BY DEF Init, StopInv, GracefulStopWaits, ElectorEndsFirst, Procs
  <2> QED  BY <2>1, <2>2, <2>3, <2>4 DEF Inv
<1>2. Inv /\ [Next]_vars => Inv'
  <2> SUFFICES ASSUME Inv, [Next]_vars PROVE Inv'
    OBVIOUS
  <2>1. CASE Next
    BY <2>1, StepKeepsInv DEF Next
  <2>2. CASE UNCHANGED vars
    BY <2>2 DEF Inv, TypeOK, LockInv, OnceInv, StartsInv, CachesInv, StopInv,
       GracefulStopWaits, ElectorEndsFirst, AllEnded, InternalDone,
       vars, stopVars, electVars, runVars, startVars
  <2> QED  BY <2>1, <2>2
<1> QED  BY <1>1, <1>2, PTL DEF Spec

\* The state of the manager keeps its types; no runnable is started more than
\* twice, and none ends more often than it was started.
THEOREM TypeCorrect == Spec => []TypeOK
BY Invariance, PTL DEF Inv

\* waitForCache, however often and by whomever it is called, starts no cache
\* twice.
THEOREM CachesStartedOnceHolds == Spec => []CachesStartedOnce
<1>1. Inv => CachesStartedOnce
  BY DEF Inv, CachesInv, CachesStartedOnce
<1> QED  BY <1>1, Invariance, PTL

\* No leader election runnable is started before the lease is acquired.
THEOREM LeadersAfterElectionHolds == Spec => []LeadersAfterElection
<1>1. Inv => LeadersAfterElection
  BY ConstantsAssumption
  DEF Inv, OnceInv, StartsInv, TypeOK, LeadersAfterElection, MaxStarts, Runnables
<1> QED  BY <1>1, Invariance, PTL

\* In a graceful stop the recorder is stopped after the elector has ended.
THEOREM ElectorEndsFirstHolds == Spec => []ElectorEndsFirst
<1>1. Inv => ElectorEndsFirst
  BY DEF Inv, StopInv
<1> QED  BY <1>1, Invariance, PTL

\* From the end of the wait for the runnables to the return of Start nothing
\* runs.
THEOREM GracefulStop == Spec => []GracefulStopWaits
<1>1. Inv => GracefulStopWaits
  BY DEF Inv, StopInv
<1> QED  BY <1>1, Invariance, PTL

\* Runnables other than webhook servers are started only when the caches that
\* were started have synced, or the manager is stopping.
THEOREM CachesBeforeOthersHolds == Spec => CachesBeforeOthers
<1> DEFINE Ready == InternalDone \/ \A c \in Caches : starts[c] > 0 => c \in synced
           Begun == \E r \in Others \cup Leaders : Starts(r)
<1>1. Inv /\ [Next]_vars => [Begun => Ready]_vars
  <2> SUFFICES ASSUME Inv, Next, NEW r \in Others \cup Leaders, Starts(r) PROVE Ready
    OBVIOUS
  <2> USE ConstantsAssumption DEF Inv, Runnables, InternalDone
  <2>1. starts' # starts
    BY DEF Starts, TypeOK, MaxStarts
  <2>2. started => Ready
    BY DEF CachesInv
  <2>3. CachesReady => Ready
    BY <2>2 DEF CachesReady, Accepted, StartsInv, TypeOK, MaxStarts
  <2>4. CASE NonLeaderOthers
    BY <2>3, <2>4 DEF NonLeaderOthers
  <2>5. CASE \E p \in Procs : LeaderRunnables(p)
    BY <2>3, <2>5 DEF LeaderRunnables
  <2>6. CASE \E s \in Runnables : AddAccepted(s)
    <3> PICK s \in Runnables : AddAccepted(s)
      BY <2>6
    <3>1. ShouldStart(s)
      BY <2>1 DEF AddAccepted, startRunnable, TypeOK
    <3> QED  BY <3>1, <2>2 DEF ShouldStart, OnceInv
  <2>7. CASE NonLeaderWebhooks \/ \E p \in Procs : LeaderCaches(p)
    BY <2>7 DEF NonLeaderWebhooks, LeaderCaches, startRunnable, CachesToStart, Accepted,
       Starts, TypeOK, MaxStarts
  <2> QED
    BY <2>1, <2>4, <2>5, <2>6, <2>7
    DEF Next, Step, MainStep, NonLeaderStep, LeaderStep, ElectorStep, RunnableStep,
        StartBegins, StartFails, SelectDone, SelectError, Drain, Receive, StopSignalled,
        StopSkipped, StopGraceful, StopEngaged, AllRunnablesEnded, ElectorEnded,
        GraceExpires, StartReturns, ElectionStarts, ElectorAcquires, LeaseLost,
        ElectorCancelled, ElectorStops, AddRefused, RunnableReturns, RunnableFails,
        CacheSyncs, Cancel, runVars
<1> QED  BY <1>1, Invariance, PTL DEF Spec, CachesBeforeOthers

\* Losing the lease sets the timeout of the graceful shutdown to zero, which
\* nobody sets again; Start, if it had not looked at it, goes on to return.
Skips == leaseLost => grace = "zero"
Skipping == leaseLost /\ pc["main"] \in {"select", "stop", "check", "returned"}

\* Every step keeps both.
LEMMA StepSkips ==
  ASSUME TypeOK, LockInv, Skips, Step
  PROVE  Skips' /\ (Skipping => Skipping')
<1> USE DEF Skips, Skipping, Goto, vars, stopVars, electVars, runVars, startVars, Procs
<1>0. pc \in [Procs -> {pc[p] : p \in Procs}] BY DEF TypeOK
<1>1. CASE MainStep \/ StartFails \/ GraceExpires
  <2>1. CASE \E x \in Senders : SelectError(x)
    BY <1>0, <2>1 DEF SelectError, Receive
  <2> QED BY <1>0, <1>1, <2>1 DEF MainStep, StartBegins, SelectDone, StopSignalled, StopSkipped,
             StopGraceful, StopEngaged, AllRunnablesEnded, ElectorEnded, StartReturns, StartFails,
             GraceExpires
<1>2. CASE NonLeaderStep
  BY <1>0, <1>2 DEF NonLeaderStep, NonLeaderWebhooks, NonLeaderOthers
<1>3. CASE LeaderStep
  BY <1>0, <1>3 DEF LeaderStep, ElectionStarts, LeaderCaches, LeaderRunnables, LockInv
<1>4. CASE ElectorAcquires \/ LeaseLost \/ ElectorStep
  BY <1>0, <1>4 DEF ElectorAcquires, LeaseLost, ElectorStep, ElectorCancelled, ElectorStops, StoppedLeading
<1>5. CASE \E x \in Senders : Drain(x)
  BY <1>0, <1>5 DEF Drain, Receive
<1>6. CASE \E r \in Runnables : AddAccepted(r) \/ AddRefused(r) \/ RunnableStep(r)
  BY <1>6 DEF AddAccepted, AddRefused, RunnableStep, RunnableReturns, RunnableFails
<1>7. CASE (\E c \in Caches : CacheSyncs(c)) \/ Cancel
  BY <1>7 DEF CacheSyncs, Cancel
<1> QED BY <1>1, <1>2, <1>3, <1>4, <1>5, <1>6, <1>7 DEF Step

\* A lease that is lost before the stop procedure looks at the timeout means
\* that Start never waits for the runnables (OnStoppedLeading and
\* engageStopProcedure of internal.go).
THEOREM LostLeaseSkipsGraceHolds == Spec => LostLeaseSkipsGrace
<1>1. Init => Skips
  BY DEF Init, Skips
<1>2. Inv /\ Skips /\ [Next]_vars => Skips' /\ (Skipping => Skipping')
  <2> SUFFICES ASSUME Inv, Skips, [Next]_vars PROVE Skips' /\ (Skipping => Skipping')
    OBVIOUS
  <2>1. CASE Next
    BY <2>1, StepSkips DEF Next, Inv
  <2>2. CASE UNCHANGED vars
    BY <2>2 DEF Skips, Skipping, vars, stopVars, electVars
  <2> QED BY <2>1, <2>2
<1>3. leaseLost /\ pc["main"] \in {"select", "stop", "check"} => Skipping
  BY DEF Skipping
<1>4. Skipping => pc["main"] # "wait"
  BY DEF Skipping
<1> QED BY <1>1, <1>2, <1>3, <1>4, Invariance, PTL DEF Spec, LostLeaseSkipsGrace

============================================================================
