------------------------------ MODULE Manager ------------------------------
(***************************************************************************)
(* pkg/manager: how a controllerManager starts the runnables it is given,   *)
(* elects a leader, and stops.  The processes are the call of Start, the    *)
(* goroutine for runnables without leader election, the goroutine for       *)
(* leader election, the elector, its OnStartedLeading callback, the         *)
(* goroutine of each runnable, the drain goroutine of the stop procedure,   *)
(* and calls of Add.  They share mu and the unbuffered errChan.             *)
(***************************************************************************)
EXTENDS Naturals, FiniteSets

CONSTANTS
  Webhooks,        \* the runnables that are webhook servers
  Others,          \* other runnables that do not need leader election
  Leaders,         \* runnables that need leader election
  Caches,          \* runnables that have a cache
  Cluster,         \* the cache of the manager's own cluster
  Configs          \* the configurations a manager may be made with

Graces == {"zero", "finite", "infinite"}

Runnables == Webhooks \cup Others \cup Leaders \cup Caches

ASSUME ConstantsAssumption ==
  /\ Cluster \in Caches
  /\ Webhooks \cap (Others \cup Leaders \cup Caches) = {}
  /\ Others \cap (Leaders \cup Caches) = {}
  /\ Leaders \cap Caches = {}
  /\ Configs \subseteq [election : {"none", "valid", "invalid"}, grace : Graces]

\* The goroutines that take mu for more than one step.
Procs == {"main", "nonleader", "leader", "onStarted"}

VARIABLES
  config,         \* whether there is a resource lock and the elector accepts its
                  \* parameters, and the configured gracefulShutdownTimeout
  mu,             \* who holds cm.mu, or "free"
  pc,             \* where each of Procs is
  added,          \* what became of Add for each runnable
  started,        \* cm.started
  startedLeader,  \* cm.startedLeader
  elected,        \* cm.elected is closed
  stopEngaged,    \* cm.stopProcedureEngaged
  stopSignal,     \* cm.internalProceduresStop is closed, cm.internalCtx cancelled
  ctxDone,        \* the context given to Start is done
  grace,          \* cm.gracefulShutdownTimeout
  deadline,       \* the shutdown context has a timeout
  draining,       \* the drain goroutine of the stop procedure runs
  leCancel,       \* cm.leaderElectionCancel: "nil", "set" or "called"
  elector,        \* where the leader elector is
  leaseLost,      \* history: the lease was lost without being given up
  recorder,       \* the recorder provider is "on" or "stopped"
  result,         \* the errors Start returns; {} is nil
  starts,         \* history: how often each runnable was started
  running,        \* its goroutines inside Start
  sending,        \* its goroutines blocked on errChan
  synced          \* the caches that have synced

stopVars == <<stopEngaged, stopSignal, grace, deadline, draining, recorder, result>>
electVars == <<leCancel, elector, leaseLost, elected>>
runVars == <<starts, running, sending>>
startVars == <<added, started, startedLeader>>
vars == <<config, mu, pc, startVars, stopVars, electVars, runVars, ctxDone, synced>>

\* A runnable is started at most once by Add and once by a loop over a list.
MaxStarts == 2

TypeOK ==
  /\ config \in Configs
  /\ mu \in Procs \cup {"free"}
  /\ pc \in [Procs -> {"off", "lock", "sync", "send", "done", "select", "stop", "check",
                       "engage", "wait", "waitElector", "defers", "returned"}]
  /\ added \in [Runnables -> {"no", "accepted", "refused"}]
  /\ {started, startedLeader, elected, stopEngaged, stopSignal, ctxDone, deadline,
      draining, leaseLost} \subseteq BOOLEAN
  /\ grace \in Graces
  /\ leCancel \in {"nil", "set", "called"}
  /\ elector \in {"off", "acquiring", "leading", "sending", "waitCancel", "stopped"}
  /\ recorder \in {"on", "stopped"}
  /\ result \subseteq {"add", "run", "stop"}
  /\ starts \in [Runnables -> 0..MaxStarts]
  /\ running \in [Runnables -> 0..MaxStarts]
  /\ sending \in [Runnables -> 0..MaxStarts]
  /\ synced \subseteq Caches

Init ==
  /\ config \in Configs
  /\ mu = "free"
  /\ pc = [p \in Procs |-> IF p = "main" THEN "lock" ELSE "off"]
  /\ added = [r \in Runnables |-> "no"]
  /\ started = FALSE /\ startedLeader = FALSE /\ elected = FALSE
  /\ stopEngaged = FALSE /\ stopSignal = FALSE /\ ctxDone = FALSE
  /\ grace = config.grace /\ deadline = FALSE /\ draining = FALSE
  /\ leCancel = "nil" /\ elector = "off" /\ leaseLost = FALSE
  /\ recorder = "on" /\ result = {}
  /\ starts = [r \in Runnables |-> 0]
  /\ running = [r \in Runnables |-> 0]
  /\ sending = [r \in Runnables |-> 0]
  /\ synced = {}

Accepted(S) == {r \in S : added[r] = "accepted"}

\* internalCtx is derived from the context given to Start.
InternalDone == ctxDone \/ stopSignal

Goto(p, l) == pc' = [pc EXCEPT ![p] = l]

----------------------------------------------------------------------------
(* Runnables *)

\* startRunnable for every runnable of S: a goroutine, counted by the wait
\* group until it has handed over its error.
startRunnable(S) ==
  /\ starts' = [r \in Runnables |-> IF r \in S THEN starts[r] + 1 ELSE starts[r]]
  /\ running' = [r \in Runnables |-> IF r \in S THEN running[r] + 1 ELSE running[r]]
  /\ UNCHANGED sending

AllEnded == \A r \in Runnables : running[r] = 0 /\ sending[r] = 0

\* A runnable may return nil whenever it likes; a cache blocks until its
\* context is done.
RunnableReturns(r) ==
  /\ running[r] > 0
  /\ r \in Caches => InternalDone
  /\ running' = [running EXCEPT ![r] = @ - 1]
  /\ UNCHANGED <<mu, pc, startVars, stopVars, electVars, starts, sending, ctxDone, synced>>

RunnableFails(r) ==
  /\ running[r] > 0
  /\ running' = [running EXCEPT ![r] = @ - 1]
  /\ sending' = [sending EXCEPT ![r] = @ + 1]
  /\ UNCHANGED <<mu, pc, startVars, stopVars, electVars, starts, ctxDone, synced>>

CacheSyncs(c) ==
  /\ running[c] > 0 /\ c \notin synced
  /\ synced' = synced \cup {c}
  /\ UNCHANGED <<mu, pc, startVars, stopVars, electVars, runVars, ctxDone>>

----------------------------------------------------------------------------
(* Add *)

\* Slip: leader election runnables follow cm.started.
ShouldStartEarly(r) == r \notin Caches /\ started

\* A runnable with a cache is only put on its list.
ShouldStart(r) ==
  \/ r \in Webhooks \cup Others /\ started
  \/ r \in Leaders /\ startedLeader

AddAccepted(r) ==
  /\ mu = "free" /\ added[r] = "no" /\ r # Cluster /\ ~stopEngaged
  /\ added' = [added EXCEPT ![r] = "accepted"]
  /\ startRunnable(IF ShouldStart(r) THEN {r} ELSE {})
  /\ UNCHANGED <<mu, pc, started, startedLeader, stopVars, electVars, ctxDone, synced>>

\* Refused by the stop procedure, or by a failing injection.
AddRefused(r) ==
  /\ mu = "free" /\ added[r] = "no" /\ r # Cluster
  /\ added' = [added EXCEPT ![r] = "refused"]
  /\ UNCHANGED <<mu, pc, started, startedLeader, stopVars, electVars, runVars, ctxDone, synced>>

----------------------------------------------------------------------------
(* Starting *)

\* Start: its own Add of the cluster, then the goroutines.
StartBegins ==
  /\ pc["main"] = "lock" /\ mu = "free"
  /\ added' = [added EXCEPT ![Cluster] = "accepted"]
  /\ pc' = [pc EXCEPT !["main"] = "select", !["nonleader"] = "lock", !["leader"] = "lock"]
  /\ UNCHANGED <<mu, started, startedLeader, stopVars, electVars, runVars, ctxDone, synced>>

\* The cluster is not accepted: Start returns before it defers anything.
StartFails ==
  /\ pc["main"] = "lock" /\ mu = "free"
  /\ Goto("main", "returned")
  /\ result' = {"add"}
  /\ UNCHANGED <<mu, startVars, stopEngaged, stopSignal, grace, deadline, draining, recorder,
                 electVars, runVars, ctxDone, synced>>

\* Slip: the caches are started whether or not cm.started is set.
AllCaches == Accepted(Caches)

\* waitForCache up to the wait: what it starts, ...
CachesToStart == IF started THEN {} ELSE Accepted(Caches)

\* Slip: waitForCache does not wait.
NoWait == TRUE

\* ... and its end.  The result of WaitForCacheSync is not looked at: a done
\* context ends the wait as a sync does.
CachesReady == started \/ InternalDone \/ Accepted(Caches) \subseteq synced

\* startNonLeaderElectionRunnables holds mu from here ...
NonLeaderWebhooks ==
  /\ pc["nonleader"] = "lock" /\ mu = "free"
  /\ mu' = "nonleader"
  /\ Goto("nonleader", "sync")
  /\ startRunnable(Accepted(Webhooks) \cup CachesToStart)
  /\ UNCHANGED <<startVars, stopVars, electVars, ctxDone, synced>>

\* ... to here.
NonLeaderOthers ==
  /\ pc["nonleader"] = "sync" /\ CachesReady
  /\ mu' = "free"
  /\ Goto("nonleader", "done")
  /\ started' = TRUE
  /\ startRunnable(Accepted(Others))
  /\ UNCHANGED <<added, startedLeader, stopVars, electVars, ctxDone, synced>>

\* startLeaderElectionRunnables, called by the leader goroutine when there is
\* no leader election and by OnStartedLeading when there is.
LeaderCaches(p) ==
  /\ p = IF config.election = "none" THEN "leader" ELSE "onStarted"
  /\ pc[p] = "lock" /\ mu = "free"
  /\ mu' = p
  /\ Goto(p, "sync")
  /\ startRunnable(CachesToStart)
  /\ UNCHANGED <<startVars, stopVars, electVars, ctxDone, synced>>

\* Slip: leader runnables are started without cm.startedLeader being set.
LeaderRunnablesUnmarked(p) ==
  /\ pc[p] = "sync" /\ p \in {"leader", "onStarted"} /\ CachesReady
  /\ mu' = "free"
  /\ Goto(p, "done")
  /\ started' = TRUE /\ elected' = TRUE
  /\ startRunnable(Accepted(Leaders))
  /\ UNCHANGED <<added, startedLeader, stopVars, leCancel, elector, leaseLost, ctxDone, synced>>

LeaderRunnables(p) ==
  /\ pc[p] = "sync" /\ p \in {"leader", "onStarted"} /\ CachesReady
  /\ mu' = "free"
  /\ Goto(p, "done")
  /\ started' = TRUE /\ startedLeader' = TRUE /\ elected' = TRUE
  /\ startRunnable(Accepted(Leaders))
  /\ UNCHANGED <<added, stopVars, leCancel, elector, leaseLost, ctxDone, synced>>

----------------------------------------------------------------------------
(* Leader election *)

\* startLeaderElection: the cancel function is set under mu, then the elector
\* is made and run, or its error is sent.
ElectionStarts ==
  /\ config.election # "none"
  /\ pc["leader"] = "lock" /\ mu = "free"
  /\ leCancel' = "set"
  /\ IF config.election = "invalid"
       THEN Goto("leader", "send") /\ UNCHANGED elector
       ELSE Goto("leader", "done") /\ elector' = "acquiring"
  /\ UNCHANGED <<mu, startVars, stopVars, leaseLost, elected, runVars, ctxDone, synced>>

\* The lease is acquired and OnStartedLeading gets a goroutine.
ElectorAcquires ==
  /\ elector = "acquiring"
  /\ elector' = "leading"
  /\ Goto("onStarted", "lock")
  /\ UNCHANGED <<mu, startVars, stopVars, leCancel, leaseLost, elected, runVars, ctxDone, synced>>

\* Slip: losing the lease does not skip the graceful shutdown.
StoppedLeadingGracefully ==
  /\ elector' = "sending"
  /\ UNCHANGED grace

\* OnStoppedLeading, up to the send on errChan.
StoppedLeading ==
  /\ elector' = "sending"
  /\ grace' = "zero"

LeaseLost ==
  /\ elector = "leading"
  /\ StoppedLeading
  /\ leaseLost' = TRUE
  /\ UNCHANGED <<mu, pc, startVars, stopEngaged, stopSignal, deadline, draining, recorder, result,
                 leCancel, elected, runVars, ctxDone, synced>>

ElectorCancelled ==
  /\ elector \in {"acquiring", "leading"} /\ leCancel = "called"
  /\ StoppedLeading
  /\ UNCHANGED <<mu, pc, startVars, stopEngaged, stopSignal, deadline, draining, recorder, result,
                 leCancel, leaseLost, elected, runVars, ctxDone, synced>>

ElectorStops ==
  /\ elector = "waitCancel" /\ leCancel = "called"
  /\ elector' = "stopped"
  /\ UNCHANGED <<mu, pc, startVars, stopVars, leCancel, leaseLost, elected, runVars, ctxDone, synced>>

----------------------------------------------------------------------------
(* errChan *)

Senders == Runnables \cup {"leader", "elector"}

\* The receive of the error that x is blocked on; Start goes to l.
Receive(x, l) ==
  /\ \/ x \in Runnables /\ sending[x] > 0
        /\ sending' = [sending EXCEPT ![x] = @ - 1]
        /\ Goto("main", l) /\ UNCHANGED elector
     \/ x = "leader" /\ pc["leader"] = "send"
        /\ pc' = [pc EXCEPT !["main"] = l, !["leader"] = "done"]
        /\ UNCHANGED <<sending, elector>>
     \/ x = "elector" /\ elector = "sending"
        /\ elector' = "waitCancel"
        /\ Goto("main", l) /\ UNCHANGED sending
  /\ UNCHANGED <<mu, startVars, stopEngaged, stopSignal, grace, deadline, draining, recorder,
                 leCancel, leaseLost, elected, starts, running, ctxDone, synced>>

\* The select of Start takes an error ...
SelectError(x) ==
  /\ pc["main"] = "select"
  /\ Receive(x, "stop")
  /\ result' = {"run"}

\* Slip: nothing drains errChan once Start has left its select.
DrainNothing(x) == draining /\ x = "nobody" /\ UNCHANGED vars

\* ... and the stop procedure drains the others until Start returns.
Drain(x) ==
  /\ draining
  /\ Receive(x, pc["main"])
  /\ UNCHANGED result

----------------------------------------------------------------------------
(* Stopping *)

SelectDone ==
  /\ pc["main"] = "select" /\ ctxDone
  /\ Goto("main", "stop")
  /\ UNCHANGED <<mu, startVars, stopVars, electVars, runVars, ctxDone, synced>>

\* engageStopProcedure up to its second look at gracefulShutdownTimeout,
\* which is not protected by mu.
StopSignalled ==
  /\ pc["main"] = "stop"
  /\ deadline' = (grace = "finite")
  /\ stopSignal' = TRUE /\ draining' = TRUE
  /\ Goto("main", "check")
  /\ UNCHANGED <<mu, startVars, stopEngaged, grace, recorder, result, electVars, runVars, ctxDone, synced>>

StopSkipped ==
  /\ pc["main"] = "check" /\ grace = "zero"
  /\ draining' = FALSE
  /\ Goto("main", "returned")
  /\ UNCHANGED <<mu, startVars, stopEngaged, stopSignal, grace, deadline, recorder, result,
                 electVars, runVars, ctxDone, synced>>

StopGraceful ==
  /\ pc["main"] = "check" /\ grace # "zero"
  /\ Goto("main", "engage")
  /\ UNCHANGED <<mu, startVars, stopVars, electVars, runVars, ctxDone, synced>>

\* Slip: stopProcedureEngaged is set without holding mu to the end.
StopEngagedUnlocked ==
  /\ pc["main"] = "engage" /\ mu = "free"
  /\ stopEngaged' = TRUE
  /\ Goto("main", "wait")
  /\ UNCHANGED <<mu, startVars, stopSignal, grace, deadline, draining, recorder, result,
                 electVars, runVars, ctxDone, synced>>

StopEngaged ==
  /\ pc["main"] = "engage" /\ mu = "free"
  /\ mu' = "main" /\ stopEngaged' = TRUE
  /\ Goto("main", "wait")
  /\ UNCHANGED <<startVars, stopSignal, grace, deadline, draining, recorder, result,
                 electVars, runVars, ctxDone, synced>>

\* waitForRunnableToEnd: the wait group ends the shutdown context ...
AllRunnablesEnded ==
  /\ pc["main"] = "wait" /\ AllEnded
  /\ IF leCancel = "nil"
       THEN Goto("main", "defers") /\ UNCHANGED leCancel
       ELSE Goto("main", "waitElector") /\ leCancel' = "called"
  /\ UNCHANGED <<mu, startVars, stopVars, elector, leaseLost, elected, runVars, ctxDone, synced>>

\* Slip: the stop procedure does not wait for leaderElectionStopped.
ElectorIgnored ==
  /\ pc["main"] = "waitElector"
  /\ Goto("main", "defers")
  /\ UNCHANGED <<mu, startVars, stopVars, electVars, runVars, ctxDone, synced>>

ElectorEnded ==
  /\ pc["main"] = "waitElector" /\ elector = "stopped"
  /\ Goto("main", "defers")
  /\ UNCHANGED <<mu, startVars, stopVars, electVars, runVars, ctxDone, synced>>

\* ... or its deadline does: the error is added to the one Start has, if any,
\* and leader election is left alone.
GraceExpires ==
  /\ pc["main"] = "wait" /\ deadline
  /\ Goto("main", "defers")
  /\ result' = result \cup {"stop"}
  /\ UNCHANGED <<mu, startVars, stopEngaged, stopSignal, grace, deadline, draining, recorder,
                 electVars, runVars, ctxDone, synced>>

\* The deferred calls: the recorder is stopped, mu released, the drain ended.
StartReturns ==
  /\ pc["main"] = "defers"
  /\ recorder' = "stopped" /\ mu' = "free" /\ draining' = FALSE
  /\ Goto("main", "returned")
  /\ UNCHANGED <<startVars, stopEngaged, stopSignal, grace, deadline, result,
                 electVars, runVars, ctxDone, synced>>

Cancel ==
  /\ ~ctxDone
  /\ ctxDone' = TRUE
  /\ UNCHANGED <<mu, pc, startVars, stopVars, electVars, runVars, synced>>

----------------------------------------------------------------------------
MainStep ==
  \/ StartBegins \/ SelectDone \/ StopSignalled \/ StopSkipped \/ StopGraceful
  \/ StopEngaged \/ AllRunnablesEnded \/ ElectorEnded \/ StartReturns
  \/ \E x \in Senders : SelectError(x)

NonLeaderStep == NonLeaderWebhooks \/ NonLeaderOthers

LeaderStep == ElectionStarts \/ \E p \in Procs : LeaderCaches(p) \/ LeaderRunnables(p)

ElectorStep == ElectorCancelled \/ ElectorStops

RunnableStep(r) == RunnableReturns(r) \/ RunnableFails(r)

Step ==
  \/ MainStep \/ StartFails \/ GraceExpires
  \/ NonLeaderStep \/ LeaderStep
  \/ ElectorAcquires \/ LeaseLost \/ ElectorStep
  \/ \E x \in Senders : Drain(x)
  \/ \E r \in Runnables : AddAccepted(r) \/ AddRefused(r) \/ RunnableStep(r)
  \/ \E c \in Caches : CacheSyncs(c)
  \/ Cancel

Next == Step /\ UNCHANGED config

Spec == Init /\ [][Next]_vars

\* Goroutines that can run do; a runnable, as its documentation asks, returns
\* once its context is done; the API server answers, so that caches sync.
Fairness ==
  /\ WF_vars(MainStep /\ UNCHANGED config)
  /\ WF_vars(NonLeaderStep /\ UNCHANGED config)
  /\ WF_vars(LeaderStep /\ UNCHANGED config)
  /\ WF_vars(ElectorStep /\ UNCHANGED config)
  /\ \A x \in Senders : WF_vars(Drain(x) /\ UNCHANGED config)
  /\ \A r \in Runnables : WF_vars(InternalDone /\ RunnableStep(r) /\ UNCHANGED config)
  /\ \A c \in Caches : WF_vars(CacheSyncs(c) /\ UNCHANGED config)

FairSpec == Spec /\ Fairness

----------------------------------------------------------------------------
(* Properties *)

\* A step that starts r.
Starts(r) == starts'[r] > starts[r]

\* waitForCache may be reached by two goroutines, and Add may add caches at
\* any time: no cache is started twice ("Making sure that the cache doesn't
\* get started twice").
CachesStartedOnce == \A c \in Caches : starts[c] <= 1

\* Whoever starts a runnable other than a webhook server, the loops or Add,
\* every cache that was started has synced by then, or the manager is
\* stopping.
CachesBeforeOthers ==
  [][(\E r \in Others \cup Leaders : Starts(r))
       => InternalDone \/ \A c \in Caches : starts[c] > 0 => c \in synced]_vars

\* With leader election, no path through Add or the loops starts a leader
\* election runnable before the lease was acquired.
LeadersAfterElection ==
  config.election # "none" /\ (\E r \in Leaders : starts[r] > 0) => elector \notin {"off", "acquiring"}

\* When the stop procedure cancels the leader election, and until it returns,
\* no runnable is running or about to report an error: none can be started
\* behind the back of the wait group.
GracefulStopWaits ==
  pc["main"] \in {"waitElector", "defers"} /\ "stop" \notin result => AllEnded

\* A graceful stop stops the recorder only after the elector it knows of has
\* ended.
ElectorEndsFirst ==
  pc["main"] = "defers" /\ "stop" \notin result => leCancel = "nil" \/ elector = "stopped"

\* A lease that is lost before the stop procedure has looked at the timeout
\* means no waiting for runnables.
LostLeaseSkipsGrace ==
  [](leaseLost /\ pc["main"] \in {"select", "stop", "check"} => [](pc["main"] # "wait"))

\* Once the context is done or a runnable has failed, Start returns: errChan
\* is drained, so nobody who holds mu or is waited for is stuck on it.
StopCompletes == InternalDone \/ (\E r \in Runnables : sending[r] > 0) ~> pc["main"] = "returned"

\* A runnable without a cache that Add accepted, before, during or after the
\* start, is started, unless the manager stops first; a leader election
\* runnable needs the lease.
AddedIsStarted ==
  \A r \in Runnables \ Caches :
    added[r] = "accepted" /\ (r \in Leaders => elected)
      ~> starts[r] > 0 \/ InternalDone \/ pc["main"] = "returned"

\* internal.go: "Webhooks MUST start before any cache is populated".
WebhooksFirst ==
  [][synced' # synced => \A w \in Accepted(Webhooks) : starts[w] > 0]_vars
============================================================================
