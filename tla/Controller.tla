----------------------------- MODULE Controller -----------------------------
(***************************************************************************)
(* pkg/internal/controller: a Controller starts its sources, waits for      *)
(* their caches, runs MaxConcurrentReconciles workers on one work queue     *)
(* and stops when its context is done.  The processes are the calls of      *)
(* Start, the calls of Watch, the goroutine each Start leaves behind to     *)
(* shut the queue down, the workers, and the sources, whose event handlers  *)
(* add items to the queue.                                                  *)
(***************************************************************************)
EXTENDS WorkQueue, FiniteSets, Naturals

CONSTANTS
  Requests,  \* the items that are reconcile.Requests
  Sources,   \* what Watch is called with, once each
  Syncing,   \* the sources that are SyncingSources
  Starters,  \* the calls of Start
  Workers,   \* the goroutines of Start: MaxConcurrentReconciles of them
  NoOne,     \* no call of Start holds mu
  NoItem     \* a worker holds no item

ASSUME ConstantsAssumption ==
  /\ Requests \subseteq Items
  /\ Syncing \subseteq Sources
  /\ NoOne \notin Starters
  /\ NoItem \notin Items

VARIABLES
  mu,            \* the call of Start that holds Controller.mu
  started,       \* Controller.Started
  startWatches,  \* Controller.startWatches
  todo,          \* the watches the loop of the current Start has not reached
  pc,            \* where each call of Start is
  ctxDone,       \* the context given to Start is done
  stoppers,      \* the Starts whose shutdown goroutine waits on the context
  q,             \* Controller.Queue
  attached,      \* the sources whose handlers add to q
  synced,        \* the sources the current Start saw WaitForSync succeed for
  watch,         \* what became of the call of Watch for each source
  worker,        \* where each worker is
  obj,           \* the item each worker holds
  owed           \* history: the items asked for since their last reconcile

startVars == <<mu, started, startWatches, todo, pc>>
sourceVars == <<attached, synced, watch>>
workerVars == <<worker, obj>>
vars == <<startVars, ctxDone, stoppers, q, sourceVars, workerVars, owed>>

Results == {"error", "requeueAfter", "requeue", "success"}

TypeOK ==
  /\ mu \in Starters \cup {NoOne}
  /\ started \in BOOLEAN
  /\ startWatches \in Seq(Sources)
  /\ todo \in Seq(Sources)
  /\ pc \in [Starters -> {"called", "sources", "sync", "running",
                          "failed", "refused", "returned"}]
  /\ ctxDone \in BOOLEAN
  /\ stoppers \subseteq Starters
  /\ q \in Queues
  /\ attached \subseteq Sources
  /\ synced \subseteq Sources
  /\ watch \in [Sources -> {"none", "accepted", "failed"}]
  /\ worker \in [Workers -> {"off", "get", "begin", "reconcile", "done", "exit"}]
  /\ obj \in [Workers -> Items \cup {NoItem}]
  /\ \A w \in Workers : worker[w] \in {"begin", "reconcile", "done"} => obj[w] \in Items
  /\ owed \subseteq Items

Init ==
  /\ mu = NoOne /\ started = FALSE /\ startWatches = <<>> /\ todo = <<>>
  /\ pc = [s \in Starters |-> "called"]
  /\ ctxDone = FALSE /\ stoppers = {}
  /\ q = NewQueue
  /\ attached = {} /\ synced = {} /\ watch = [s \in Sources |-> "none"]
  /\ worker = [w \in Workers |-> "off"]
  /\ obj = [w \in Workers |-> NoItem]
  /\ owed = {}

----------------------------------------------------------------------------
(* Watch.  The lock is held throughout and nothing in it blocks. *)

\* An injection error, or the error of a source that does not start, is the
\* caller's; neither leaves a trace in the controller.
WatchFails(s) ==
  /\ mu = NoOne /\ watch[s] = "none"
  /\ watch' = [watch EXCEPT ![s] = "failed"]
  /\ UNCHANGED <<startVars, ctxDone, stoppers, q, attached, synced, workerVars, owed>>

\* Slip: Watch does not take the lock.
WatchUnlocked(s) ==
  /\ watch[s] = "none" /\ ~started
  /\ watch' = [watch EXCEPT ![s] = "accepted"]
  /\ startWatches' = Append(startWatches, s)
  /\ UNCHANGED <<mu, started, todo, pc, ctxDone, stoppers, q, attached, synced,
                 workerVars, owed>>

WatchBeforeStart(s) ==
  /\ mu = NoOne /\ watch[s] = "none" /\ ~started
  /\ watch' = [watch EXCEPT ![s] = "accepted"]
  /\ startWatches' = Append(startWatches, s)
  /\ UNCHANGED <<mu, started, todo, pc, ctxDone, stoppers, q, attached, synced,
                 workerVars, owed>>

WatchAfterStart(s) ==
  /\ mu = NoOne /\ watch[s] = "none" /\ started
  /\ watch' = [watch EXCEPT ![s] = "accepted"]
  /\ attached' = attached \cup {s}
  /\ UNCHANGED <<startVars, ctxDone, stoppers, q, synced, workerVars, owed>>

----------------------------------------------------------------------------
(* Start *)

\* The early return of a second Start does not unlock mu.
StartRefused(c) ==
  /\ pc[c] = "called" /\ mu = NoOne /\ started
  /\ mu' = c
  /\ pc' = [pc EXCEPT ![c] = "refused"]
  /\ UNCHANGED <<started, startWatches, todo, ctxDone, stoppers, q, sourceVars,
                 workerVars, owed>>

\* Slip: Start does not look at Started.
StartAgain(c) ==
  /\ pc[c] = "called" /\ mu = NoOne
  /\ mu' = c
  /\ pc' = [pc EXCEPT ![c] = "sources"]
  /\ todo' = startWatches
  /\ q' = NewQueue /\ attached' = {} /\ synced' = {} /\ owed' = {}
  /\ stoppers' = stoppers \cup {c}
  /\ UNCHANGED <<started, startWatches, ctxDone, watch, workerVars>>

\* A Start after one that failed makes a new queue; the handlers registered
\* by the failed one go on adding to the old queue, which no worker reads.
StartBegins(c) ==
  /\ pc[c] = "called" /\ mu = NoOne /\ ~started
  /\ mu' = c
  /\ pc' = [pc EXCEPT ![c] = "sources"]
  /\ todo' = startWatches
  /\ q' = NewQueue /\ attached' = {} /\ synced' = {} /\ owed' = {}
  /\ stoppers' = stoppers \cup {c}
  /\ UNCHANGED <<started, startWatches, ctxDone, watch, workerVars>>

\* An error of a source's Start, or of WaitForSync (CacheSyncTimeout and the
\* context included), releases mu and returns; the watches are kept.
StartFails(c) ==
  /\ todo # <<>>
  /\ \/ pc[c] = "sources"
     \/ pc[c] = "sync" /\ Head(todo) \in Syncing
  /\ mu' = NoOne
  /\ pc' = [pc EXCEPT ![c] = "failed"]
  /\ todo' = <<>>
  /\ UNCHANGED <<started, startWatches, ctxDone, stoppers, q, sourceVars,
                 workerVars, owed>>

StartSource(c) ==
  /\ pc[c] = "sources" /\ todo # <<>>
  /\ attached' = attached \cup {Head(todo)}
  /\ todo' = Tail(todo)
  /\ UNCHANGED <<mu, started, startWatches, pc, ctxDone, stoppers, q, synced,
                 watch, workerVars, owed>>

\* Slip: the caches are not waited for.
SkipSync(c) ==
  /\ pc[c] = "sources" /\ todo = <<>>
  /\ pc' = [pc EXCEPT ![c] = "sync"]
  /\ UNCHANGED <<mu, started, startWatches, todo, ctxDone, stoppers, q,
                 sourceVars, workerVars, owed>>

SourcesStarted(c) ==
  /\ pc[c] = "sources" /\ todo = <<>>
  /\ pc' = [pc EXCEPT ![c] = "sync"]
  /\ todo' = startWatches
  /\ UNCHANGED <<mu, started, startWatches, ctxDone, stoppers, q, sourceVars,
                 workerVars, owed>>

\* Only a SyncingSource is waited for.
SourceSynced(c) ==
  /\ pc[c] = "sync" /\ todo # <<>>
  /\ synced' = IF Head(todo) \in Syncing THEN synced \cup {Head(todo)} ELSE synced
  /\ todo' = Tail(todo)
  /\ UNCHANGED <<mu, started, startWatches, pc, ctxDone, stoppers, q, attached,
                 watch, workerVars, owed>>

LaunchWorkers(c) ==
  /\ pc[c] = "sync" /\ todo = <<>>
  /\ startWatches' = <<>>
  /\ worker' = [w \in Workers |-> "get"]
  /\ started' = TRUE
  /\ mu' = NoOne
  /\ pc' = [pc EXCEPT ![c] = "running"]
  /\ UNCHANGED <<todo, ctxDone, stoppers, q, sourceVars, obj, owed>>

StartReturns(c) ==
  /\ pc[c] = "running" /\ ctxDone
  /\ \A w \in Workers : worker[w] = "exit"
  /\ pc' = [pc EXCEPT ![c] = "returned"]
  /\ UNCHANGED <<mu, started, startWatches, todo, ctxDone, stoppers, q,
                 sourceVars, workerVars, owed>>

\* Slip: nothing shuts the queue down.
LeaveQueueOpen(c) ==
  /\ ctxDone /\ c \in stoppers
  /\ stoppers' = stoppers \ {c}
  /\ UNCHANGED <<startVars, ctxDone, q, sourceVars, workerVars, owed>>

\* The goroutine of a Start shuts down the queue the controller has by then.
StopQueue(c) ==
  /\ ctxDone /\ c \in stoppers
  /\ q' = ShutDown(q)
  /\ stoppers' = stoppers \ {c}
  /\ UNCHANGED <<startVars, ctxDone, sourceVars, workerVars, owed>>

----------------------------------------------------------------------------
(* A worker: processNextWorkItem, which defers Queue.Done around
   reconcileHandler. *)

\* Slip: Done is called at once instead of being deferred.
GetAndDone(w) ==
  /\ worker[w] = "get" /\ CanGet(q)
  /\ q' = Done(Get(q), Head(q.order))
  /\ obj' = [obj EXCEPT ![w] = Head(q.order)]
  /\ worker' = [worker EXCEPT ![w] = "begin"]
  /\ UNCHANGED <<startVars, ctxDone, stoppers, sourceVars, owed>>

WorkerGets(w) ==
  /\ worker[w] = "get" /\ CanGet(q)
  /\ q' = Get(q)
  /\ obj' = [obj EXCEPT ![w] = Head(q.order)]
  /\ worker' = [worker EXCEPT ![w] = "begin"]
  /\ UNCHANGED <<startVars, ctxDone, stoppers, sourceVars, owed>>

WorkerExits(w) ==
  /\ worker[w] = "get" /\ Drained(q)
  /\ worker' = [worker EXCEPT ![w] = "exit"]
  /\ UNCHANGED <<startVars, ctxDone, stoppers, q, sourceVars, obj, owed>>

\* The Reconciler is called and sees every change up to now.
BeginReconcile(w) ==
  /\ worker[w] = "begin" /\ obj[w] \in Requests
  /\ worker' = [worker EXCEPT ![w] = "reconcile"]
  /\ owed' = owed \ {obj[w]}
  /\ UNCHANGED <<startVars, ctxDone, stoppers, q, sourceVars, obj>>

\* An item that is not a Request is forgotten, never reconciled.
DropInvalid(w) ==
  /\ worker[w] = "begin" /\ obj[w] \notin Requests
  /\ worker' = [worker EXCEPT ![w] = "done"]
  /\ q' = Forget(q, obj[w])
  /\ owed' = owed \ {obj[w]}
  /\ UNCHANGED <<startVars, ctxDone, stoppers, sourceVars, obj>>

\* Slip: a result without error is final, RequeueAfter and Requeue or not.
ResultIgnored(r, k) ==
  IF r = "error" THEN AddRateLimited(q, k) ELSE Forget(q, k)

\* Slip: a success is not forgotten.
NotForgotten(r, k) ==
  CASE r = "error"        -> AddRateLimited(q, k)
    [] r = "requeueAfter" -> AddAfter(Forget(q, k), k)
    [] r = "requeue"      -> AddRateLimited(q, k)
    [] r = "success"      -> q

\* What reconcileHandler makes of a result; the error wins over the rest.
HandleResult(r, k) ==
  CASE r = "error"        -> AddRateLimited(q, k)
    [] r = "requeueAfter" -> AddAfter(Forget(q, k), k)
    [] r = "requeue"      -> AddRateLimited(q, k)
    [] r = "success"      -> Forget(q, k)

ReconcileReturns(w, r) ==
  /\ worker[w] = "reconcile"
  /\ worker' = [worker EXCEPT ![w] = "done"]
  /\ q' = HandleResult(r, obj[w])
  /\ owed' = IF r = "success" THEN owed ELSE owed \cup {obj[w]}
  /\ UNCHANGED <<startVars, ctxDone, stoppers, sourceVars, obj>>

\* Slip: Done is not called.
NeverDone(w) ==
  /\ worker[w] = "done"
  /\ obj' = [obj EXCEPT ![w] = NoItem]
  /\ worker' = [worker EXCEPT ![w] = "get"]
  /\ UNCHANGED <<startVars, ctxDone, stoppers, q, sourceVars, owed>>

WorkerDone(w) ==
  /\ worker[w] = "done"
  /\ q' = Done(q, obj[w])
  /\ obj' = [obj EXCEPT ![w] = NoItem]
  /\ worker' = [worker EXCEPT ![w] = "get"]
  /\ UNCHANGED <<startVars, ctxDone, stoppers, sourceVars, owed>>

----------------------------------------------------------------------------
(* The environment *)

\* A source delivers an event and its handler adds an item.
Event(s, k) ==
  /\ s \in attached
  /\ q' = Add(q, k)
  /\ owed' = owed \cup {k}
  /\ UNCHANGED <<startVars, ctxDone, stoppers, sourceVars, workerVars>>

DelayFires(k) ==
  /\ k \in q.waiting /\ ~q.shuttingDown
  /\ q' = DelayOver(q, k)
  /\ UNCHANGED <<startVars, ctxDone, stoppers, sourceVars, workerVars, owed>>

Cancel ==
  /\ ~ctxDone
  /\ ctxDone' = TRUE
  /\ UNCHANGED <<startVars, stoppers, q, sourceVars, workerVars, owed>>

----------------------------------------------------------------------------
Watch(s) == WatchFails(s) \/ WatchBeforeStart(s) \/ WatchAfterStart(s)

StartStep(c) ==
  \/ StartRefused(c) \/ StartBegins(c) \/ StartFails(c) \/ StartSource(c)
  \/ SourcesStarted(c) \/ SourceSynced(c) \/ LaunchWorkers(c) \/ StartReturns(c)

WorkerStep(w) ==
  \/ WorkerGets(w) \/ WorkerExits(w) \/ BeginReconcile(w) \/ DropInvalid(w)
  \/ \E r \in Results : ReconcileReturns(w, r)
  \/ WorkerDone(w)

Next ==
  \/ \E s \in Sources : Watch(s)
  \/ \E c \in Starters : StartStep(c) \/ StopQueue(c)
  \/ \E w \in Workers : WorkerStep(w)
  \/ \E s \in Sources, k \in Items : Event(s, k)
  \/ \E k \in Items : DelayFires(k)
  \/ Cancel

Spec == Init /\ [][Next]_vars

\* Goroutines are scheduled, reconciles and timers come to an end; nothing
\* makes events, Watch or the end of the context happen.
Fairness ==
  /\ \A c \in Starters : WF_vars(StartStep(c)) /\ WF_vars(StopQueue(c))
  /\ \A w \in Workers : WF_vars(WorkerStep(w))
  /\ \A k \in Items : WF_vars(DelayFires(k))

FairSpec == Spec /\ Fairness

----------------------------------------------------------------------------
(* Properties *)

Reconciling == {w \in Workers : worker[w] = "reconcile"}

\* The reconciler is never invoked concurrently with the same object, which
\* the comment on the worker loop promises: the queue hands an item out
\* again only after the worker that holds it is done with it.
SerialReconciles ==
  \A v, w \in Reconciling : obj[v] = obj[w] => v = w

\* Nothing asked for is forgotten: an item named by an event, or by a result
\* that wants another reconcile, is queued, delayed or about to be reconciled
\* until a reconcile begins after it was asked for, whatever the worker that
\* holds the item does meanwhile.
NoLostWork ==
  ~q.shuttingDown =>
     owed \subseteq q.dirty \cup q.waiting
                   \cup {obj[w] : w \in {v \in Workers : worker[v] = "begin"}}

\* The rate limiter remembers the failures of an item only while the item is
\* still to be reconciled: every end of processing that does not queue it
\* again forgets it, so the limiter does not grow with every failed object.
BackoffReleased ==
  ~q.shuttingDown => q.failed \subseteq q.dirty \cup q.waiting \cup q.processing

\* A watch accepted by Watch is served once the controller runs, whether
\* Watch came before, between or after the steps of Start.
WatchNotLost ==
  started => {s \in Sources : watch[s] = "accepted"} \subseteq attached

\* Start launches its workers only when every source that can sync has
\* synced since this Start started it.
SyncBeforeWork ==
  [][\A w \in Workers :
       worker[w] = "off" /\ worker'[w] # "off" => attached \cap Syncing \subseteq synced]_vars

\* mu is held only by a call of Start that is still running.
MutexReleased == mu # NoOne => pc[mu] \in {"sources", "sync"}

\* Once the context is done, a Start whose workers run returns: the queue is
\* shut down, drained, and every worker leaves.
StopsAfterCancel ==
  \A c \in Starters : (ctxDone /\ pc[c] = "running") ~> pc[c] = "returned"

Loop == INSTANCE ReconcileLoop WITH
          want <- owed,
          running <- [k \in Items |-> {w \in Reconciling : obj[w] = k}],
          live <- started /\ ~q.shuttingDown

\* The controller implements the reconcile loop: no reconcile of a request
\* begins while another is under way, and a request stays asked for until a
\* reconcile of it begins; only an item that is no request is dropped.
ImplementsLoop == Loop!Spec

\* Every request asked for while the workers run is eventually reconciled,
\* and every reconcile ends.
ImplementsFairLoop == Loop!FairSpec
=============================================================================
