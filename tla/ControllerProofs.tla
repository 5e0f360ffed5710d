-------------------------- MODULE ControllerProofs --------------------------
(***************************************************************************)
(* Proofs about Controller, for any number of items, sources, workers and   *)
(* calls of Start.  First what each method of the work queue leaves behind, *)
(* field by field, and that none of them disturbs the order.                *)
(***************************************************************************)
EXTENDS Controller, TLAPS

\* The queue orders dirty items that nobody processes, each one once.
OrderOK(x) ==
  /\ \A i \in 1..Len(x.order) :
       x.order[i] \in x.dirty /\ x.order[i] \notin x.processing
  /\ \A i, j \in 1..Len(x.order) : x.order[i] = x.order[j] => i = j

\* Two queues that differ in the given fields only.
SameBut(x, y, order, dirty, processing, waiting, failed) ==
  /\ y \in Queues
  /\ y.order = order /\ y.dirty = dirty /\ y.processing = processing
  /\ y.waiting = waiting /\ y.failed = failed
  /\ y.shuttingDown = x.shuttingDown

\* The elements of a sequence after Append and Tail.
LEMMA AppendElements ==
  ASSUME NEW S, NEW s \in Seq(S), NEW e \in S
  PROVE  /\ Append(s, e) \in Seq(S)
         /\ Len(Append(s, e)) = Len(s) + 1
         /\ \A i \in 1..Len(s) : Append(s, e)[i] = s[i]
         /\ Append(s, e)[Len(s) + 1] = e
OBVIOUS

LEMMA TailElements ==
  ASSUME NEW S, NEW s \in Seq(S), s # <<>>
  PROVE  /\ Tail(s) \in Seq(S) /\ Head(s) \in S
         /\ Len(s) \in Nat \ {0} /\ Len(Tail(s)) = Len(s) - 1
         /\ Head(s) = s[1]
         /\ \A i \in 1..Len(Tail(s)) : Tail(s)[i] = s[i + 1]
OBVIOUS

\* The updates of a queue record the methods make.
LEMMA Updates ==
  ASSUME NEW x \in Queues, NEW o \in Seq(Items),
         NEW d \in SUBSET Items, NEW p \in SUBSET Items
  PROVE  /\ SameBut(x, [x EXCEPT !.dirty = d, !.order = o],
                    o, d, x.processing, x.waiting, x.failed)
         /\ SameBut(x, [x EXCEPT !.order = o, !.processing = p, !.dirty = d],
                    o, d, p, x.waiting, x.failed)
BY DEF Queues, SameBut

\* Add makes the item dirty and queues it unless it is being processed; a
\* queue that shuts down ignores it.
LEMMA AddFields ==
  ASSUME NEW x \in Queues, NEW k \in Items
  PROVE  SameBut(x, Add(x, k),
           IF x.shuttingDown \/ k \in x.dirty \/ k \in x.processing
             THEN x.order ELSE Append(x.order, k),
           IF x.shuttingDown THEN x.dirty ELSE x.dirty \cup {k},
           x.processing, x.waiting, x.failed)
<1> DEFINE a == Append(x.order, k)
<1>1. a \in Seq(Items)
  BY AppendElements DEF Queues
<1>2. Add(x, k) = IF x.shuttingDown \/ k \in x.dirty THEN x
                  ELSE [x EXCEPT !.dirty = @ \cup {k},
                                 !.order = IF k \in x.processing THEN @ ELSE a]
  BY DEF Add
<1> HIDE DEF a
<1>3. x.order \in Seq(Items) /\ x.dirty \cup {k} \in SUBSET Items
  BY DEF Queues
<1>4. CASE x.shuttingDown \/ k \in x.dirty
  BY <1>2, <1>4 DEF Queues, SameBut
<1>5. CASE ~(x.shuttingDown \/ k \in x.dirty) /\ k \in x.processing
  <2>1. Add(x, k) = [x EXCEPT !.dirty = x.dirty \cup {k}, !.order = x.order]
    BY <1>2, <1>5
  <2>2. SameBut(x, Add(x, k), x.order, x.dirty \cup {k}, x.processing, x.waiting, x.failed)
    BY <2>1, <1>3, Updates
  <2> QED
    BY <2>2, <1>5
<1>6. CASE ~(x.shuttingDown \/ k \in x.dirty) /\ k \notin x.processing
  <2>1. Add(x, k) = [x EXCEPT !.dirty = x.dirty \cup {k}, !.order = a]
    BY <1>2, <1>6
  <2>2. SameBut(x, Add(x, k), a, x.dirty \cup {k}, x.processing, x.waiting, x.failed)
    BY <2>1, <1>1, <1>3, Updates
  <2> QED
    BY <2>2, <1>6 DEF a
<1> QED
  BY <1>4, <1>5, <1>6

\* Get moves the first item from the order to the items being processed.
LEMMA GetFields ==
  ASSUME NEW x \in Queues, CanGet(x)
  PROVE  /\ Head(x.order) \in Items
         /\ SameBut(x, Get(x), Tail(x.order), x.dirty \ {Head(x.order)},
                    x.processing \cup {Head(x.order)}, x.waiting, x.failed)
<1> DEFINE h == Head(x.order)
           t == Tail(x.order)
<1>1. h \in Items /\ t \in Seq(Items)
  BY TailElements DEF Queues, CanGet
<1>2. Get(x) = [x EXCEPT !.order = t, !.processing = @ \cup {h}, !.dirty = @ \ {h}]
  BY DEF Get
<1> HIDE DEF h, t
<1>3. SameBut(x, Get(x), t, x.dirty \ {h}, x.processing \cup {h}, x.waiting, x.failed)
  <2> DEFINE p == x.processing \cup {h}
             d == x.dirty \ {h}
  <2>1. d \in SUBSET Items /\ p \in SUBSET Items
    BY <1>1 DEF Queues
  <2>2. Get(x) = [x EXCEPT !.order = t, !.processing = p, !.dirty = d]
    BY <1>2
  <2> HIDE DEF p, d
  <2>3. SameBut(x, [x EXCEPT !.order = t, !.processing = p, !.dirty = d],
                t, d, p, x.waiting, x.failed)
    BY <1>1, <2>1, Updates
  <2> QED
    BY <2>2, <2>3 DEF p, d
<1> QED
  BY <1>1, <1>3 DEF h, t

\* Done ends the processing and queues an item that became dirty meanwhile.
LEMMA DoneFields ==
  ASSUME NEW x \in Queues, NEW k \in Items
  PROVE  SameBut(x, Done(x, k), IF k \in x.dirty THEN Append(x.order, k) ELSE x.order,
                 x.dirty, x.processing \ {k}, x.waiting, x.failed)
<1> DEFINE a == Append(x.order, k)
<1>1. a \in Seq(Items)
  BY AppendElements DEF Queues
<1>2. Done(x, k) = [x EXCEPT !.processing = @ \ {k},
                             !.order = IF k \in x.dirty THEN a ELSE @]
  BY DEF Done
<1> HIDE DEF a
<1>3. SameBut(x, Done(x, k), IF k \in x.dirty THEN a ELSE x.order,
              x.dirty, x.processing \ {k}, x.waiting, x.failed)
  BY <1>1, <1>2 DEF Queues, SameBut
<1> QED
  BY <1>3 DEF a

\* AddAfter, AddRateLimited, Forget: the order and the dirty items stay.
LEMMA DelayFields ==
  ASSUME NEW x \in Queues, NEW k \in Items
  PROVE  /\ SameBut(x, AddAfter(x, k), x.order, x.dirty, x.processing,
                    IF x.shuttingDown THEN x.waiting ELSE x.waiting \cup {k}, x.failed)
         /\ SameBut(x, AddRateLimited(x, k), x.order, x.dirty, x.processing,
                    IF x.shuttingDown THEN x.waiting ELSE x.waiting \cup {k},
                    x.failed \cup {k})
         /\ SameBut(x, Forget(x, k), x.order, x.dirty, x.processing, x.waiting,
                    x.failed \ {k})
         /\ SameBut(x, AddAfter(Forget(x, k), k), x.order, x.dirty, x.processing,
                    IF x.shuttingDown THEN x.waiting ELSE x.waiting \cup {k},
                    x.failed \ {k})
  BY DEF AddAfter, AddRateLimited, Forget, Queues, SameBut

\* When the delay of an item is over it is added.
LEMMA DelayOverFields ==
  ASSUME NEW x \in Queues, NEW k \in Items, ~x.shuttingDown
  PROVE  SameBut(x, DelayOver(x, k),
           IF k \in x.dirty \/ k \in x.processing THEN x.order ELSE Append(x.order, k),
           x.dirty \cup {k}, x.processing, x.waiting \ {k}, x.failed)
<1> DEFINE y == [x EXCEPT !.waiting = @ \ {k}]
<1>1. SameBut(x, y, x.order, x.dirty, x.processing, x.waiting \ {k}, x.failed)
  BY DEF Queues, SameBut
<1>2. DelayOver(x, k) = Add(y, k)
  BY DEF DelayOver
<1> HIDE DEF y
<1>3. SameBut(y, Add(y, k),
           IF y.shuttingDown \/ k \in y.dirty \/ k \in y.processing
             THEN y.order ELSE Append(y.order, k),
           IF y.shuttingDown THEN y.dirty ELSE y.dirty \cup {k},
           y.processing, y.waiting, y.failed)
  BY <1>1, AddFields DEF SameBut
<1> QED
  BY <1>1, <1>2, <1>3 DEF SameBut

----------------------------------------------------------------------------
\* Queueing an item that is not queued keeps the order free of repetitions.
LEMMA AppendOrder ==
  ASSUME NEW x \in Queues, NEW y \in Queues, NEW k \in Items, OrderOK(x),
         y.order = Append(x.order, k), k \in y.dirty, k \notin y.processing,
         k \notin x.dirty \/ k \in x.processing,
         x.dirty \subseteq y.dirty, y.processing \subseteq x.processing
  PROVE  OrderOK(y)
<1> DEFINE s == x.order
           t == y.order
<1>1. s \in Seq(Items) /\ t = Append(s, k)
  BY DEF Queues
<1>2. /\ Len(s) \in Nat /\ Len(t) = Len(s) + 1
      /\ \A i \in 1..Len(s) : t[i] = s[i]
      /\ t[Len(s) + 1] = k
  BY <1>1, AppendElements
<1>3. \A i \in 1..Len(s) : s[i] # k
  BY DEF OrderOK
<1>4. \A i \in 1..Len(t) : i \in 1..Len(s) \/ i = Len(s) + 1
  BY <1>2
<1> HIDE DEF s, t
<1>5. \A i \in 1..Len(t) : t[i] \in y.dirty /\ t[i] \notin y.processing
  BY <1>2, <1>4 DEF OrderOK, s
<1>6. \A i, j \in 1..Len(t) : t[i] = t[j] => i = j
  BY <1>2, <1>3, <1>4 DEF OrderOK, s
<1> QED
  BY <1>5, <1>6 DEF OrderOK, t

\* An order that did not change stays one when items become dirty or are no
\* longer processed.
LEMMA SameOrder ==
  ASSUME NEW x, NEW y, OrderOK(x), y.order = x.order,
         x.dirty \subseteq y.dirty, y.processing \subseteq x.processing
  PROVE  OrderOK(y)
BY DEF OrderOK

\* Get, Add, Done and the end of a delay keep the order.
LEMMA GetOrder ==
  ASSUME NEW x \in Queues, CanGet(x), OrderOK(x)
  PROVE  OrderOK(Get(x)) /\ Head(x.order) \notin x.processing
<1> DEFINE s == x.order
           t == Tail(x.order)
           h == Head(x.order)
           y == Get(x)
<1>1. SameBut(x, y, t, x.dirty \ {h}, x.processing \cup {h}, x.waiting, x.failed)
  BY GetFields
<1>2. /\ Len(s) \in Nat \ {0} /\ Len(t) = Len(s) - 1 /\ h = s[1]
      /\ \A i \in 1..Len(t) : t[i] = s[i + 1]
  BY TailElements DEF Queues, CanGet
<1>3. \A i \in 1..Len(t) : i + 1 \in 1..Len(s) /\ i + 1 # 1
  BY <1>2
<1>4. 1 \in 1..Len(s)
  BY <1>2
<1> HIDE DEF s, t, h, y
<1>5. h \notin x.processing
  BY <1>2, <1>4 DEF OrderOK, s
<1>6. \A i \in 1..Len(t) : t[i] \in x.dirty /\ t[i] # h /\ t[i] \notin x.processing
  BY <1>2, <1>3, <1>4 DEF OrderOK, s
<1>7. \A i, j \in 1..Len(t) : t[i] = t[j] => i = j
  <2> SUFFICES ASSUME NEW i \in 1..Len(t), NEW j \in 1..Len(t), t[i] = t[j] PROVE i = j
    OBVIOUS
  <2>1. i + 1 = j + 1
    BY <1>2, <1>3 DEF OrderOK, s
  <2> QED
    BY <2>1
<1>8. OrderOK(y)
  BY <1>1, <1>6, <1>7 DEF OrderOK, SameBut
<1> QED
  BY <1>5, <1>8 DEF h, y

LEMMA AddOrder ==
  ASSUME NEW x \in Queues, NEW k \in Items, OrderOK(x)
  PROVE  /\ OrderOK(Add(x, k))
         /\ ~x.shuttingDown => OrderOK(DelayOver(x, k))
<1>1. OrderOK(Add(x, k))
  <2>1. CASE x.shuttingDown \/ k \in x.dirty \/ k \in x.processing
    <3> DEFINE y == Add(x, k)
    <3>1. y.order = x.order /\ x.dirty \subseteq y.dirty /\ y.processing \subseteq x.processing
      BY <2>1, AddFields DEF SameBut
    <3> HIDE DEF y
    <3>2. OrderOK(y)
      BY <3>1, SameOrder
    <3> QED
      BY <3>2 DEF y
  <2>2. CASE ~(x.shuttingDown \/ k \in x.dirty \/ k \in x.processing)
    <3> DEFINE y == Add(x, k)
    <3>1. SameBut(x, y, Append(x.order, k), x.dirty \cup {k}, x.processing,
                  x.waiting, x.failed)
      BY <2>2, AddFields
    <3> HIDE DEF y
    <3>2. OrderOK(y)
      BY <2>2, <3>1, AppendOrder DEF SameBut
    <3> QED
      BY <3>2 DEF y
  <2> QED
    BY <2>1, <2>2
<1>2. ASSUME ~x.shuttingDown PROVE OrderOK(DelayOver(x, k))
  <2>1. CASE k \in x.dirty \/ k \in x.processing
    <3> DEFINE y == DelayOver(x, k)
    <3>1. y.order = x.order /\ x.dirty \subseteq y.dirty /\ y.processing \subseteq x.processing
      BY <1>2, <2>1, DelayOverFields DEF SameBut
    <3> HIDE DEF y
    <3>2. OrderOK(y)
      BY <3>1, SameOrder
    <3> QED
      BY <3>2 DEF y
  <2>2. CASE ~(k \in x.dirty \/ k \in x.processing)
    <3> DEFINE y == DelayOver(x, k)
    <3>1. SameBut(x, y, Append(x.order, k), x.dirty \cup {k}, x.processing,
                  x.waiting \ {k}, x.failed)
      BY <1>2, <2>2, DelayOverFields
    <3> HIDE DEF y
    <3>2. OrderOK(y)
      BY <2>2, <3>1, AppendOrder DEF SameBut
    <3> QED
      BY <3>2 DEF y
  <2> QED
    BY <2>1, <2>2
<1> QED
  BY <1>1, <1>2

LEMMA DoneOrder ==
  ASSUME NEW x \in Queues, NEW k \in x.processing, OrderOK(x)
  PROVE  OrderOK(Done(x, k))
<1>0. k \in Items
  BY DEF Queues
<1>1. CASE k \in x.dirty
  BY <1>0, <1>1, DoneFields, AppendOrder DEF SameBut
<1>2. CASE k \notin x.dirty
  <2> DEFINE y == Done(x, k)
  <2>1. y.order = x.order /\ x.dirty \subseteq y.dirty /\ y.processing \subseteq x.processing
    BY <1>0, <1>2, DoneFields DEF SameBut
  <2> HIDE DEF y
  <2>2. OrderOK(y)
    BY <2>1, SameOrder
  <2> QED
    BY <2>2 DEF y
<1> QED
  BY <1>1, <1>2

----------------------------------------------------------------------------
(* The controller. *)

Busy == {w \in Workers : worker[w] \in {"begin", "reconcile", "done"}}

Elements(s) == {s[i] : i \in 1..Len(s)}

\* The call of Start between its lock and its unlock holds mu, and the
\* controller is not started; the workers run only when it is.
LockInv ==
  /\ \A c \in Starters : pc[c] \in {"sources", "sync"} => mu = c /\ ~started
  /\ ~started => \A w \in Workers : worker[w] = "off"

\* Every busy worker holds an item of its own that is being processed.
HoldInv ==
  /\ \A w \in Busy : obj[w] \in q.processing
  /\ \A v, w \in Busy : obj[v] = obj[w] => v = w

\* An item with a failure that a worker is about to call Done for has been
\* queued again.
DoneInv ==
  ~q.shuttingDown =>
     \A w \in Workers : worker[w] = "done" /\ obj[w] \in q.failed
                         => obj[w] \in q.dirty \cup q.waiting

\* The accepted watches are held until the loop over them attaches them.
WatchInv ==
  LET accepted == {s \in Sources : watch[s] = "accepted"}
  IN /\ ~started => accepted \subseteq Elements(startWatches)
     /\ \A c \in Starters :
          /\ pc[c] = "sources" => Elements(startWatches) \subseteq attached \cup Elements(todo)
          /\ pc[c] = "sources" => attached \cup Elements(todo) \subseteq Elements(startWatches)
          /\ pc[c] = "sync" => Elements(startWatches) = attached
          /\ pc[c] = "sync" => attached \cap Syncing \subseteq synced \cup Elements(todo)

\* The inductive invariant: what Start and Watch keep, what the workers and
\* the queue keep.
StartInv == LockInv /\ WatchInv /\ WatchNotLost
WorkInv == OrderOK(q) /\ HoldInv /\ DoneInv /\ NoLostWork /\ BackoffReleased
Inv == TypeOK /\ StartInv /\ WorkInv

----------------------------------------------------------------------------
(* Every method of the queue returns a queue. *)

\* Whatever a reconcile returns, the queue after it is a queue with the same
\* order, the same dirty items and the same items in processing.  An item
\* with a failure left is waiting, and so is one that is asked for again.
LEMMA ResultFields ==
  ASSUME NEW r \in Results, NEW k \in Items, q \in Queues
  PROVE  /\ HandleResult(r, k) \in Queues
         /\ HandleResult(r, k).order = q.order
         /\ HandleResult(r, k).dirty = q.dirty
         /\ HandleResult(r, k).processing = q.processing
         /\ HandleResult(r, k).shuttingDown = q.shuttingDown
         /\ q.waiting \subseteq HandleResult(r, k).waiting
         /\ HandleResult(r, k).failed \subseteq q.failed \cup {k}
         /\ ~q.shuttingDown /\ r # "success" => k \in HandleResult(r, k).waiting
         /\ r = "success" => k \notin HandleResult(r, k).failed
<1>1. CASE r = "error"
  <2>1. HandleResult(r, k) = AddRateLimited(q, k)
    BY <1>1 DEF HandleResult
  <2>2. SameBut(q, AddRateLimited(q, k), q.order, q.dirty, q.processing,
                IF q.shuttingDown THEN q.waiting ELSE q.waiting \cup {k}, q.failed \cup {k})
    BY DelayFields
  <2> QED
    BY <1>1, <2>1, <2>2 DEF SameBut
<1>2. CASE r = "requeueAfter"
  <2>1. HandleResult(r, k) = AddAfter(Forget(q, k), k)
    BY <1>2 DEF HandleResult
  <2>2. SameBut(q, AddAfter(Forget(q, k), k), q.order, q.dirty, q.processing,
                IF q.shuttingDown THEN q.waiting ELSE q.waiting \cup {k}, q.failed \ {k})
    BY DelayFields
  <2> QED
    BY <1>2, <2>1, <2>2 DEF SameBut
<1>3. CASE r = "requeue"
  <2>1. HandleResult(r, k) = AddRateLimited(q, k)
    BY <1>3 DEF HandleResult
  <2>2. SameBut(q, AddRateLimited(q, k), q.order, q.dirty, q.processing,
                IF q.shuttingDown THEN q.waiting ELSE q.waiting \cup {k}, q.failed \cup {k})
    BY DelayFields
  <2> QED
    BY <1>3, <2>1, <2>2 DEF SameBut
<1>4. CASE r = "success"
  <2>1. HandleResult(r, k) = Forget(q, k)
    BY <1>4 DEF HandleResult
  <2>2. SameBut(q, Forget(q, k), q.order, q.dirty, q.processing,
                q.waiting, q.failed \ {k})
    BY DelayFields
  <2> QED
    BY <1>4, <2>1, <2>2 DEF SameBut
<1> QED
  BY <1>1, <1>2, <1>3, <1>4 DEF Results

----------------------------------------------------------------------------
(* Types *)

\* Every variable of the controller keeps its type.
THEOREM TypeCorrect == Spec => []TypeOK
<1>1. Init => TypeOK
  <2>1. NewQueue \in Queues
    BY DEF NewQueue, Queues
  <2> SUFFICES ASSUME Init PROVE TypeOK
    OBVIOUS
  <2>2. startWatches \in Seq(Sources) /\ todo \in Seq(Sources)
    BY DEF Init
  <2>3. \A w \in Workers : worker[w] = "off"
    BY DEF Init
  <2> QED
    BY <2>1, <2>2, <2>3 DEF Init, TypeOK
<1>2. TypeOK /\ [Next]_vars => TypeOK'
  <2> SUFFICES ASSUME TypeOK, [Next]_vars PROVE TypeOK'
    OBVIOUS
  <2> USE DEF TypeOK
  <2>1. ASSUME NEW s \in Sources, Watch(s) PROVE TypeOK'
    <3>1. CASE WatchFails(s)
      BY <3>1 DEF WatchFails, startVars, workerVars
    <3>2. CASE WatchBeforeStart(s)
      BY <3>2, AppendElements DEF WatchBeforeStart, workerVars
    <3>3. CASE WatchAfterStart(s)
      BY <3>3 DEF WatchAfterStart, startVars, workerVars
    <3> QED
      BY <2>1, <3>1, <3>2, <3>3 DEF Watch
  <2>2. ASSUME NEW c \in Starters, StartStep(c) PROVE TypeOK'
    <3>1. CASE StartRefused(c)
      BY <3>1 DEF StartRefused, sourceVars, workerVars
    <3>2. CASE StartBegins(c)
      BY <3>2 DEF StartBegins, workerVars, NewQueue, Queues
    <3>3. CASE StartFails(c)
      BY <3>3 DEF StartFails, sourceVars, workerVars
    <3>4. CASE StartSource(c)
      BY <3>4 DEF StartSource, workerVars
    <3>5. CASE SourcesStarted(c)
      BY <3>5 DEF SourcesStarted, sourceVars, workerVars
    <3>6. CASE SourceSynced(c)
      BY <3>6 DEF SourceSynced, workerVars
    <3>7. CASE LaunchWorkers(c)
      BY <3>7 DEF LaunchWorkers, sourceVars
    <3>8. CASE StartReturns(c)
      BY <3>8 DEF StartReturns, sourceVars, workerVars
    <3> QED
      BY <2>2, <3>1, <3>2, <3>3, <3>4, <3>5, <3>6, <3>7, <3>8 DEF StartStep
  <2>3. ASSUME NEW c \in Starters, StopQueue(c) PROVE TypeOK'
    <3>1. q' \in Queues
      BY <2>3 DEF StopQueue, ShutDown, Queues
    <3> QED
      BY <2>3, <3>1 DEF StopQueue, startVars, sourceVars, workerVars
  <2>4. ASSUME NEW w \in Workers, WorkerStep(w) PROVE TypeOK'
    <3>1. CASE WorkerGets(w)
      <4>1. q' \in Queues /\ Head(q.order) \in Items
        BY <3>1, GetFields DEF WorkerGets, SameBut
      <4> QED
        BY <3>1, <4>1 DEF WorkerGets, startVars, sourceVars
    <3>2. CASE WorkerExits(w)
      BY <3>2 DEF WorkerExits, startVars, sourceVars
    <3>3. CASE BeginReconcile(w)
      BY <3>3 DEF BeginReconcile, startVars, sourceVars
    <3>4. CASE DropInvalid(w)
      <4>1. q' \in Queues
        BY <3>4, DelayFields DEF DropInvalid, SameBut
      <4> QED
        BY <3>4, <4>1 DEF DropInvalid, startVars, sourceVars
    <3>5. ASSUME NEW r \in Results, ReconcileReturns(w, r) PROVE TypeOK'
      <4>1. q' \in Queues
        BY <3>5, ResultFields DEF ReconcileReturns
      <4> QED
        BY <3>5, <4>1 DEF ReconcileReturns, startVars, sourceVars
    <3>6. CASE WorkerDone(w)
      <4>1. q' \in Queues
        BY <3>6, DoneFields DEF WorkerDone, SameBut
      <4> QED
        BY <3>6, <4>1 DEF WorkerDone, startVars, sourceVars
    <3> QED
      BY <2>4, <3>1, <3>2, <3>3, <3>4, <3>5, <3>6 DEF WorkerStep
  <2>5. ASSUME NEW s \in Sources, NEW k \in Items, Event(s, k) PROVE TypeOK'
    <3>1. q' \in Queues
      BY <2>5, AddFields DEF Event, SameBut
    <3> QED
      BY <2>5, <3>1 DEF Event, startVars, sourceVars, workerVars
  <2>6. ASSUME NEW k \in Items, DelayFires(k) PROVE TypeOK'
    <3>1. q' \in Queues
      BY <2>6, DelayOverFields DEF DelayFires, SameBut
    <3> QED
      BY <2>6, <3>1 DEF DelayFires, startVars, sourceVars, workerVars
  <2>7. CASE Cancel
    BY <2>7 DEF Cancel, startVars, sourceVars, workerVars
  <2>8. CASE UNCHANGED vars
    BY <2>8 DEF vars, startVars, sourceVars, workerVars
  <2> QED
    BY <2>1, <2>2, <2>3, <2>4, <2>5, <2>6, <2>7, <2>8 DEF Next
<1> QED
  BY <1>1, <1>2, PTL DEF Spec

----------------------------------------------------------------------------
(* The workers and the queue *)

\* A step that leaves queue, workers and requests alone keeps WorkInv.
LEMMA WorkUnchanged ==
  ASSUME WorkInv, UNCHANGED <<q, worker, obj, owed>>
  PROVE  WorkInv'
BY DEF WorkInv, OrderOK, HoldInv, Busy, DoneInv, NoLostWork, BackoffReleased

\* Every step keeps WorkInv: one step per action that touches it.
LEMMA WorkStep ==
  ASSUME TypeOK, LockInv, WorkInv, [Next]_vars
  PROVE  WorkInv'
<1> USE DEF TypeOK
<1>1. ASSUME NEW s \in Sources, Watch(s) PROVE WorkInv'
  BY <1>1, WorkUnchanged DEF Watch, WatchFails, WatchBeforeStart, WatchAfterStart, workerVars
<1>2. ASSUME NEW c \in Starters, StartStep(c) PROVE WorkInv'
  <2>1. CASE StartBegins(c)
    <3>1. \A w \in Workers : worker[w] = "off"
      BY <2>1 DEF LockInv, StartBegins
    <3> QED
      BY <2>1, <3>1 DEF StartBegins, workerVars, NewQueue, WorkInv, OrderOK, HoldInv,
                        Busy, DoneInv, NoLostWork, BackoffReleased
  <2>2. CASE LaunchWorkers(c)
    <3>1. \A w \in Workers : worker[w] = "off" /\ worker'[w] = "get"
      BY <2>2 DEF LockInv, LaunchWorkers
    <3> QED
      BY <2>2, <3>1 DEF LaunchWorkers, WorkInv, OrderOK, HoldInv,
                        Busy, DoneInv, NoLostWork, BackoffReleased
  <2>3. CASE ~StartBegins(c) /\ ~LaunchWorkers(c)
    BY <1>2, <2>3, WorkUnchanged
       DEF StartStep, StartRefused, StartFails, StartSource, SourcesStarted,
           SourceSynced, StartReturns, workerVars
  <2> QED
    BY <2>1, <2>2, <2>3
<1>3. ASSUME NEW c \in Starters, StopQueue(c) PROVE WorkInv'
  <2>1. /\ q'.order = q.order /\ q'.dirty = q.dirty /\ q'.processing = q.processing
        /\ q'.shuttingDown
    BY <1>3 DEF StopQueue, ShutDown, Queues
  <2> QED
    BY <1>3, <2>1 DEF StopQueue, workerVars, WorkInv, OrderOK, HoldInv, Busy, DoneInv,
                      NoLostWork, BackoffReleased
<1>4. ASSUME NEW w \in Workers, WorkerStep(w) PROVE WorkInv'
  <2>1. CASE WorkerGets(w)
    <3> DEFINE k == Head(q.order)
    <3>1. /\ q'.dirty = q.dirty \ {k} /\ q'.processing = q.processing \cup {k}
          /\ q'.waiting = q.waiting /\ q'.failed = q.failed
          /\ q'.shuttingDown = q.shuttingDown
      BY <2>1, GetFields DEF WorkerGets, SameBut
    <3>2. OrderOK(q)' /\ k \notin q.processing
      BY <2>1, GetOrder DEF WorkerGets, WorkInv, OrderOK
    <3> HIDE DEF k
    <3>3. /\ worker[w] = "get" /\ worker' = [worker EXCEPT ![w] = "begin"]
          /\ obj' = [obj EXCEPT ![w] = k] /\ owed' = owed
      BY <2>1 DEF WorkerGets, k
    <3>4. HoldInv'
      BY <3>1, <3>2, <3>3 DEF WorkInv, HoldInv, Busy
    <3>5. DoneInv'
      BY <3>1, <3>2, <3>3 DEF WorkInv, DoneInv, HoldInv, Busy
    <3>6. NoLostWork'
      BY <3>1, <3>3 DEF WorkInv, NoLostWork
    <3>7. BackoffReleased'
      BY <3>1 DEF WorkInv, BackoffReleased
    <3> QED
      BY <3>2, <3>4, <3>5, <3>6, <3>7 DEF WorkInv
  <2>2. CASE WorkerExits(w)
    BY <2>2 DEF WorkerExits, WorkInv, OrderOK, HoldInv, Busy, DoneInv, NoLostWork,
                BackoffReleased
  <2>3. CASE BeginReconcile(w)
    BY <2>3 DEF BeginReconcile, WorkInv, OrderOK, HoldInv, Busy, DoneInv, NoLostWork,
                BackoffReleased
  <2>4. CASE DropInvalid(w)
    <3>1. /\ q'.order = q.order /\ q'.dirty = q.dirty /\ q'.processing = q.processing
          /\ q'.waiting = q.waiting /\ q'.failed = q.failed \ {obj[w]}
          /\ q'.shuttingDown = q.shuttingDown
      <4>1. obj[w] \in Items /\ q' = Forget(q, obj[w])
        BY <2>4 DEF DropInvalid
      <4>2. SameBut(q, Forget(q, obj[w]), q.order, q.dirty, q.processing, q.waiting,
                    q.failed \ {obj[w]})
        BY <4>1, DelayFields
      <4> QED
        BY <4>1, <4>2 DEF SameBut
    <3> QED
      BY <2>4, <3>1 DEF DropInvalid, WorkInv, OrderOK, HoldInv, Busy, DoneInv, NoLostWork,
                        BackoffReleased
  <2>5. ASSUME NEW r \in Results, ReconcileReturns(w, r) PROVE WorkInv'
    <3>1. /\ worker[w] = "reconcile" /\ worker' = [worker EXCEPT ![w] = "done"]
          /\ obj' = obj /\ owed' = IF r = "success" THEN owed ELSE owed \cup {obj[w]}
          /\ obj[w] \in Items /\ obj[w] \in q.processing
      BY <2>5 DEF ReconcileReturns, WorkInv, HoldInv, Busy
    <3>2. /\ q'.order = q.order /\ q'.dirty = q.dirty /\ q'.processing = q.processing
          /\ q.waiting \subseteq q'.waiting /\ q'.failed \subseteq q.failed \cup {obj[w]}
          /\ q'.shuttingDown = q.shuttingDown
          /\ ~q.shuttingDown /\ r # "success" => obj[w] \in q'.waiting
          /\ r = "success" => obj[w] \notin q'.failed
      BY <2>5, <3>1, ResultFields DEF ReconcileReturns
    <3>3. OrderOK(q)' /\ HoldInv'
      BY <3>1, <3>2 DEF WorkInv, OrderOK, HoldInv, Busy
    <3>4. DoneInv'
      BY <3>1, <3>2 DEF WorkInv, DoneInv, HoldInv, Busy
    <3>5. NoLostWork'
      BY <3>1, <3>2 DEF WorkInv, NoLostWork
    <3>6. BackoffReleased'
      BY <3>1, <3>2 DEF WorkInv, BackoffReleased
    <3> QED
      BY <3>3, <3>4, <3>5, <3>6 DEF WorkInv
  <2>6. CASE WorkerDone(w)
    <3>1. /\ worker[w] = "done" /\ worker' = [worker EXCEPT ![w] = "get"]
          /\ obj' = [obj EXCEPT ![w] = NoItem] /\ owed' = owed
          /\ obj[w] \in Items /\ obj[w] \in q.processing
      BY <2>6 DEF WorkerDone, WorkInv, HoldInv, Busy
    <3>2. /\ q'.dirty = q.dirty /\ q'.processing = q.processing \ {obj[w]}
          /\ q'.waiting = q.waiting /\ q'.failed = q.failed
          /\ q'.shuttingDown = q.shuttingDown
      BY <2>6, <3>1, DoneFields DEF WorkerDone, SameBut
    <3>3. OrderOK(q)'
      BY <2>6, <3>1, DoneOrder DEF WorkerDone, WorkInv, OrderOK
    <3>4. HoldInv' /\ DoneInv'
      BY <3>1, <3>2 DEF WorkInv, HoldInv, DoneInv, Busy
    <3>5. NoLostWork'
      BY <3>1, <3>2 DEF WorkInv, NoLostWork
    <3>6. BackoffReleased'
      BY <3>1, <3>2 DEF WorkInv, BackoffReleased, DoneInv
    <3> QED
      BY <3>3, <3>4, <3>5, <3>6 DEF WorkInv
  <2> QED
    BY <1>4, <2>1, <2>2, <2>3, <2>4, <2>5, <2>6 DEF WorkerStep
<1>5. ASSUME NEW s \in Sources, NEW k \in Items, Event(s, k) PROVE WorkInv'
  <2>1. /\ q'.processing = q.processing /\ q'.waiting = q.waiting
        /\ q'.failed = q.failed /\ q'.shuttingDown = q.shuttingDown
        /\ q.dirty \subseteq q'.dirty
        /\ ~q.shuttingDown => k \in q'.dirty
        /\ UNCHANGED <<worker, obj>> /\ owed' = owed \cup {k}
    <3>1. SameBut(q, Add(q, k),
            IF q.shuttingDown \/ k \in q.dirty \/ k \in q.processing
              THEN q.order ELSE Append(q.order, k),
            IF q.shuttingDown THEN q.dirty ELSE q.dirty \cup {k},
            q.processing, q.waiting, q.failed)
      BY AddFields
    <3> QED
      BY <1>5, <3>1 DEF Event, SameBut, workerVars
  <2>2. OrderOK(q)'
    BY <1>5, AddOrder DEF Event, WorkInv, OrderOK
  <2> QED
    BY <2>1, <2>2 DEF WorkInv, HoldInv, Busy, DoneInv, NoLostWork, BackoffReleased
<1>6. ASSUME NEW k \in Items, DelayFires(k) PROVE WorkInv'
  <2>1. /\ q'.processing = q.processing /\ q'.waiting = q.waiting \ {k}
        /\ q'.failed = q.failed /\ q'.shuttingDown = q.shuttingDown
        /\ q'.dirty = q.dirty \cup {k}
        /\ UNCHANGED <<worker, obj, owed>>
    BY <1>6, DelayOverFields DEF DelayFires, SameBut, workerVars
  <2>2. OrderOK(q)'
    BY <1>6, AddOrder DEF DelayFires, WorkInv, OrderOK
  <2> QED
    BY <2>1, <2>2 DEF WorkInv, HoldInv, Busy, DoneInv, NoLostWork, BackoffReleased
<1>7. CASE Cancel
  BY <1>7, WorkUnchanged DEF Cancel, workerVars
<1>8. CASE UNCHANGED vars
  BY <1>8, WorkUnchanged DEF vars, workerVars
<1> QED
  BY <1>1, <1>2, <1>3, <1>4, <1>5, <1>6, <1>7, <1>8 DEF Next

----------------------------------------------------------------------------
(* Start and Watch *)

\* The elements of a sequence that grows at the end or is walked through.
LEMMA ElementsFacts ==
  ASSUME NEW S, NEW s \in Seq(S), NEW e \in S
  PROVE  /\ Elements(<<>>) = {}
         /\ Elements(Append(s, e)) = Elements(s) \cup {e}
         /\ s # <<>> => Elements(s) = {Head(s)} \cup Elements(Tail(s))
<1>1. Elements(<<>>) = {}
  BY DEF Elements
<1>2. Elements(Append(s, e)) = Elements(s) \cup {e}
  <2>1. /\ Len(s) \in Nat /\ Len(Append(s, e)) = Len(s) + 1
        /\ \A i \in 1..Len(s) : Append(s, e)[i] = s[i]
        /\ Append(s, e)[Len(s) + 1] = e
    BY AppendElements
  <2>2. \A i : i \in 1..Len(Append(s, e)) <=> i \in 1..Len(s) \/ i = Len(s) + 1
    BY <2>1
  <2> QED
    BY <2>1, <2>2 DEF Elements
<1>3. ASSUME s # <<>> PROVE Elements(s) = {Head(s)} \cup Elements(Tail(s))
  <2>1. /\ Len(s) \in Nat \ {0} /\ Len(Tail(s)) = Len(s) - 1 /\ Head(s) = s[1]
        /\ \A i \in 1..Len(Tail(s)) : Tail(s)[i] = s[i + 1]
    BY <1>3, TailElements
  <2>2. ASSUME NEW x \in Elements(s) PROVE x \in {Head(s)} \cup Elements(Tail(s))
    <3>1. PICK i \in 1..Len(s) : x = s[i]
      BY <2>2 DEF Elements
    <3>2. CASE i = 1
      BY <3>1, <3>2, <2>1
    <3>3. CASE i # 1
      <4>1. i - 1 \in 1..Len(Tail(s)) /\ (i - 1) + 1 = i
        BY <3>3, <2>1
      <4>2. x = Tail(s)[i - 1]
        BY <4>1, <3>1, <2>1
      <4> QED
        BY <4>1, <4>2 DEF Elements
    <3> QED
      BY <3>2, <3>3
  <2>3. ASSUME NEW x \in {Head(s)} \cup Elements(Tail(s)) PROVE x \in Elements(s)
    <3>1. CASE x = Head(s)
      BY <3>1, <2>1 DEF Elements
    <3>2. CASE x \in Elements(Tail(s))
      <4>1. PICK i \in 1..Len(Tail(s)) : x = Tail(s)[i]
        BY <3>2 DEF Elements
      <4>2. i + 1 \in 1..Len(s) /\ x = s[i + 1]
        BY <4>1, <2>1
      <4> QED
        BY <4>2 DEF Elements
    <3> QED
      BY <2>3, <3>1, <3>2
  <2> QED
    BY <2>2, <2>3
<1> QED
  BY <1>1, <1>2, <1>3

\* A step that leaves the state of Start and Watch alone keeps StartInv,
\* provided the workers stay off until the controller is started.
LEMMA StartUnchanged ==
  ASSUME StartInv, UNCHANGED <<startVars, sourceVars>>,
         ~started => worker' = worker
  PROVE  StartInv'
BY DEF StartInv, LockInv, WatchInv, WatchNotLost, startVars, sourceVars

\* Every step keeps StartInv.
LEMMA StartSideStep ==
  ASSUME TypeOK, StartInv, [Next]_vars
  PROVE  StartInv'
<1> USE DEF TypeOK
<1>1. ASSUME NEW s \in Sources, Watch(s) PROVE StartInv'
  <2>1. CASE WatchFails(s)
    BY <2>1 DEF WatchFails, startVars, workerVars, StartInv, LockInv, WatchInv, WatchNotLost
  <2>2. CASE WatchBeforeStart(s)
    <3>1. Elements(startWatches') = Elements(startWatches) \cup {s}
      BY <2>2, ElementsFacts DEF WatchBeforeStart
    <3>2. \A c \in Starters : pc[c] \notin {"sources", "sync"}
      BY <2>2, ConstantsAssumption DEF WatchBeforeStart, StartInv, LockInv
    <3> QED
      BY <2>2, <3>1, <3>2 DEF WatchBeforeStart, workerVars, StartInv, LockInv, WatchInv,
                              WatchNotLost
  <2>3. CASE WatchAfterStart(s)
    BY <2>3 DEF WatchAfterStart, startVars, workerVars, StartInv, LockInv, WatchInv,
                WatchNotLost
  <2> QED
    BY <1>1, <2>1, <2>2, <2>3 DEF Watch
<1>2. ASSUME NEW c \in Starters, StartStep(c) PROVE StartInv'
  <2>0. mu = NoOne => \A d \in Starters : pc[d] \notin {"sources", "sync"}
    BY ConstantsAssumption DEF StartInv, LockInv
  <2>1. CASE StartRefused(c)
    BY <2>1, <2>0 DEF StartRefused, sourceVars, workerVars, StartInv, LockInv, WatchInv,
                      WatchNotLost
  <2>2. CASE StartBegins(c)
    BY <2>2, <2>0 DEF StartBegins, workerVars, StartInv, LockInv, WatchInv, WatchNotLost
  <2>a. pc[c] \in {"sources", "sync"} =>
           /\ mu = c /\ ~started
           /\ \A d \in Starters : d # c => pc[d] \notin {"sources", "sync"}
    BY DEF StartInv, LockInv
  <2>3. CASE StartFails(c)
    BY <2>3, <2>a DEF StartFails, sourceVars, workerVars, StartInv, LockInv, WatchInv,
                      WatchNotLost
  <2>4. CASE StartSource(c)
    <3>1. Elements(todo) = {Head(todo)} \cup Elements(todo')
      <4>1. todo \in Seq(Sources) /\ todo # <<>> /\ todo' = Tail(todo)
        BY <2>4 DEF StartSource
      <4>2. Head(todo) \in Sources
        BY <4>1, TailElements
      <4> QED
        BY <4>1, <4>2, ElementsFacts
    <3> QED
      BY <2>4, <2>a, <3>1 DEF StartSource, workerVars, StartInv, LockInv, WatchInv,
                              WatchNotLost
  <2>5. CASE SourcesStarted(c)
    <3>1. Elements(todo) = {}
      BY <2>5 DEF SourcesStarted, Elements
    <3> QED
      BY <2>5, <2>a, <3>1 DEF SourcesStarted, sourceVars, workerVars, StartInv, LockInv,
                              WatchInv, WatchNotLost
  <2>6. CASE SourceSynced(c)
    <3>1. Elements(todo) = {Head(todo)} \cup Elements(todo')
      <4>1. todo \in Seq(Sources) /\ todo # <<>> /\ todo' = Tail(todo)
        BY <2>6 DEF SourceSynced
      <4>2. Head(todo) \in Sources
        BY <4>1, TailElements
      <4> QED
        BY <4>1, <4>2, ElementsFacts
    <3> QED
      BY <2>6, <2>a, <3>1 DEF SourceSynced, workerVars, StartInv, LockInv, WatchInv,
                              WatchNotLost
  <2>7. CASE LaunchWorkers(c)
    BY <2>7, <2>a DEF LaunchWorkers, sourceVars, StartInv, LockInv, WatchInv, WatchNotLost
  <2>8. CASE StartReturns(c)
    BY <2>8 DEF StartReturns, sourceVars, workerVars, StartInv, LockInv, WatchInv,
                WatchNotLost
  <2> QED
    BY <1>2, <2>1, <2>2, <2>3, <2>4, <2>5, <2>6, <2>7, <2>8 DEF StartStep
<1>3. ASSUME NEW c \in Starters, StopQueue(c) PROVE StartInv'
  BY <1>3, StartUnchanged DEF StopQueue, workerVars
<1>4. ASSUME NEW w \in Workers, WorkerStep(w) PROVE StartInv'
  <2>1. started
    BY <1>4 DEF WorkerStep, WorkerGets, WorkerExits, BeginReconcile, DropInvalid,
                ReconcileReturns, WorkerDone, StartInv, LockInv
  <2> QED
    BY <1>4, <2>1, StartUnchanged
       DEF WorkerStep, WorkerGets, WorkerExits, BeginReconcile, DropInvalid,
           ReconcileReturns, WorkerDone
<1>5. ASSUME NEW s \in Sources, NEW k \in Items, Event(s, k) PROVE StartInv'
  BY <1>5, StartUnchanged DEF Event, workerVars
<1>6. ASSUME NEW k \in Items, DelayFires(k) PROVE StartInv'
  BY <1>6, StartUnchanged DEF DelayFires, workerVars
<1>7. CASE Cancel
  BY <1>7, StartUnchanged DEF Cancel, workerVars
<1>8. CASE UNCHANGED vars
  BY <1>8, StartUnchanged DEF vars, workerVars
<1> QED
  BY <1>1, <1>2, <1>3, <1>4, <1>5, <1>6, <1>7, <1>8 DEF Next

----------------------------------------------------------------------------
(* The theorems *)

\* The invariant holds initially and every step keeps it.
LEMMA Invariance == Spec => []Inv
<1>1. Init => StartInv /\ WorkInv
  BY ConstantsAssumption
     DEF Init, NewQueue, StartInv, LockInv, WatchInv, WatchNotLost, WorkInv, OrderOK,
         HoldInv, Busy, DoneInv, NoLostWork, BackoffReleased
<1>2. TypeOK /\ StartInv /\ WorkInv /\ [Next]_vars => StartInv' /\ WorkInv'
  BY StartSideStep, WorkStep DEF StartInv
<1> QED
  BY <1>1, <1>2, TypeCorrect, PTL DEF Spec, Inv

\* The reconciler is never invoked concurrently with the same object, with
\* any number of workers: every busy worker holds an item of its own.
THEOREM SerialReconcilesHolds == Spec => []SerialReconciles
<1>1. Inv => SerialReconciles
  BY DEF Inv, WorkInv, HoldInv, Busy, SerialReconciles, Reconciling
<1> QED
  BY <1>1, Invariance, PTL

\* The rate limiter keeps no failure of an item nobody will reconcile again,
\* whatever reconcileHandler returned for it.
THEOREM BackoffReleasedHolds == Spec => []BackoffReleased
<1>1. Inv => BackoffReleased
  BY DEF Inv, WorkInv
<1> QED
  BY <1>1, Invariance, PTL

\* No request is forgotten while the queue is open: it stays queued, delayed
\* or with the worker that is about to reconcile it.
THEOREM NoLostWorkHolds == Spec => []NoLostWork
<1>1. Inv => NoLostWork
  BY DEF Inv, WorkInv
<1> QED
  BY <1>1, Invariance, PTL

\* A watch that Watch accepted is attached once the controller is started.
THEOREM WatchNotLostHolds == Spec => []WatchNotLost
<1>1. Inv => WatchNotLost
  BY DEF Inv, StartInv
<1> QED
  BY <1>1, Invariance, PTL

\* Workers are launched only after every syncing source has synced.
THEOREM SyncBeforeWorkHolds == Spec => SyncBeforeWork
<1> DEFINE Launch == \A w \in Workers : worker[w] = "off" /\ worker'[w] # "off"
                                         => attached \cap Syncing \subseteq synced
<1>1. Inv /\ [Next]_vars => [Launch]_vars
  <2> SUFFICES ASSUME Inv, [Next]_vars PROVE Launch
    OBVIOUS
  <2> USE DEF Inv, TypeOK
  <2>1. ASSUME NEW c \in Starters, LaunchWorkers(c) PROVE Launch
    <3>1. Elements(todo) = {}
      BY <2>1 DEF LaunchWorkers, Elements
    <3> QED
      BY <2>1, <3>1 DEF LaunchWorkers, StartInv, WatchInv
  <2>2. ASSUME NEW w \in Workers, WorkerStep(w) PROVE Launch
    <3>1. worker[w] # "off" /\ \A v \in Workers : v # w => worker'[v] = worker[v]
      BY <2>2 DEF WorkerStep, WorkerGets, WorkerExits, BeginReconcile, DropInvalid,
                  ReconcileReturns, WorkerDone
    <3> QED
      BY <3>1
  <2>3. CASE worker' = worker
    BY <2>3
  <2>4. ASSUME NEW c \in Starters, StartStep(c) \/ StopQueue(c) PROVE Launch
    BY <2>4, <2>1, <2>3
       DEF StartStep, StopQueue, StartRefused, StartBegins, StartFails, StartSource,
           SourcesStarted, SourceSynced, StartReturns, workerVars
  <2> QED
    BY <2>2, <2>3, <2>4
       DEF Next, Watch, WatchFails, WatchBeforeStart, WatchAfterStart, Event, DelayFires,
           Cancel, vars, workerVars
<1> QED
  BY <1>1, Invariance, PTL DEF Spec, SyncBeforeWork

\* Two functions on S that differ at k only.
LEMMA ChangedAt ==
  ASSUME NEW S, NEW f, NEW g, NEW k \in S, NEW v,
         f = [j \in S |-> f[j]], g = [j \in S |-> g[j]],
         \A j \in S : g[j] = IF j = k THEN v ELSE f[j]
  PROVE  g = [f EXCEPT ![k] = v]
  OBVIOUS

\* The controller implements ReconcileLoop: every step is a step of the loop
\* or leaves it alone.  A worker that ends a reconcile removes its item, and
\* no other worker's, from the items being reconciled.
THEOREM Implementation == Spec => ImplementsLoop
<1> DEFINE running == [k \in Items |-> {w \in Reconciling : obj[w] = k}]
           live == started /\ ~q.shuttingDown
<1>1. Init => Loop!Init
  BY DEF Init, Loop!Init, Loop!Idle, Reconciling
<1>2. Inv /\ [Next]_vars => [Loop!Next]_Loop!vars
  <2> SUFFICES ASSUME Inv, [Next]_vars PROVE Loop!Next \/ UNCHANGED Loop!vars
    OBVIOUS
  <2> USE DEF Inv, TypeOK
  <2>1. ASSUME UNCHANGED <<worker, obj, owed, started>>, q'.shuttingDown = q.shuttingDown
        PROVE  UNCHANGED Loop!vars
    BY <2>1 DEF Loop!vars, Reconciling
  <2>2. ASSUME NEW s \in Sources, Watch(s) PROVE UNCHANGED Loop!vars
    BY <2>1, <2>2 DEF Watch, WatchFails, WatchBeforeStart, WatchAfterStart, startVars,
                      workerVars
  <2>3. ASSUME NEW c \in Starters, StartStep(c) PROVE Loop!Next \/ UNCHANGED Loop!vars
    <3>1. CASE StartBegins(c)
      <4>1. Reconciling = {} /\ Reconciling' = {}
        BY <3>1 DEF StartBegins, workerVars, Reconciling, StartInv, LockInv
      <4>2. Loop!Restart
        BY <3>1, <4>1 DEF Loop!Restart, Loop!Idle, StartBegins
      <4> QED
        BY <4>2 DEF Loop!Next
    <3>2. CASE LaunchWorkers(c)
      <4>1. Reconciling = {} /\ Reconciling' = {} /\ ~started
        BY <3>2 DEF LaunchWorkers, Reconciling, StartInv, LockInv
      <4>2. CASE q.shuttingDown
        BY <3>2, <4>1, <4>2 DEF LaunchWorkers, Loop!vars
      <4>3. CASE ~q.shuttingDown
        <5>1. Loop!Live
          BY <3>2, <4>1, <4>3 DEF LaunchWorkers, Loop!Live
        <5> QED
          BY <5>1 DEF Loop!Next
      <4> QED
        BY <4>2, <4>3
    <3>3. CASE ~StartBegins(c) /\ ~LaunchWorkers(c)
      BY <2>1, <2>3, <3>3
         DEF StartStep, StartRefused, StartFails, StartSource, SourcesStarted,
             SourceSynced, StartReturns, workerVars
    <3> QED
      BY <3>1, <3>2, <3>3
  <2>4. ASSUME NEW c \in Starters, StopQueue(c) PROVE Loop!Next \/ UNCHANGED Loop!vars
    <3>1. q'.shuttingDown /\ UNCHANGED <<worker, obj, owed, started>>
      BY <2>4 DEF StopQueue, ShutDown, Queues, startVars, workerVars
    <3>2. CASE live
      <4>1. Loop!Stop
        BY <3>1, <3>2 DEF Loop!Stop, Reconciling
      <4> QED
        BY <4>1 DEF Loop!Next
    <3>3. CASE ~live
      BY <3>1, <3>3 DEF Loop!vars, Reconciling
    <3> QED
      BY <3>2, <3>3
  <2>5. ASSUME NEW w \in Workers, WorkerStep(w) PROVE Loop!Next \/ UNCHANGED Loop!vars
    <3>1. UNCHANGED started
      BY <2>5 DEF WorkerStep, WorkerGets, WorkerExits, BeginReconcile, DropInvalid,
                  ReconcileReturns, WorkerDone, startVars
    <3>2. CASE WorkerGets(w)
      <4>1. q'.shuttingDown = q.shuttingDown
        BY <3>2, GetFields DEF WorkerGets, SameBut
      <4>2. Reconciling' = Reconciling /\ \A v \in Reconciling : obj'[v] = obj[v]
        BY <3>2 DEF WorkerGets, Reconciling
      <4>3. running' = running
        BY <4>2
      <4> QED
        BY <3>1, <3>2, <4>1, <4>3 DEF WorkerGets, Loop!vars
    <3>3. CASE WorkerExits(w)
      <4>1. Reconciling' = Reconciling
        BY <3>3 DEF WorkerExits, Reconciling
      <4> QED
        BY <3>1, <3>3, <4>1 DEF WorkerExits, Loop!vars
    <3>4. CASE BeginReconcile(w)
      <4>1. Reconciling' = Reconciling \cup {w} /\ w \notin Reconciling
        BY <3>4 DEF BeginReconcile, Reconciling
      <4>2. obj[w] \in Items /\ obj[w] \in Requests /\ owed' = owed \ {obj[w]} /\ q' = q
            /\ obj' = obj
        BY <3>4 DEF BeginReconcile
      <4>3. \A v \in Reconciling : obj[v] # obj[w]
        BY <3>4, <4>1 DEF BeginReconcile, Reconciling, WorkInv, HoldInv, Busy
      <4>4. PICK k \in Items : k = obj[w]
        BY <4>2
      <4>5. running[k] = {}
        BY <4>3, <4>4
      <4>6. \A j \in Items : {v \in Reconciling' : obj'[v] = j}
                            = IF j = k THEN {w} ELSE {v \in Reconciling : obj[v] = j}
        BY <4>1, <4>2, <4>3, <4>4
      <4>7. Loop!Begin(k)
        <5>1. running' = [running EXCEPT ![k] = {w}]
          <6>1. PICK f, g : f = running /\ g = running'
            OBVIOUS
          <6>2. /\ f = [j \in Items |-> f[j]] /\ g = [j \in Items |-> g[j]]
                /\ \A j \in Items : g[j] = IF j = k THEN {w} ELSE f[j]
            BY <6>1, <4>6, Zenon
          <6> QED
            BY ONLY <6>1, <6>2, ChangedAt
        <5> QED
          BY <3>1, <4>2, <4>4, <4>5, <5>1 DEF Loop!Begin
      <4> QED
        BY <4>7 DEF Loop!Next
    <3>5. CASE DropInvalid(w)
      <4>1. obj[w] \in Items /\ q'.shuttingDown = q.shuttingDown
        BY <3>5 DEF DropInvalid, Forget, Queues
      <4>2. Reconciling' = Reconciling
        BY <3>5 DEF DropInvalid, Reconciling
      <4>3. CASE obj[w] \in owed
        <5>1. Loop!Discard(obj[w])
          BY <3>1, <3>5, <4>1, <4>2, <4>3 DEF DropInvalid, Loop!Discard
        <5> QED
          BY <4>1, <5>1 DEF Loop!Next
      <4>4. CASE obj[w] \notin owed
        BY <3>1, <3>5, <4>1, <4>2, <4>4 DEF DropInvalid, Loop!vars
      <4> QED
        BY <4>3, <4>4
    <3>6. ASSUME NEW r \in Results, ReconcileReturns(w, r) PROVE Loop!Next
      <4>1. obj[w] \in Items /\ q'.shuttingDown = q.shuttingDown
        BY <3>6, ResultFields DEF ReconcileReturns
      <4>2. Reconciling' = Reconciling \ {w} /\ w \in Reconciling
        BY <3>6 DEF ReconcileReturns, Reconciling
      <4>3. \A v \in Reconciling : obj[v] = obj[w] => v = w
        BY <4>2 DEF Reconciling, WorkInv, HoldInv, Busy
      <4>4. PICK k \in Items : k = obj[w]
        BY <4>1
      <4>5. running[k] # {}
        BY <4>2, <4>4
      <4>6. \A j \in Items : {v \in Reconciling' : obj'[v] = j}
                            = IF j = k THEN {} ELSE {v \in Reconciling : obj[v] = j}
        BY <3>6, <4>2, <4>3, <4>4 DEF ReconcileReturns
      <4>7. Loop!End(k, r # "success")
        <5>1. running' = [running EXCEPT ![k] = {}]
          <6>1. PICK f, g : f = running /\ g = running'
            OBVIOUS
          <6>2. /\ f = [j \in Items |-> f[j]] /\ g = [j \in Items |-> g[j]]
                /\ \A j \in Items : g[j] = IF j = k THEN {} ELSE f[j]
            BY <6>1, <4>6, Zenon
          <6> QED
            BY ONLY <6>1, <6>2, ChangedAt
        <5> QED
          BY <3>1, <3>6, <4>1, <4>4, <4>5, <5>1 DEF ReconcileReturns, Loop!End
      <4> QED
        BY <4>7 DEF Loop!Next
    <3>7. CASE WorkerDone(w)
      <4>1. q'.shuttingDown = q.shuttingDown
        BY <3>7, DoneFields DEF WorkerDone, SameBut
      <4>2. Reconciling' = Reconciling /\ \A v \in Reconciling : obj'[v] = obj[v]
        BY <3>7 DEF WorkerDone, Reconciling
      <4>3. running' = running
        BY <4>2
      <4> QED
        BY <3>1, <3>7, <4>1, <4>3 DEF WorkerDone, Loop!vars
    <3> QED
      BY <2>5, <3>2, <3>3, <3>4, <3>5, <3>6, <3>7 DEF WorkerStep
  <2>6. ASSUME NEW s \in Sources, NEW k \in Items, Event(s, k) PROVE Loop!Next
    <3>1. q'.shuttingDown = q.shuttingDown
      BY <2>6, AddFields DEF Event, SameBut
    <3>2. Loop!Ask(k)
      BY <2>6, <3>1 DEF Event, Loop!Ask, Reconciling, startVars, workerVars
    <3> QED
      BY <3>2 DEF Loop!Next
  <2>7. ASSUME NEW k \in Items, DelayFires(k) PROVE UNCHANGED Loop!vars
    <3>1. q'.shuttingDown = q.shuttingDown
      BY <2>7, DelayOverFields DEF DelayFires, SameBut
    <3> QED
      BY <2>1, <2>7, <3>1 DEF DelayFires, startVars, workerVars
  <2>8. CASE Cancel
    BY <2>1, <2>8 DEF Cancel, startVars, workerVars
  <2>9. CASE UNCHANGED vars
    BY <2>1, <2>9 DEF vars, startVars, workerVars
  <2> QED
    BY <2>2, <2>3, <2>4, <2>5, <2>6, <2>7, <2>8, <2>9 DEF Next
<1> QED
  BY <1>1, <1>2, Invariance, PTL DEF Spec, ImplementsLoop, Loop!Spec
=============================================================================
