------------------------------- MODULE Loggers -------------------------------
(***************************************************************************)
(* pkg/log: the root logger hands out promises until SetLogger fulfils     *)
(* them, which goes down the tree of loggers while other goroutines go on  *)
(* deriving new ones.  A logger is the sequence of what was done to a base *)
(* one: a name, values or a level added.                                   *)
(***************************************************************************)
EXTENDS Naturals, Sequences

CONSTANTS Users,       \* goroutines that derive loggers
          Tags,        \* what a logger can be given: a name, values, a level
          MaxLoggers,  \* bound: loggers made
          Setters      \* goroutines that call SetLogger or are init's timer

Ids == 1 .. MaxLoggers
Root == 1
Null == <<"null">>
Timer == "timer"
None == "none"

\* There is a root logger, and no logger that is set looks like the null one.
LogConstants ==
    /\ MaxLoggers \in Nat \ {0}
    /\ "null" \notin Setters /\ None \notin Setters

ASSUME LoggersConstants == LogConstants

VARIABLES
    made,      \* loggers that exist: 1 .. made
    logger,    \* DelegatingLogger.logger; fixed for a logger that delegates to nothing
    promise,   \* whether it has a promise
    kids,      \* loggerPromise.childPromises, of its promise
    tag,       \* name, tags or level of its promise
    want,      \* history: what was done to the root to get this logger
    rlocks,    \* DelegatingLogger.lock: users that hold it for reading
    user,      \* of each user: the logger it derives from, and the new one
    wasSet,    \* loggerWasSet
    setter,    \* who holds loggerWasSetLock
    todo,      \* Fulfill: promises still to fulfil, each with its parent logger
    called     \* setters that are through

vars == <<made, logger, promise, kids, tag, want, rlocks, user, wasSet, setter, todo, called>>

Idle == [pc |-> "idle", from |-> 0, new |-> 0]

TypeOK ==
    /\ made \in Ids
    /\ promise \in [Ids -> BOOLEAN] /\ rlocks \in [Ids -> SUBSET Users]
    /\ kids \in [Ids -> SUBSET Ids]
    /\ user \in [Users -> [pc : {"idle", "locked", "added"}, from : 0 .. MaxLoggers, new : 0 .. MaxLoggers]]
    /\ wasSet \in BOOLEAN /\ setter \in Setters \cup {None} /\ called \subseteq Setters

\* NewDelegatingLogger
Init ==
    /\ made = 1
    /\ logger = [i \in Ids |-> Null] /\ promise = [i \in Ids |-> i = Root]
    /\ kids = [i \in Ids |-> {}] /\ tag = [i \in Ids |-> None] /\ want = [i \in Ids |-> <<>>]
    /\ rlocks = [i \in Ids |-> {}] /\ user = [u \in Users |-> Idle]
    /\ wasSet = FALSE /\ setter = None /\ todo = <<>> /\ called = {}

\* A logger that no goroutine is still making.
Known == {i \in 1 .. made : \A u \in Users : user[u].new # i}

\* NullLogger stays what it is; any other logger takes the tag.
With(l, t) == IF l = Null THEN Null ELSE Append(l, t)

\* WithName, WithValues and V take the lock for reading.  Fulfill waits for it.
RLock(u, i) ==
    /\ user[u] = Idle /\ made < MaxLoggers /\ i \in Known
    /\ rlocks' = [rlocks EXCEPT ![i] = @ \cup {u}]
    /\ user' = [user EXCEPT ![u] = [pc |-> "locked", from |-> i, new |-> 0]]
    /\ UNCHANGED <<made, logger, promise, kids, tag, want, wasSet, setter, todo, called>>

\* Without a promise the real logger derives; otherwise the new logger's
\* promise is added to the children, under promisesLock.
Derive(u, t) ==
    LET i == user[u].from
        n == made + 1
    IN  /\ user[u].pc = "locked" /\ made < MaxLoggers
        /\ made' = n
        /\ want' = [want EXCEPT ![n] = Append(want[i], t)]
        /\ logger' = [logger EXCEPT ![n] = IF promise[i] THEN logger[i] ELSE With(logger[i], t)]
        /\ kids' = IF promise[i] THEN [kids EXCEPT ![i] = @ \cup {n}] ELSE kids
        /\ tag' = [tag EXCEPT ![n] = t]
        /\ user' = [user EXCEPT ![u] = [pc |-> "added", from |-> i, new |-> n]]
        /\ UNCHANGED <<promise, rlocks, wasSet, setter, todo, called>>

\* res.promise is set, the lock is released and the logger returned.
Derived(u) ==
    LET i == user[u].from
        n == user[u].new
    IN  /\ user[u].pc = "added"
        /\ promise' = [promise EXCEPT ![n] = n \in kids[i]]
        /\ rlocks' = [rlocks EXCEPT ![i] = @ \ {u}]
        /\ user' = [user EXCEPT ![u] = Idle]
        /\ UNCHANGED <<made, logger, kids, tag, want, wasSet, setter, todo, called>>

\* The bound on loggers is reached: the user gives up.
GiveUp(u) ==
    /\ user[u].pc = "locked" /\ made = MaxLoggers
    /\ rlocks' = [rlocks EXCEPT ![user[u].from] = @ \ {u}]
    /\ user' = [user EXCEPT ![u] = Idle]
    /\ UNCHANGED <<made, logger, promise, kids, tag, want, wasSet, setter, todo, called>>

-----------------------------------------------------------------------------
\* SetLogger, and the goroutine of init after 30 seconds, which gives up if a
\* logger was set.  Only the first finds a promise.
SetLogger(s) ==
    /\ s \notin called /\ setter = None
    /\ IF promise[Root] /\ (s # Timer \/ ~wasSet)
       THEN /\ setter' = s
            /\ todo' = <<[id |-> Root, parent |-> IF s = Timer THEN Null ELSE <<s>>]>>
            /\ UNCHANGED called
       ELSE called' = called \cup {s} /\ UNCHANGED <<setter, todo>>
    /\ wasSet' = (wasSet \/ s # Timer)
    /\ UNCHANGED <<made, logger, promise, kids, tag, want, rlocks, user>>

\* childPromises in the order they were added in.
Sorted(S) == {q \in UNION {[1 .. k -> S] : k \in 0 .. MaxLoggers} :
                /\ S = {q[a] : a \in DOMAIN q}
                /\ \A a, b \in DOMAIN q : a < b => q[a] < q[b]}

\* Slip: a promise is fulfilled without the lock of its logger.
FulfillUnlocked ==
    LET p == todo[1]
        real == IF p.id = Root THEN p.parent ELSE With(p.parent, tag[p.id])
    IN  /\ todo # <<>>
        /\ logger' = [logger EXCEPT ![p.id] = real]
        /\ promise' = [promise EXCEPT ![p.id] = FALSE]
        /\ \E order \in Sorted(kids[p.id]) :
             todo' = [a \in DOMAIN order |-> [id |-> order[a], parent |-> real]] \o Tail(todo)
        /\ UNCHANGED <<made, kids, tag, want, rlocks, user, wasSet, setter, called>>

\* loggerPromise.Fulfill for one promise: the logger is replaced under the
\* lock, and then the children are gone through, depth first.
Fulfill ==
    LET p == todo[1]
        real == IF p.id = Root THEN p.parent ELSE With(p.parent, tag[p.id])
    IN  /\ todo # <<>> /\ rlocks[p.id] = {}
        /\ logger' = [logger EXCEPT ![p.id] = real]
        /\ promise' = [promise EXCEPT ![p.id] = FALSE]
        /\ \E order \in Sorted(kids[p.id]) :
             todo' = [a \in DOMAIN order |-> [id |-> order[a], parent |-> real]] \o Tail(todo)
        /\ UNCHANGED <<made, kids, tag, want, rlocks, user, wasSet, setter, called>>

SetLoggerReturns ==
    /\ setter # None /\ todo = <<>>
    /\ called' = called \cup {setter}
    /\ setter' = None
    /\ UNCHANGED <<made, logger, promise, kids, tag, want, rlocks, user, wasSet, todo>>

Next ==
    \/ \E u \in Users : \/ \E i \in Ids : RLock(u, i)
                        \/ \E t \in Tags : Derive(u, t)
                        \/ Derived(u) \/ GiveUp(u)
    \/ \E s \in Setters : SetLogger(s)
    \/ Fulfill \/ SetLoggerReturns

Spec == Init /\ [][Next]_vars

-----------------------------------------------------------------------------
\* Once a call of SetLogger is through, every logger anybody holds, made
\* before, during or after it, writes to the logger of the first setter with
\* everything that was added on the way to it; none is left behind with its
\* promise (DelegatingLogger.WithName, loggerPromise.Fulfill, SetLogger).
PromisesKept ==
    /\ TypeOK
    /\ called # {} =>
         \A i \in Known : /\ ~promise[i]
                          /\ logger[i] \in {Null} \cup {<<s>> \o want[i] : s \in Setters \ {Timer}}
                          /\ logger[i] = Null <=> logger[Root] = Null

=============================================================================
