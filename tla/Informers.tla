----------------------------- MODULE Informers -----------------------------
(***************************************************************************)
(* pkg/cache/internal and pkg/source: informers are made on demand, while   *)
(* the cache is started, read and waited for.  The processes are the calls  *)
(* that need an informer: reads of the informerCache, the goroutines of     *)
(* Kind sources (which go on to register a handler and wait for the cache), *)
(* and calls of WaitForCacheSync; the controllers that wait for a Kind      *)
(* source; the Start of each specificInformersMap; and the informers        *)
(* themselves, which are client-go's.                                       *)
(***************************************************************************)
EXTENDS Naturals, Sequences, FiniteSets

CONSTANTS
  Keys,     \* pairs of a type and how it is read (structured or not)
  Maps,     \* the sequence of specificInformersMaps of an InformersMap
  mapOf,    \* the map a key belongs to
  Readers,  \* calls of Get or List of the cache
  Kinds,    \* Kind sources that were started
  Waiters,  \* calls of WaitForCacheSync by the manager
  wants     \* the key each Reader and each Kind needs

Callers == Readers \cup Kinds \cup Waiters
Getters == Readers \cup Kinds
MapSet == {Maps[n] : n \in 1..Len(Maps)}

\* There are finitely many getters.
ASSUME ConstantsAssumption ==
  /\ Maps \in Seq(MapSet)
  /\ mapOf \in [Keys -> MapSet]
  /\ wants \in [Getters -> Keys]
  /\ Readers \cap Kinds = {} /\ Waiters \cap Getters = {}
  /\ Cardinality(Getters) \in Nat /\ (Getters # {} => Cardinality(Getters) >= 1)

\* Enough for every call to make one.
MaxInformers == Cardinality(Getters)

\* Informers are told apart by the order in which they were made for a key.
Informer == Keys \X (1..MaxInformers)
None == <<>>

VARIABLES
  started,   \* specificInformersMap.started, and startWait is closed
  entry,     \* informersByGVK, over all maps
  made,      \* history: how many informers were made for each key
  runs,      \* history: how often Run was called on each informer
  synced,    \* the informers that have synced
  stopped,   \* the context of the cache is done
  cancelled, \* the calls whose own context is done
  pc,        \* where each call is
  saw,       \* what a call read of started
  inf,       \* the informer a call got
  left,      \* the maps a call of WaitForCacheSync has yet to visit
  pending,   \* the informers whose HasSynced it collected
  present,   \* history: the informers there were when it was called
  handler,   \* the informers each Kind registered its handler with
  startedCh, \* Kind.started is closed
  wait       \* where the controller's WaitForSync of each Kind is

mapVars == <<started, entry, made, runs>>
callVars == <<pc, saw, inf, left, pending, present>>
kindVars == <<handler, startedCh, wait>>
vars == <<mapVars, synced, stopped, cancelled, callVars, kindVars>>

TypeOK ==
  /\ started \in [MapSet -> BOOLEAN]
  /\ entry \in [Keys -> Informer \cup {None}]
  /\ made \in [Keys -> 0..MaxInformers]
  /\ runs \in [Informer -> 0..2]
  /\ synced \subseteq Informer
  /\ stopped \in BOOLEAN
  /\ cancelled \subseteq Callers
  /\ pc \in [Callers -> {"call", "add", "check", "got", "collect", "started", "sync",
                         "true", "false", "fail", "failed", "read", "notStarted", "end"}]
  /\ saw \in [Getters -> BOOLEAN]
  /\ inf \in [Getters -> Informer \cup {None}]
  /\ left \in [Callers -> Seq(MapSet)]
  /\ pending \in [Callers -> SUBSET Informer]
  /\ present \in [Callers -> SUBSET Informer]
  /\ handler \in [Kinds -> SUBSET Informer]
  /\ startedCh \in [Kinds -> BOOLEAN]
  /\ wait \in [Kinds -> {"no", "waiting", "nil", "error", "timeout"}]

Init ==
  /\ started = [m \in MapSet |-> FALSE]
  /\ entry = [g \in Keys |-> None]
  /\ made = [g \in Keys |-> 0]
  /\ runs = [i \in Informer |-> 0]
  /\ synced = {} /\ stopped = FALSE /\ cancelled = {}
  /\ pc = [c \in Callers |-> "call"]
  /\ saw = [c \in Getters |-> FALSE]
  /\ inf = [c \in Getters |-> None]
  /\ left = [c \in Callers |-> <<>>]
  /\ pending = [c \in Callers |-> {}]
  /\ present = [c \in Callers |-> {}]
  /\ handler = [k \in Kinds |-> {}]
  /\ startedCh = [k \in Kinds |-> FALSE]
  /\ wait = [k \in Kinds |-> "no"]

Goto(c, l) == pc' = [pc EXCEPT ![c] = l]

\* The informers in the maps of S.
Entries(S) == {entry[g] : g \in {h \in Keys : mapOf[h] \in S}} \ {None}

\* The context of a Kind source descends from that of its controller, which
\* the manager ends together with that of the cache.
Done(c) == c \in cancelled \/ (c \notin Readers /\ stopped)

----------------------------------------------------------------------------
(* The informers map *)

\* Start of one of the maps, up to the wait for the end of its context.
Start(m) ==
  /\ ~started[m]
  /\ runs' = [i \in Informer |-> IF i \in Entries({m}) THEN runs[i] + 1 ELSE runs[i]]
  /\ started' = [started EXCEPT ![m] = TRUE]
  /\ UNCHANGED <<entry, made, synced, stopped, cancelled, callVars, kindVars>>

\* Get: the look under the read lock finds an informer or does not.
Lookup(c) ==
  /\ pc[c] = "call"
  /\ IF entry[wants[c]] = None
       THEN Goto(c, "add") /\ UNCHANGED <<saw, inf>>
       ELSE /\ Goto(c, "check")
            /\ inf' = [inf EXCEPT ![c] = entry[wants[c]]]
            /\ saw' = [saw EXCEPT ![c] = started[mapOf[wants[c]]]]
  /\ UNCHANGED <<mapVars, synced, stopped, cancelled, left, pending, present, kindVars>>

\* The type is not known to the scheme, or not to the REST mapper.
GetRefused(c) ==
  /\ pc[c] = "call" \/ (pc[c] = "add" /\ entry[wants[c]] = None)
  /\ Goto(c, "fail")
  /\ UNCHANGED <<mapVars, synced, stopped, cancelled, saw, inf, left, pending, present, kindVars>>

\* addInformerToMap, under the write lock: another call was faster, ...
AddFinds(c) ==
  /\ pc[c] = "add" /\ entry[wants[c]] # None
  /\ inf' = [inf EXCEPT ![c] = entry[wants[c]]]
  /\ saw' = [saw EXCEPT ![c] = started[mapOf[wants[c]]]]
  /\ Goto(c, "check")
  /\ UNCHANGED <<mapVars, synced, stopped, cancelled, left, pending, present, kindVars>>

\* Slip: addInformerToMap does not look at the map again.
AddMakesAgain(c) ==
  LET g == wants[c]  i == <<g, made[g] + 1>> IN
  /\ pc[c] = "add"
  /\ made' = [made EXCEPT ![g] = @ + 1]
  /\ entry' = [entry EXCEPT ![g] = i]
  /\ runs' = [runs EXCEPT ![i] = IF started[mapOf[g]] THEN @ + 1 ELSE @]
  /\ inf' = [inf EXCEPT ![c] = i]
  /\ saw' = [saw EXCEPT ![c] = started[mapOf[g]]]
  /\ Goto(c, "check")
  /\ UNCHANGED <<started, synced, stopped, cancelled, left, pending, present, kindVars>>

\* ... or the informer is made, and run if the map was started.
AddMakes(c) ==
  LET g == wants[c]  i == <<g, made[g] + 1>> IN
  /\ pc[c] = "add" /\ entry[g] = None
  /\ made' = [made EXCEPT ![g] = @ + 1]
  /\ entry' = [entry EXCEPT ![g] = i]
  /\ runs' = [runs EXCEPT ![i] = IF started[mapOf[g]] THEN @ + 1 ELSE @]
  /\ inf' = [inf EXCEPT ![c] = i]
  /\ saw' = [saw EXCEPT ![c] = started[mapOf[g]]]
  /\ Goto(c, "check")
  /\ UNCHANGED <<started, synced, stopped, cancelled, left, pending, present, kindVars>>

\* Slip: Get does not wait for the informer.
GotUnsynced(c) ==
  /\ pc[c] = "check"
  /\ Goto(c, "got")
  /\ UNCHANGED <<mapVars, synced, stopped, cancelled, saw, inf, left, pending, present, kindVars>>

\* Get waits for the informer only if it saw the map started.
Got(c) ==
  /\ pc[c] = "check"
  /\ saw[c] => inf[c] \in synced
  /\ Goto(c, "got")
  /\ UNCHANGED <<mapVars, synced, stopped, cancelled, saw, inf, left, pending, present, kindVars>>

GetTimesOut(c) ==
  /\ pc[c] = "check" /\ saw[c] /\ inf[c] \notin synced /\ Done(c)
  /\ Goto(c, "fail")
  /\ UNCHANGED <<mapVars, synced, stopped, cancelled, saw, inf, left, pending, present, kindVars>>

GetStep(c) ==
  \/ Lookup(c) \/ GetRefused(c) \/ AddFinds(c) \/ AddMakes(c) \/ Got(c) \/ GetTimesOut(c)

----------------------------------------------------------------------------
(* WaitForCacheSync: collect, wait for the starts, wait for the syncs. *)

BeginWait(c) ==
  /\ left' = [left EXCEPT ![c] = Maps]
  /\ present' = [present EXCEPT ![c] = Entries(MapSet)]
  /\ Goto(c, "collect")

Collect(c) ==
  /\ pc[c] = "collect" /\ left[c] # <<>>
  /\ pending' = [pending EXCEPT ![c] = @ \cup Entries({Head(left[c])})]
  /\ left' = [left EXCEPT ![c] = Tail(@)]
  /\ UNCHANGED <<mapVars, synced, stopped, cancelled, pc, saw, inf, present, kindVars>>

Collected(c) ==
  /\ pc[c] = "collect" /\ left[c] = <<>>
  /\ left' = [left EXCEPT ![c] = Maps]
  /\ Goto(c, "started")
  /\ UNCHANGED <<mapVars, synced, stopped, cancelled, saw, inf, pending, present, kindVars>>

SawStarted(c) ==
  /\ pc[c] = "started"
  /\ IF left[c] = <<>>
       THEN Goto(c, "sync") /\ UNCHANGED left
       ELSE /\ started[Head(left[c])]
            /\ left' = [left EXCEPT ![c] = Tail(@)]
            /\ UNCHANGED pc
  /\ UNCHANGED <<mapVars, synced, stopped, cancelled, saw, inf, pending, present, kindVars>>

SawSynced(c) ==
  /\ pc[c] = "sync" /\ pending[c] \subseteq synced
  /\ Goto(c, "true")
  /\ UNCHANGED <<mapVars, synced, stopped, cancelled, saw, inf, left, pending, present, kindVars>>

\* Slip: the end of the context does not end the wait for the start.
WaitIgnoresContext(c) ==
  /\ pc[c] = "sync" /\ Done(c)
  /\ Goto(c, "false")
  /\ UNCHANGED <<mapVars, synced, stopped, cancelled, saw, inf, left, pending, present, kindVars>>

WaitFails(c) ==
  /\ pc[c] = "sync" \/ (pc[c] = "started" /\ left[c] # <<>>)
  /\ Done(c)
  /\ Goto(c, "false")
  /\ UNCHANGED <<mapVars, synced, stopped, cancelled, saw, inf, left, pending, present, kindVars>>

WaitStep(c) ==
  Collect(c) \/ Collected(c) \/ SawStarted(c) \/ SawSynced(c) \/ WaitFails(c)

\* The manager's call.
WaiterBegins(c) ==
  /\ c \in Waiters /\ pc[c] = "call"
  /\ BeginWait(c)
  /\ UNCHANGED <<mapVars, synced, stopped, cancelled, saw, inf, pending, kindVars>>

----------------------------------------------------------------------------
(* Reads of the cache *)

\* A read fails unless the cache was started when the informer was looked up.
ReadEnds(c) ==
  /\ c \in Readers /\ pc[c] \in {"got", "fail"}
  /\ Goto(c, IF pc[c] = "fail" THEN "failed" ELSE IF saw[c] THEN "read" ELSE "notStarted")
  /\ UNCHANGED <<mapVars, synced, stopped, cancelled, saw, inf, left, pending, present, kindVars>>

----------------------------------------------------------------------------
(* Kind sources: the goroutine of Start ... *)

KindRegisters(k) ==
  /\ k \in Kinds /\ pc[k] = "got"
  /\ handler' = [handler EXCEPT ![k] = @ \cup {inf[k]}]
  /\ BeginWait(k)
  /\ UNCHANGED <<mapVars, synced, stopped, cancelled, saw, inf, pending, startedCh, wait>>

KindCloses(k) ==
  /\ k \in Kinds /\ pc[k] = "true"
  /\ startedCh' = [startedCh EXCEPT ![k] = TRUE]
  /\ Goto(k, "end")
  /\ UNCHANGED <<mapVars, synced, stopped, cancelled, saw, inf, left, pending, present, handler, wait>>

\* ... and WaitForSync, which the controller calls.
WaitForSync(k) ==
  /\ wait[k] = "no"
  /\ wait' = [wait EXCEPT ![k] = "waiting"]
  /\ UNCHANGED <<mapVars, synced, stopped, cancelled, callVars, handler, startedCh>>

SyncedSource(k) ==
  /\ wait[k] = "waiting" /\ startedCh[k]
  /\ wait' = [wait EXCEPT ![k] = "nil"]
  /\ UNCHANGED <<mapVars, synced, stopped, cancelled, callVars, handler, startedCh>>

\* The goroutine hands its error over on the unbuffered channel; after a
\* failed sync it then closes the channel, after a failed Get it does not.
SourceFails(k) ==
  /\ wait[k] = "waiting" /\ pc[k] \in {"fail", "false"}
  /\ wait' = [wait EXCEPT ![k] = "error"]
  /\ startedCh' = [startedCh EXCEPT ![k] = pc[k] = "false"]
  /\ Goto(k, "end")
  /\ UNCHANGED <<mapVars, synced, stopped, cancelled, saw, inf, left, pending, present, handler>>

\* The controller's context, or its CacheSyncTimeout, ends the wait and the
\* context of the goroutine; nobody receives its error then.
WaitForSyncTimesOut(k) ==
  /\ wait[k] = "waiting"
  /\ wait' = [wait EXCEPT ![k] = "timeout"]
  /\ cancelled' = cancelled \cup {k}
  /\ UNCHANGED <<mapVars, synced, stopped, callVars, handler, startedCh>>

----------------------------------------------------------------------------
(* The environment *)

InformerSyncs(i) ==
  /\ runs[i] > 0 /\ i \notin synced /\ ~stopped
  /\ synced' = synced \cup {i}
  /\ UNCHANGED <<mapVars, stopped, cancelled, callVars, kindVars>>

Stop ==
  /\ ~stopped
  /\ stopped' = TRUE
  /\ UNCHANGED <<mapVars, synced, cancelled, callVars, kindVars>>

CancelRead(c) ==
  /\ c \notin cancelled
  /\ cancelled' = cancelled \cup {c}
  /\ UNCHANGED <<mapVars, synced, stopped, callVars, kindVars>>

CallStep(c) ==
  \/ c \in Getters /\ GetStep(c)
  \/ WaitStep(c) \/ WaiterBegins(c) \/ ReadEnds(c) \/ KindRegisters(c) \/ KindCloses(c)

SyncStep(k) == SyncedSource(k) \/ SourceFails(k)

Next ==
  \/ \E m \in MapSet : Start(m)
  \/ \E c \in Callers : CallStep(c)
  \/ \E k \in Kinds : WaitForSync(k) \/ SyncStep(k) \/ WaitForSyncTimesOut(k)
  \/ \E i \in Informer : InformerSyncs(i)
  \/ \E c \in Readers : CancelRead(c)
  \/ Stop

Spec == Init /\ [][Next]_vars

\* Goroutines run.  Nothing makes an informer sync, the maps start, or a
\* context end.
FairSpec ==
  /\ Spec
  /\ \A c \in Callers : WF_vars(CallStep(c))
  /\ \A k \in Kinds : WF_vars(SyncStep(k))

----------------------------------------------------------------------------
(* Properties *)

\* However Start and the calls that make informers interleave, an informer in
\* the map of a started cache is run once and no other is run at all, and all
\* calls for a key share the informer in the map: nobody reads from, or
\* registers a handler with, an informer that the cache does not know.
SharedInformer ==
  /\ \A i \in Informer :
       runs[i] = IF \E m \in MapSet : started[m] /\ i \in Entries({m}) THEN 1 ELSE 0
  /\ \A c \in Getters : inf[c] # None => inf[c] = entry[wants[c]]

\* A read that succeeds reads from an informer that has synced, "so that
\* folks don't read from a stale cache".
ReadsSynced == \A c \in Readers : pc[c] = "read" => inf[c] \in synced

\* When WaitForSync of a Kind source returns nil, its handler is registered
\* with the informer of the cache, and that informer has synced, even though
\* a Get before the start of the cache returns an informer that has not.
SourceReady ==
  \A k \in Kinds : wait[k] = "nil" => \E i \in handler[k] \cap synced : i = entry[wants[k]]

\* A WaitForCacheSync that returns true has seen every map started and every
\* informer synced that there was when it was called.
WaitCoversPresent ==
  \A c \in Callers : pc[c] = "true" =>
    present[c] \subseteq synced /\ \A m \in MapSet : started[m]

\* Nobody is told that a cache has synced before it has: not a reader, not the
\* controller that waits for a source, not the manager.
SyncedWhenSaid == ReadsSynced /\ SourceReady /\ WaitCoversPresent

\* A call whose context is done returns, and the goroutine of a Kind source
\* whose context is done comes to its report, whether or not the cache is
\* ever started or synced.
CallsEnd ==
  \A c \in Callers :
    Done(c) ~> pc[c] \in {"true", "false", "fail", "failed", "read", "notStarted", "end"}
============================================================================
