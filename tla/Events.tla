------------------------------- MODULE Events -------------------------------
(***************************************************************************)
(* pkg/source/internal, pkg/predicate, pkg/handler: from a change of an     *)
(* object to a reconcile that knows of it.  The informer (client-go) puts   *)
(* what it learns of the object into the cache and notifies the adapter;    *)
(* the predicates drop events; the handler adds requests to the work queue; *)
(* a worker takes a request and reads the cache.                            *)
(***************************************************************************)
EXTENDS WorkQueue, Naturals

CONSTANTS
  Owners,     \* the names of objects that may own the watched one
  RefLists,   \* the lists of owner references it may have
  Configs,    \* handler, predicates, scope of the owner type, and the labels, annotations
              \* and lists of owner references in use
  mapsTo,     \* the MapFunc of the user: the owners for each label
  MaxWrites,  \* bound: the writes to the object
  MaxNotes,   \* bound: the notifications that are on their way
  None

Labels == {"in", "out"}

\* A label selector selects the objects with label "in".
Objects ==
  [rv : 1..MaxWrites, gen : 1..MaxWrites, label : Labels, annotation : BOOLEAN, refs : RefLists]

Self == [name |-> None, namespace |-> "ns"]
Owner(n, scope) == [name |-> n, namespace |-> IF scope = "root" THEN "" ELSE "ns"]
Requests == {Self} \cup {Owner(n, s) : n \in Owners, s \in {"root", "namespace"}}

Refs == [name : Owners, kind : {"owner", "other"}, version : {"known", "unknown", "bad"},
         controller : BOOLEAN]

ConstantsAssumption ==
  /\ Items = Requests
  /\ None \notin Owners \cup Objects \cup Requests
  /\ MaxWrites \in Nat /\ MaxNotes \in Nat
  /\ RefLists \subseteq Seq(Refs)
  /\ \A c \in Configs :
       /\ c.handler \in {"object", "mapped", "owner", "controller"}
       /\ c.scope \in {"root", "namespace"} /\ c.refLists \subseteq RefLists
       /\ c.labels \subseteq Labels /\ c.annotations \subseteq BOOLEAN
       /\ \A n \in 1..Len(c.predicates) :
            /\ c.predicates[n].type \in {"or", "and", "selector"}
            \* An Or of no predicates lets nothing pass.
            /\ c.predicates[n].type = "or" => Len(c.predicates[n].of) \in Nat \ {0}
  /\ mapsTo \in [Labels -> SUBSET Owners]

VARIABLES
  config,  \* of the watch
  object,  \* the object in the API server, or None
  writes,  \* how often it was written
  cached,  \* the object in the indexer of the informer, or None
  notes,   \* the notifications the informer has not delivered
  adding,  \* the requests the handler has yet to add for the one it was given
  q,       \* the work queue
  holds,   \* the request the worker has, or None
  read,    \* the reconcile has read the cache
  seen     \* what the last reconcile of each request read of the object

vars == <<config, object, writes, cached, notes, adding, q, holds, read, seen>>

Events == [kind : {"create", "update", "delete", "generic"}, old : Objects \cup {None},
           new : Objects \cup {None}]

TypeOK ==
  /\ config \in Configs
  /\ object \in Objects \cup {None}
  /\ writes \in 0..MaxWrites
  /\ cached \in Objects \cup {None}
  /\ notes \in Seq(Events \cup [kind : {"tombstone"}, old : {None}, new : Objects \cup {None}])
  /\ Len(notes) <= MaxNotes
  /\ adding \subseteq Requests
  /\ q \in Queues
  /\ holds \in Requests \cup {None}
  /\ read \in BOOLEAN
  /\ seen \in [Requests -> Objects \cup {None}]

----------------------------------------------------------------------------
(* Predicates.  All but the composed ones are Funcs for the events they do  *)
(* not look at, and Funcs let pass what they have no function for.          *)

Changed(field, e) == e.kind = "update" => e.old[field] # e.new[field]

\* NewPredicateFuncs applies its filter to the new object of an update.
Judged(e) == e.new

\* The filter of LabelSelectorPredicate.
Selects(e) == Judged(e).label = "in"

\* Slip: Or asks for all of its predicates.
OrPassesAll(p, e) ==
  \A n \in 1..Len(p.of) : Changed(p.of[n], e)

\* Or and And of the predicates that compare a field.
OrPasses(p, e) ==
  \E n \in 1..Len(p.of) : Changed(p.of[n], e)

AndPasses(p, e) ==
  \A n \in 1..Len(p.of) : Changed(p.of[n], e)

Passes(p, e) ==
  CASE p.type = "or"       -> OrPasses(p, e)
    [] p.type = "and"      -> AndPasses(p, e)
    [] p.type = "selector" -> Selects(e)

----------------------------------------------------------------------------
(* Handlers *)

\* getOwnersReferences: all references, or the first one of a controller.
getOwnersReferences(o) ==
  IF config.handler = "owner" THEN o.refs
  ELSE LET c == {n \in 1..Len(o.refs) :
                   o.refs[n].controller /\ \A k \in 1..(n - 1) : ~o.refs[k].controller}
       IN IF c = {} THEN <<>> ELSE <<o.refs[CHOOSE n \in c : TRUE]>>

\* A reference at which getOwnerReconcileRequest gives up: its version cannot
\* be parsed, or is not one the mapper knows for the owner type.
Unusable(ref) == ref.version = "bad" \/ (ref.kind = "owner" /\ ref.version = "unknown")

OwnerRequest(ref) == Owner(ref.name, config.scope)

getOwnerReconcileRequest(o) ==
  LET refs == getOwnersReferences(o)
  IN {OwnerRequest(refs[n]) : n \in {k \in 1..Len(refs) :
        refs[k].kind = "owner" /\ \A j \in 1..k : ~Unusable(refs[j])}}

\* Slip: only the new object of an update counts.
OfNew(e) == {e.new}

\* The objects whose owners an event concerns.
Of(e) == {e.new} \cup IF e.kind = "update" THEN {e.old} ELSE {}

EnqueueRequestForObject(e) == {Self}

EnqueueRequestForOwner(e) == UNION {getOwnerReconcileRequest(o) : o \in Of(e)}

EnqueueRequestsFromMapFunc(e) == {Owner(n, config.scope) : n \in UNION {mapsTo[o.label] : o \in Of(e)}}

Handled(e) ==
  CASE config.handler = "object" -> EnqueueRequestForObject(e)
    [] config.handler = "mapped" -> EnqueueRequestsFromMapFunc(e)
    [] config.handler \in {"owner", "controller"} -> EnqueueRequestForOwner(e)

----------------------------------------------------------------------------
(* The adapter *)

\* OnAdd, OnUpdate, OnDelete: the event of a notification.  A tombstone holds
\* the last known state of an object whose deletion was missed, or nothing.
Adapt(n) ==
  IF n.new = None THEN {}
  ELSE IF n.kind = "tombstone" THEN {[n EXCEPT !.kind = "delete"]} ELSE {n}

\* The requests an event leads to.
Requested(n) ==
  UNION {Handled(e) : e \in {d \in Adapt(n) :
           \A k \in 1..Len(config.predicates) : Passes(config.predicates[k], d)}}

\* The adapter and the handler are given one notification after the other.
Deliver ==
  /\ notes # <<>> /\ adding = {}
  /\ notes' = Tail(notes)
  /\ adding' = Requested(Head(notes))
  /\ UNCHANGED <<config, object, writes, cached, q, holds, read, seen>>

\* The handler adds one request after the other, in any order: they are
\* collected in a Go map.
Enqueue(r) ==
  /\ r \in adding
  /\ q' = Add(q, r)
  /\ adding' = adding \ {r}
  /\ UNCHANGED <<config, object, writes, cached, notes, holds, read, seen>>

----------------------------------------------------------------------------
(* The API server and the informer *)

Write(o) == object' = o /\ writes' = writes + 1 /\ UNCHANGED <<config, cached, notes, adding, q, holds, read, seen>>

Create ==
  /\ object = None /\ writes < MaxWrites
  /\ \E l \in config.labels, r \in config.refLists :
       Write([rv |-> writes + 1, gen |-> 1, label |-> l, annotation |-> FALSE, refs |-> r])

\* Only a write to the specification raises the generation.
Update ==
  /\ object # None /\ writes < MaxWrites
  /\ LET o == [object EXCEPT !.rv = writes + 1] IN
       \/ Write([o EXCEPT !.gen = @ + 1])
       \/ \E l \in config.labels \ {o.label} : Write([o EXCEPT !.label = l])
       \/ \E a \in config.annotations \ {o.annotation} : Write([o EXCEPT !.annotation = a])
       \/ \E r \in config.refLists \ {o.refs} : Write([o EXCEPT !.refs = r])

Delete ==
  /\ object # None
  /\ object' = None
  /\ UNCHANGED <<config, writes, cached, notes, adding, q, holds, read, seen>>

Note(kind, old, new) ==
  /\ Len(notes) < MaxNotes
  /\ notes' = Append(notes, [kind |-> kind, old |-> old, new |-> new])

\* The informer catches up with the API server, after any number of writes:
\* an object that was deleted and created again looks updated.
InformerSees ==
  /\ cached # object
  /\ cached' = object
  /\ CASE cached = None -> Note("create", None, object)
       [] object = None -> \E k \in {"delete", "tombstone"} : Note(k, None, cached)
       [] OTHER -> Note("update", cached, object)
  /\ UNCHANGED <<config, object, writes, adding, q, holds, read, seen>>

\* It reports the object again (a resync, or an event from another source
\* with the same handler), or a deletion of what it does not know.
InformerRepeats ==
  /\ \/ cached # None /\ Note("update", cached, cached)
     \/ cached # None /\ Note("generic", None, cached)
     \/ cached = None /\ Note("tombstone", None, None)
  /\ UNCHANGED <<config, object, writes, cached, adding, q, holds, read, seen>>

----------------------------------------------------------------------------
(* The worker *)

WorkerGets ==
  /\ holds = None /\ CanGet(q)
  /\ holds' = Head(q.order)
  /\ q' = Get(q)
  /\ UNCHANGED <<config, object, writes, cached, notes, adding, read, seen>>

\* r is the object itself, or one of its owners, by its references or the
\* user's mapping.
OwnedBy(o, r) ==
  \/ config.handler = "object" /\ r = Self
  \/ config.handler = "mapped" /\ r \in {Owner(n, config.scope) : n \in mapsTo[o.label]}
  \/ /\ config.handler = "owner"
     /\ \E n \in 1..Len(o.refs) :
          /\ o.refs[n].kind = "owner" /\ OwnerRequest(o.refs[n]) = r
          /\ \A k \in 1..n : ~Unusable(o.refs[k])
  \/ /\ config.handler = "controller"
     /\ \E n \in 1..Len(o.refs) :
          /\ o.refs[n].kind = "owner" /\ OwnerRequest(o.refs[n]) = r /\ ~Unusable(o.refs[n])
          /\ o.refs[n].controller /\ \A k \in 1..(n - 1) : ~o.refs[k].controller

\* What a reconcile of r finds when the cache holds o.
ViewOf(o, r) == IF o # None /\ OwnedBy(o, r) THEN o ELSE None

Reconcile ==
  /\ holds # None /\ ~read
  /\ seen' = [seen EXCEPT ![holds] = ViewOf(cached, holds)]
  /\ read' = TRUE
  /\ UNCHANGED <<config, object, writes, cached, notes, adding, q, holds>>

ReconcileDone ==
  /\ read
  /\ q' = Done(q, holds)
  /\ holds' = None /\ read' = FALSE
  /\ UNCHANGED <<config, object, writes, cached, notes, adding, seen>>

Init ==
  /\ config \in Configs
  /\ object = None /\ writes = 0 /\ cached = None /\ notes = <<>> /\ adding = {}
  /\ q = NewQueue /\ holds = None /\ read = FALSE
  /\ seen = [r \in Requests |-> None]

Next ==
  \/ Create \/ Update \/ Delete \/ InformerSees \/ InformerRepeats
  \/ Deliver \/ (\E r \in Requests : Enqueue(r)) \/ WorkerGets \/ Reconcile \/ ReconcileDone

Spec == Init /\ [][Next]_vars

----------------------------------------------------------------------------
(* Properties *)

\* No reconcile of r is on its way.
Settled(r) == notes = <<>> /\ r \notin adding \cup q.dirty /\ (holds = r => read)

Filters == {config.predicates[n] : n \in 1..Len(config.predicates)}

Watches(field) == [type |-> "or", of |-> <<field>>]

\* No wake-up is lost on the way from the informer to the workers: when no
\* reconcile is on its way, every owner has seen the object as it is in the
\* cache, and every former owner that it is not theirs any more.  Deletions
\* that were missed, changes that were merged, and the resource version
\* predicate make no difference.
OwnersCurrent ==
  Filters \subseteq {Watches("rv")} =>
    \A r \in Requests : Settled(r) => seen[r] = ViewOf(cached, r)

\* No predicate that compares fields hides that the object is there or gone.
\* What was seen of it may be old, but not in the fields that are looked at:
\* an update is dropped only if they are equal.
FieldsCurrent ==
  \A p \in Filters :
    Filters = {p} /\ p.type # "selector" /\ config.handler = "object" /\ Settled(Self) =>
      /\ seen[Self] = None <=> cached = None
      /\ p.type = "or" /\ cached # None =>
           \A n \in 1..Len(p.of) : seen[Self][p.of[n]] = cached[p.of[n]]

\* With a selector the reconciler knows the selected object as it is.  (Of an
\* object that is not selected any more it is not told.)
SelectedCurrent ==
  /\ Filters = {[type |-> "selector"]} /\ config.handler = "object" /\ Settled(Self)
  /\ cached # None /\ cached.label = "in"
  => seen[Self] = cached

\* Both: with every filter, what the reconciler last saw is what it asked for.
FilteredCurrent == FieldsCurrent /\ SelectedCurrent
============================================================================
