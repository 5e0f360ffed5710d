------------------------------ MODULE CacheReads ------------------------------
(***************************************************************************)
(* Reading from a synced cache: CacheReader (cache/internal/cache_reader.go)*)
(* over one informer's store, the field indexes of informer_cache.go, and   *)
(* the multi-namespace cache that reads one such cache per namespace        *)
(* (cache/multi_namespace_cache.go).  The store and the map of caches are   *)
(* iterated in any order.                                                   *)
(***************************************************************************)
EXTENDS Integers, Sequences, SequencesExt, FiniteSets

CONSTANTS Objects,      \* the objects of a kind: [ns, name, label, field]
          Namespaces,   \* the namespaces of a multi-namespace cache
          Queries       \* the reads: [op, multi, namespaced, mapped, key, opts, prior]

VARIABLES store, input, output

vars == <<store, input, output>>

All == ""
Error(e) == [err |-> e, items |-> <<>>]
Found(items) == [err |-> "none", items |-> items]
Select(s, Test(_)) == SelectSeq(s, Test)

\* One informer per namespace holds the objects of that namespace.
HeldBy(ns) == {o \in store : ns = All \/ o.ns = ns}

\* Slip: the index ignores namespaces.
AnyNamespaceKey(ns, val) == <<"__all_namespaces", val>>

\* indexByField: the keys under which the field index holds an object; a
\* cluster-scoped object only has the one for all namespaces.
KeyToNamespacedKey(ns, val) == <<IF ns # All THEN ns ELSE "__all_namespaces", val>>
indexByField(o) ==
    {KeyToNamespacedKey(o.ns, o.field), KeyToNamespacedKey(All, o.field)}

\* The selector's requirements: the index serves a single equality.
requiresExactMatch(sel) == sel.terms = 1 /\ sel.equal

\* objectKeyToStoreKey
objectKeyToStoreKey(key) == IF key.ns = All THEN <<key.name>> ELSE <<key.ns, key.name>>

CacheGet(held, q) ==
    LET key == IF q.namespaced THEN q.key ELSE [q.key EXCEPT !.ns = All]
        hits == {o \in held : objectKeyToStoreKey(o) = objectKeyToStoreKey(key)}
    IN  IF hits = {} THEN Error("not found")
        ELSE IF ~q.sameType THEN Error("type")
        ELSE Found(SetToSeq(hits))

\* CacheReader.List of the objects the store or an index gives, in their order
Listed(objs, o) ==
    LET read == IF o.limit > 0 THEN SubSeq(objs, 1, IF o.limit < Len(objs) THEN o.limit
                                                   ELSE Len(objs)) ELSE objs
    IN  Select(read, LAMBDA x : o.label = "any" \/ x.label = o.label)

\* What the informer's store or one of its indexes holds
Indexed(held, o) ==
    CASE o.field # "any" ->
           {x \in held : KeyToNamespacedKey(o.ns, o.field) \in indexByField(x)}
      [] o.ns # All -> {x \in held : x.ns = o.ns}
      [] OTHER -> held

CacheList(held, o, order) ==
    IF o.field # "any" /\ ~(requiresExactMatch(o.sel) /\ o.indexed) THEN Error("index")
    ELSE Found(Listed(Select(order, LAMBDA x : x \in Indexed(held, o)), o))

-----------------------------------------------------------------------------
(* The multi-namespace cache.                                               *)

MultiGet(q) ==
    CASE ~q.mapped -> Error("scope")
      [] q.mapped /\ ~q.namespaced -> CacheGet(HeldBy(All), q)
      [] q.mapped /\ q.namespaced /\ q.key.ns \notin Namespaces -> Error("unknown namespace")
      [] OTHER -> CacheGet(HeldBy(q.key.ns), q)

\* The caches are read in turn until the limit is used up.  The items the
\* caller's list held before stay in front of what is read.
MultiAll(q, order, caches) ==
    LET read(acc, ns) ==
            IF acc.full \/ acc.err # "none" THEN acc
            ELSE LET r == CacheList(HeldBy(ns), [q.opts EXCEPT !.limit = acc.limit], order)
                     left == acc.limit - Len(r.items)
                 IN  [err |-> r.err, items |-> acc.items \o r.items,
                      limit |-> IF q.opts.limit > 0 THEN left ELSE acc.limit,
                      full |-> q.opts.limit > 0 /\ left = 0]
        all == FoldLeft(read, [err |-> "none", items |-> q.prior, limit |-> q.opts.limit,
                               full |-> FALSE], caches)
    IN  IF all.err # "none" THEN Error(all.err) ELSE Found(all.items)

MultiList(q, order, caches) ==
    CASE ~q.mapped -> Error("scope")
      [] q.mapped /\ ~q.namespaced -> CacheList(HeldBy(All), q.opts, order)
      [] q.mapped /\ q.namespaced /\ q.opts.ns = All -> MultiAll(q, order, caches)
      [] OTHER -> IF q.opts.ns \in Namespaces THEN CacheList(HeldBy(q.opts.ns), q.opts, order)
                  ELSE Error("unknown namespace")

-----------------------------------------------------------------------------
NoQuery == [op |-> "none"]

Init ==
    /\ store \in SUBSET {o \in Objects : o.ns # All} \cup SUBSET {o \in Objects : o.ns = All}
    /\ input = NoQuery
    /\ output = Found(<<>>)

\* A read; order is the order in which the store gives its objects.
Read(q, order, caches) ==
    /\ input' = q
    /\ output' = CASE q.op = "get" -> IF q.multi THEN MultiGet(q) ELSE CacheGet(store, q)
                   [] q.op = "list" -> IF q.multi THEN MultiList(q, order, caches)
                                       ELSE CacheList(store, q.opts, order)
    /\ UNCHANGED store

Next ==
    /\ input = NoQuery
    /\ \E q \in {r \in Queries : \A o \in store : r.namespaced <=> o.ns # All}, order \in SetToSeqs(store),
          caches \in SetToSeqs(Namespaces) :
          Read(q, order, caches)

Spec == Init /\ [][Next]_vars

-----------------------------------------------------------------------------
Matching(o) ==
    {x \in store : /\ o.ns = All \/ x.ns = o.ns
                   /\ o.label = "any" \/ x.label = o.label
                   /\ o.field = "any" \/ x.field = o.field}

\* What a list asks for: of the namespaces the cache holds.
Asked(q) ==
    {x \in Matching(q.opts) : q.multi /\ q.namespaced => x.ns \in Namespaces}

\* A list into a fresh list object that does not fail returns each object that
\* matches its namespace, label and field selectors exactly once, and nothing
\* else; with a limit it returns some of them and never more than the limit,
\* however many caches it reads.
ListsSelection ==
    input.op = "list" /\ output.err = "none" /\ input.prior = <<>> =>
        /\ IsInjective(output.items)
        /\ ToSet(output.items) \subseteq Asked(input)
        /\ input.opts.limit = 0 => ToSet(output.items) = Asked(input)
        /\ input.opts.limit > 0 => Len(output.items) <= input.opts.limit

\* A get returns the one object of that name, in that namespace for a
\* namespaced kind, and fails only if there is none or it cannot be asked for.
GetsNamed ==
    LET named == {x \in store : x.name = input.key.name /\ (input.namespaced => x.ns = input.key.ns)}
    IN  input.op = "get" =>
            /\ output.err = "none" => ToSet(output.items) = named
            /\ output.err = "not found" => named = {}

\* Both together: reads of a cache return what they ask for.
ReadsRight == ListsSelection /\ GetsNamed
=============================================================================
