------------------------------- MODULE Builder -------------------------------
(***************************************************************************)
(* The builders (pkg/builder) and controller.New: a program configures a    *)
(* Builder step by step, builds controllers from it, perhaps more than one, *)
(* and has webhooks registered for its types.  Predicate lists are Go       *)
(* slices: two of them may share the array they are stored in.              *)
(***************************************************************************)
EXTENDS Integers, Sequences, SequencesExt, FiniteSets

CONSTANTS Predicates,
          Types, HookTypes,   \* types a controller watches, types with webhooks
          Concurrency,   \* GroupKindConcurrency of the manager, by type
          Path(_, _),    \* the path generated for a webhook of a kind and a type
          Defaulters, Validators, Convertible,   \* the types that implement them
          MaxSteps, MaxBuilds, MaxWatches

VARIABLES heap,       \* the arrays behind the slices
          blder,      \* the builder; filters is what its slice global should hold
          added,      \* the controllers the manager was given
          mux,        \* the webhook server's paths and the type each serves
          completed,  \* types whose webhook builder completed
          steps

vars == <<heap, blder, added, mux, completed, steps>>

NoType == "none"
Nil == [arr |-> 0, len |-> 0]
NewBuilder == [for |-> NoType, forPreds |-> <<>>, err |-> FALSE, owns |-> <<>>, watches |-> <<>>,
               global |-> Nil, filters |-> <<>>, conc |-> 0, name |-> ""]

Init ==
    /\ heap = <<>>
    /\ blder = NewBuilder
    /\ added = <<>>
    /\ mux = {}
    /\ completed = {}
    /\ steps = 0

Contents(h, s) == IF s.arr = 0 THEN <<>> ELSE SubSeq(h[s.arr], 1, s.len)
Cap(h, s) == IF s.arr = 0 THEN 0 ELSE Len(h[s.arr])

\* Go's append: in place while the array has room, else into a new one.
append(h, s, xs) ==
    LET need == s.len + Len(xs)
        size == IF need > 2 * Cap(h, s) THEN need ELSE 2 * Cap(h, s)
        old == Contents(h, s)
        filled(a) == [i \in DOMAIN a |-> IF i \in (s.len + 1)..need THEN xs[i - s.len] ELSE a[i]]
    IN  CASE xs = <<>> -> [heap |-> h, slice |-> s]
          [] xs # <<>> /\ need <= Cap(h, s) ->
               [heap |-> [h EXCEPT ![s.arr] = filled(@)], slice |-> [s EXCEPT !.len = need]]
          [] OTHER ->
               [heap |-> Append(h, [i \in 1..size |-> IF i <= s.len THEN old[i]
                                                      ELSE IF i <= need THEN xs[i - s.len]
                                                      ELSE NoType]),
                slice |-> [arr |-> Len(h) + 1, len |-> need]]

Step == steps < MaxSteps /\ steps' = steps + 1

-----------------------------------------------------------------------------
(* Builder.                                                                 *)

For(t, preds) ==
    /\ Step
    /\ blder' = IF blder.for # NoType THEN [blder EXCEPT !.err = TRUE]
                ELSE [blder EXCEPT !.for = t, !.forPreds = preds]
    /\ UNCHANGED <<heap, added, mux, completed>>

Owns(t, preds) ==
    /\ Len(blder.owns) < MaxWatches
    /\ Step
    /\ blder' = [blder EXCEPT !.owns = Append(@, [type |-> t, preds |-> preds])]
    /\ UNCHANGED <<heap, added, mux, completed>>

Watches(t, preds) ==
    /\ Len(blder.watches) < MaxWatches
    /\ Step
    /\ blder' = [blder EXCEPT !.watches = Append(@, [type |-> t, preds |-> preds])]
    /\ UNCHANGED <<heap, added, mux, completed>>

\* The filters come after a Build too.
WithEventFilter(p) ==
    LET a == append(heap, blder.global, <<p>>)
    IN  /\ Step
        /\ heap' = a.heap
        /\ blder' = [blder EXCEPT !.global = a.slice, !.filters = Append(@, p)]
        /\ UNCHANGED <<added, mux, completed>>

WithOptions(conc) ==
    /\ Step
    /\ blder' = [blder EXCEPT !.conc = conc]
    /\ UNCHANGED <<heap, added, mux, completed>>

Named(n) ==
    /\ Step
    /\ blder' = [blder EXCEPT !.name = n]
    /\ UNCHANGED <<heap, added, mux, completed>>

getControllerName(b) == IF b.name # "" THEN b.name ELSE b.for

\* doController and controller.New: the manager has the controller before it
\* has a watch.
NewUnmanaged(b) ==
    LET conc == IF b.conc = 0 THEN Concurrency[b.for] ELSE b.conc
    IN  [name |-> getControllerName(b), conc |-> IF conc <= 0 THEN 1 ELSE conc,
         for |-> b.for, watches |-> <<>>, asked |-> <<>>, built |-> FALSE, filters |-> b.filters]
doController(b) == Append(added, NewUnmanaged(b))

\* doWatch: the watches of the controller, each with its predicates: a slice
\* that may share the builder's array for the first, copies for the others.
Copied(b, w) == Contents(heap, b.global) \o w.preds

WatchesOf(b) ==
    LET first == append(heap, b.global, b.forPreds)
        others == b.owns \o b.watches
    IN  [heap |-> first.heap,
         watches |-> <<[type |-> b.for, slice |-> first.slice, preds |-> <<>>]>> \o
                     [i \in DOMAIN others |-> [type |-> others[i].type, slice |-> Nil,
                                               preds |-> Copied(b, others[i])]],
         asked |-> <<b.filters \o b.forPreds>> \o
                   [i \in DOMAIN others |-> b.filters \o others[i].preds]]

\* n watches succeed before one fails; all of them if n is their number.
doWatch(b, ctrls, n) ==
    LET w == WatchesOf(b)
        all == n = Len(w.watches)
    IN  /\ heap' = w.heap
        /\ added' = [ctrls EXCEPT ![Len(ctrls)] =
                        [@ EXCEPT !.watches = SubSeq(w.watches, 1, n),
                                  !.asked = SubSeq(w.asked, 1, n), !.built = all]]

\* A Build that fails before the manager has the controller changes nothing.
Build(n) ==
    /\ Len(added) < MaxBuilds
    /\ Step
    /\ ~blder.err /\ blder.for # NoType
    /\ n \in 0..(1 + Len(blder.owns) + Len(blder.watches))
    /\ doWatch(blder, doController(blder), n)
    /\ UNCHANGED <<blder, mux, completed>>

-----------------------------------------------------------------------------
(* WebhookBuilder.Complete for a type.                                      *)

isAlreadyHandled(m, path) == \E h \in m : h.path = path

\* Register panics on a path that is taken; the builder asks first.
register(m, kind, t) ==
    IF isAlreadyHandled(m, Path(kind, t)) THEN m
    ELSE m \cup {[path |-> Path(kind, t), kind |-> kind, type |-> t]}
registerDefaultingWebhook(m, t) == IF t \in Defaulters THEN register(m, "mutate", t) ELSE m
registerValidatingWebhook(m, t) == IF t \in Validators THEN register(m, "validate", t) ELSE m
registerConversionWebhook(m, t) == IF t \in Convertible THEN register(m, "convert", t) ELSE m

\* The check whether the type is convertible may fail after the other two.
Complete(t, ok) ==
    LET admission == registerValidatingWebhook(registerDefaultingWebhook(mux, t), t)
    IN  /\ Step
        /\ mux' = IF ok THEN registerConversionWebhook(admission, t) ELSE admission
        /\ completed' = IF ok THEN completed \cup {t} ELSE completed
        /\ UNCHANGED <<heap, blder, added>>

Next ==
    \/ \E t \in Types, p \in {<<>>} \cup {<<q>> : q \in Predicates} :
          For(t, p) \/ Owns(t, p) \/ Watches(t, p)
    \/ \E p \in Predicates : WithEventFilter(p)
    \/ WithOptions(-1)
    \/ Named("n")
    \/ \E n \in 0..MaxSteps : Build(n)
    \/ \E t \in HookTypes, ok \in BOOLEAN : Complete(t, ok)

Spec == Init /\ [][Next]_vars

-----------------------------------------------------------------------------
InForce(w) == IF w.slice = Nil THEN w.preds ELSE Contents(heap, w.slice)

\* Each watch of a controller filters with the filters the builder was given and
\* its own predicates, as they were when it was built, however the builder is
\* used again (builder/controller.go).  Of the first watch, the one For asked
\* for, this holds as long as the builder is given no further filter; after
\* that it keeps the filters and the number of its predicates, but its own
\* predicates may have become others.
FiltersAsBuilt ==
    \A i \in DOMAIN added : \A j \in DOMAIN added[i].watches :
        LET now == InForce(added[i].watches[j])
            asked == added[i].asked[j]
        IN  IF j > 1 \/ blder.filters = added[i].filters THEN now = asked
            ELSE Len(now) = Len(asked) /\ IsPrefix(added[i].filters, now)

\* No path is registered twice, which would panic, and the webhook of each
\* completed type is served at its path unless another type took it.
HooksRegistered ==
    /\ \A h, g \in mux : h.path = g.path => h = g
    /\ \A t \in completed :
          /\ t \in Defaulters => isAlreadyHandled(mux, Path("mutate", t))
          /\ t \in Validators => isAlreadyHandled(mux, Path("validate", t))
          /\ t \in Convertible => isAlreadyHandled(mux, Path("convert", t))

\* Every controller that Build returned runs at least one worker and has a
\* watch for its own type.
BuiltRight ==
    \A i \in DOMAIN added :
        /\ added[i].conc >= 1
        /\ added[i].built => added[i].watches[1].type = added[i].for
=============================================================================
