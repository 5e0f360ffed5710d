----------------------------- MODULE MCObjects -----------------------------
(* Instances of Objects, Events, CacheReads and Clients for TLC, the parts of one run. *)
EXTENDS Objects, Watching, TLC

CONSTANTS c1, c2, c3, c4, o1, o2, Calls, MaxCalls

\* Objects: there is always a client that deletes the object.
Programmed(server, p1, p2, p3) ==
  [server |-> server, does |-> c1 :> p1 @@ c2 :> p2 @@ c3 :> p3 @@ c4 :> "delete"]

MCConfigs ==
  {Programmed("api", "control", "control", "finalize"),
   Programmed("api", "own", "finalize", "finalize"),
   Programmed("api", "patch", "control", "finalize"),
   Programmed("api", "patch", "patch", "own"),
   Programmed("fake", "patch", "finalize", "control"),
   Programmed("fake", "control", "control", "finalize"),
   Programmed("fake", "own", "patch", "finalize")}

\* Events: one controller, two owners, and a reference to an owner by a version
\* that is no longer served.
Ref(n, c) == [name |-> n, kind |-> "owner", version |-> "known", controller |-> c]
Foreign == [name |-> o1, kind |-> "other", version |-> "known", controller |-> FALSE]
Old == [name |-> o1, kind |-> "owner", version |-> "unknown", controller |-> FALSE]
MCRefLists ==
  {<<>>, <<Foreign, Ref(o1, FALSE)>>, <<Ref(o2, FALSE), Old, Ref(o1, TRUE)>>}
MCMapsTo == [l \in {"in", "out"} |-> {IF l = "in" THEN o1 ELSE o2}]
MCRequests ==
  {[name |-> Nothing, namespace |-> "ns"]} \cup [name : {o1, o2}, namespace : {"", "ns"}]
Watch(h, p, s, labels, annotations) ==
  [handler |-> h, predicates |-> p, scope |-> s, labels |-> labels, annotations |-> annotations,
   refLists |-> IF h \in {"owner", "controller"} THEN MCRefLists \ {<<>>} ELSE {<<>>}]
MCSelector == <<[type |-> "selector"]>>
Changed(fields) == [type |-> "or", of |-> fields]
MCWatches ==
  {Watch("owner", <<>>, "root", {"in"}, {FALSE}),
   Watch("controller", <<Changed(<<"rv">>)>>, "namespace", {"in"}, BOOLEAN),
   Watch("mapped", <<>>, "namespace", {"in", "out"}, {FALSE}),
   Watch("object", <<>>, "namespace", {"in", "out"}, {FALSE}),
   Watch("object", <<Changed(<<"gen">>)>>, "namespace", {"in", "out"}, {FALSE}),
   Watch("object", <<Changed(<<"label", "annotation">>)>>, "namespace", {"in", "out"}, BOOLEAN),
   Watch("object", MCSelector, "namespace", {"in", "out"}, {FALSE}),
   Watch("object", <<[type |-> "and", of |-> <<"gen", "label">>]>>, "namespace", {"in", "out"}, BOOLEAN)}

\* CacheReads: a namespaced kind with an object outside the namespaces of the
\* multi-namespace cache, or a cluster-scoped kind.
rO(ns, n, l, f) == [ns |-> ns, name |-> n, label |-> l, field |-> f]
rObjects == {rO("a", "x", "l", "f"), rO("a", "y", "m", "f"), rO("b", "x", "l", "g"),
            rO("c", "z", "l", "f"), rO("", "x", "l", "f"), rO("", "y", "m", "f")}
rOpts == [ns : {"", "a", "c"}, label : {"any", "l"}, field : {"any", "f"}, limit : 0..2,
          indexed : BOOLEAN, sel : {[terms |-> 1, equal |-> TRUE], [terms |-> 2, equal |-> TRUE]}]
rUsed == {o \in rOpts : o.field = "any" => o.indexed /\ o.sel.terms = 1}
rQ(op, m, s, k, key, t, o, prior) ==
    [op |-> op, multi |-> m, namespaced |-> s, mapped |-> k, key |-> key, sameType |-> t,
     opts |-> o, prior |-> prior]
rSome == CHOOSE o \in rOpts : o.ns = "" /\ o.label = "any" /\ o.field = "any" /\ o.limit = 0
rQueries ==
    {rQ("list", m, s, TRUE, [ns |-> "", name |-> "x"], TRUE, o, <<>>) :
        m, s \in BOOLEAN, o \in rUsed}
    \cup {rQ("list", TRUE, TRUE, k, [ns |-> "", name |-> "x"], TRUE, rSome, <<rO("a", "x", "l", "f")>>) :
            k \in BOOLEAN}
    \cup {rQ("get", m, s, k, [ns |-> ns, name |-> n], t, rSome, <<>>) :
            m, s, k, t \in BOOLEAN, ns \in {"", "a", "c"}, n \in {"x", "y"}}

\* The part a behaviour is about; the variables of the others do not change.
VARIABLES part, store, rdInput, rdOutput, raws, clInput, clOutput, calls

Q == INSTANCE CacheReads
    WITH Objects <- rObjects, Namespaces <- {"a", "b"}, Queries <- rQueries, input <- rdInput,
         output <- rdOutput

C == INSTANCE Clients
    WITH input <- clInput, output <- clOutput

vVars == <<watching, object, writes, inCache, notes, adding, q, holds, read, seen>>
qVars == <<store, rdInput, rdOutput>>
cVars == <<raws, clInput, clOutput, calls>>

AllVars == <<part, vars, vVars, qVars, cVars>>
Parts == {"objects", "events", "reads", "calls"}

Off == "off"

SumInit ==
    /\ part \in Parts
    /\ Init /\ (part # "objects" => config = CHOOSE c \in Configs : TRUE)
    /\ V!Init /\ (part # "events" => watching.predicates = MCSelector)
    /\ IF part = "reads" THEN Q!Init
       ELSE store = Off /\ rdInput = Off /\ rdOutput = Off
    /\ IF part = "calls" THEN C!Init
       ELSE raws = Off /\ clInput = Off /\ clOutput = Off /\ calls = Off

SumNext ==
    /\ UNCHANGED part
    /\ \/ /\ part = "objects" /\ Next
          /\ UNCHANGED <<vVars, qVars, cVars>>
       \/ /\ part = "events" /\ V!Next
          /\ UNCHANGED <<vars, qVars, cVars>>
       \/ /\ part = "reads" /\ Q!Next
          /\ UNCHANGED <<vars, vVars, cVars>>
       \/ /\ part = "calls" /\ C!Next
          /\ UNCHANGED <<vars, vVars, qVars>>

SumSpec == SumInit /\ [][SumNext]_AllVars

----------------------------------------------------------------------------
(* Clients: the calls of a program, through stacks of wrapped clients.      *)

\* The options and the names of the calls alone.
O == INSTANCE Clients
    WITH Calls <- {}, MaxCalls <- 0, raws <- <<>>, input <- <<>>, output <- <<>>, calls <- 0

Struct(o) == [struct |-> TRUE, set |-> o]
cNoOptions == O!NoOptions
cChains == LET N == [kind |-> "namespaced", ns |-> "a"]
               D == [kind |-> "dryrun"]
               R(u, s) == [kind |-> "delegating", uncached |-> u, cacheUnstructured |-> s]
           IN  {<<>>, <<N>>, <<D>>, <<N, D>>, <<D, N>>, <<N, R({}, FALSE)>>,
                <<R({"K"}, TRUE)>>, <<D, R({}, TRUE)>>}
cDeep == {<<>>, <<[kind |-> "namespaced", ns |-> "a"], [kind |-> "dryrun"]>>,
          <<[kind |-> "dryrun"], [kind |-> "namespaced", ns |-> "a"]>>}
cForms == {[form |-> "typed", gvk |-> "", reply |-> ""],
           [form |-> "typed", gvk |-> "K", reply |-> ""],
           [form |-> "unstructured", gvk |-> "K", reply |-> "other"],
           [form |-> "metadata", gvk |-> "K", reply |-> "other"]}
cOptsOf(op) ==
    CASE op \in {"Create", "Update", "UpdateStatus"} ->
           {O!DryRunAll, O!FieldOwner("x"), O!FieldOwner("y"),
            Struct([cNoOptions EXCEPT !.manager = "z", !.raw = TRUE])}
      [] op \in {"Patch", "PatchStatus"} ->
           {O!FieldOwner("x"), O!ForceOwnership,
            Struct([cNoOptions EXCEPT !.dry = "All", !.manager = "z", !.raw = TRUE])}
      [] op = "Delete" ->
           {O!GracePeriodSeconds("0"), O!Preconditions("p"), O!PropagationPolicy("orphan"),
            Struct([cNoOptions EXCEPT !.grace = "5", !.rawDelete = TRUE])}
      [] op = "DeleteAllOf" ->
           {O!InNamespace("b"), O!MatchingLabels("l"), O!GracePeriodSeconds("0"),
            Struct([cNoOptions EXCEPT !.ns = "b", !.field = "f", !.raw = TRUE])}
      [] op = "Watch" ->
           {O!InNamespace("b"), O!MatchingLabelsSelector("h"), O!MatchingFieldsSelector("f"),
            O!Continue("c"), Struct([cNoOptions EXCEPT !.label = "m", !.raw = TRUE])}
      [] op = "List" ->
           {O!InNamespace("b"), O!HasLabels("h"), O!MatchingFields("f"), O!Limit(1),
            Struct([cNoOptions EXCEPT !.label = "m", !.limit = 1, !.raw = TRUE]),
            Struct([cNoOptions EXCEPT !.raw = TRUE])}
      [] OTHER -> {}
cOpts(op) == {<<>>} \cup {<<o>> : o \in cOptsOf(op)} \cup (cOptsOf(op) \X cOptsOf(op))
cCall(op, f, chain, opts, namespaced, ns, ok) ==
    [op |-> op, form |-> f.form, gvk |-> IF op = "List" /\ f.gvk # "" THEN "KList" ELSE f.gvk,
     reply |-> f.reply, item |-> "K", chain |-> chain, opts |-> opts, namespaced |-> namespaced,
     ns |-> ns, known |-> ok # "unknown", mapped |-> ok # "unmapped",
     patchOK |-> ok # "patch", refused |-> FALSE, cached |-> FALSE]
cOps == O!Mutating \cup {"Get", "List"}
cCalls ==
    UNION {{cCall(op, f, ch, o, TRUE, "", "ok") :
              f \in cForms, ch \in cDeep, o \in cOpts(op)} : op \in cOps}
    \cup {cCall(op, f, ch, <<>>, n, ns, "ok") :
              op \in cOps, f \in cForms, ch \in cChains, n \in BOOLEAN, ns \in {"", "a", "b"}}
    \cup {cCall(op, f, ch, <<>>, TRUE, "", ok) :
              op \in cOps, f \in cForms, ch \in cChains, ok \in {"unknown", "unmapped", "patch"}}
    \cup {cCall("Watch", f, <<>>, o, n, "", ok) :
              f \in cForms, o \in cOpts("Watch"), n \in BOOLEAN, ok \in {"ok", "unmapped"}}

----------------------------------------------------------------------------
(* The properties of the modules that are not extended.                     *)

\* Reads of a cache return what they ask for (CacheReads.tla).
ReadsRight == part = "reads" => Q!ReadsRight

\* The request that reaches the server is the one the program made, as the
\* wrapping clients promise (Clients.tla).
RequestsAsAsked == part = "calls" => C!RequestsAsAsked

\* A dry-run client only makes dry runs (Clients.tla; client/dryrun.go).
DryRunOnly == part = "calls" => C!DryRunOnly
=============================================================================
