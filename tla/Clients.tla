------------------------------- MODULE Clients -------------------------------
(***************************************************************************)
(* From a call on a client.Client to the request it sends: the functional  *)
(* options (pkg/client/options.go), the wrappers (namespaced_client.go,    *)
(* dryrun.go, split.go), the dispatch of client.go and watch.go, and the   *)
(* typed, unstructured and metadata clients.  Nothing here runs            *)
(* concurrently; what survives a call is the Raw options a caller owns and *)
(* may pass again, because the As...Options methods write to them.         *)
(***************************************************************************)
EXTENDS Integers, Sequences, SequencesExt

CONSTANTS Calls,      \* the calls a program may make
          MaxCalls    \* how many it makes, one after the other

VARIABLES raws,    \* the caller's Raw options, by the type of the options
          input, output, calls

vars == <<raws, input, output, calls>>

Unset == "unset"
NoNamespace == ""
RawTypes == {"create", "update", "patch", "delete", "list"}
NewRaw == [dry |-> Unset, manager |-> Unset, force |-> Unset, grace |-> Unset,
           pre |-> Unset, policy |-> Unset, label |-> Unset, field |-> Unset,
           limit |-> 0, cont |-> Unset, watch |-> FALSE]

Mutating == {"Create", "Update", "Delete", "DeleteAllOf", "Patch",
             "UpdateStatus", "PatchStatus"}

-----------------------------------------------------------------------------
(* Options.  One record holds the fields of all the ...Options structs; the *)
(* fields raw and rawDelete say that the caller's own Raw is passed.        *)

NoOptions == [dry |-> Unset, manager |-> Unset, force |-> Unset, grace |-> Unset,
              pre |-> Unset, policy |-> Unset, label |-> Unset, field |-> Unset,
              ns |-> NoNamespace, limit |-> 0, cont |-> Unset,
              raw |-> FALSE, rawDelete |-> FALSE]

\* The options that set one field, whatever it was: DryRunAll, FieldOwner,
\* ForceOwnership, GracePeriodSeconds, Preconditions, PropagationPolicy,
\* MatchingLabels and its variants, MatchingFields, InNamespace, Limit, Continue.
Field(name, val) == [struct |-> FALSE, name |-> name, val |-> val]
DryRunAll == Field("dry", "All")
FieldOwner(f) == Field("manager", f)
GracePeriodSeconds(s) == Field("grace", s)
Preconditions(p) == Field("pre", p)
PropagationPolicy(p) == Field("policy", p)
MatchingLabels(m) == Field("label", m)
\* The labels that do not parse are left out: m is the selector of the others.
HasLabels(m) == Field("label", m)
MatchingLabelsSelector(m) == Field("label", m)
MatchingFields(m) == Field("field", m)
MatchingFieldsSelector(m) == Field("field", m)
InNamespace(n) == Field("ns", n)
Limit(l) == Field("limit", l)
Continue(c) == Field("cont", c)
ForceOwnership == Field("force", "true")

\* A whole ...Options struct as an option: the fields it sets override.
Overlay(o, to, fields) ==
    [f \in DOMAIN to |-> IF f \in fields /\ o[f] # NoOptions[f] THEN o[f] ELSE to[f]]
ApplyToCreate(o, to) == Overlay(o, to, {"dry", "manager", "raw"})
ApplyToUpdate(o, to) == Overlay(o, to, {"dry", "manager", "raw"})
ApplyToPatch(o, to) == Overlay(o, to, {"dry", "force", "manager", "raw"})
ApplyToDelete(o, to) == Overlay(o, to, {"grace", "pre", "policy", "rawDelete", "dry"})
ApplyToList(o, to) ==
    Overlay([o EXCEPT !.limit = IF @ > 0 THEN @ ELSE 0], to,
            {"label", "field", "ns", "raw", "limit", "cont"})
ApplyToDeleteAllOf(o, to) == ApplyToDelete(o, ApplyToList(o, to))

\* The options of a call are applied in their order, each to the options of
\* the call's type.
ApplyOptions(op, opts) ==
    LET applyTo(o, to) ==
            CASE op = "Create" -> ApplyToCreate(o, to)
              [] op \in {"Update", "UpdateStatus"} -> ApplyToUpdate(o, to)
              [] op \in {"Patch", "PatchStatus"} -> ApplyToPatch(o, to)
              [] op = "Delete" -> ApplyToDelete(o, to)
              [] op = "DeleteAllOf" -> ApplyToDeleteAllOf(o, to)
              [] op \in {"List", "Watch"} -> ApplyToList(o, to)
    IN  FoldLeft(LAMBDA o, opt : IF opt.struct THEN applyTo(opt.set, o)
                                 ELSE [o EXCEPT ![opt.name] = opt.val],
                 NoOptions, opts)

\* The As...Options methods write what is sent into the Raw options r.
AsCreateOptions(o, r) == [r EXCEPT !.dry = o.dry, !.manager = o.manager]
AsUpdateOptions(o, r) == [r EXCEPT !.dry = o.dry, !.manager = o.manager]
AsPatchOptions(o, r) ==
    [r EXCEPT !.dry = o.dry, !.force = o.force, !.manager = o.manager]
AsDeleteOptions(o, r) ==
    [r EXCEPT !.grace = o.grace, !.pre = o.pre, !.policy = o.policy, !.dry = o.dry]
AsListOptions(o, r) ==
    [r EXCEPT !.label = IF o.label # Unset THEN o.label ELSE @,
              !.field = IF o.field # Unset THEN o.field ELSE @,
              !.limit = IF r.watch THEN @ ELSE o.limit,
              !.cont = IF r.watch THEN @ ELSE o.cont]

-----------------------------------------------------------------------------
(* The three clients.  A call names the kind's scope, whether the mapper    *)
(* knows the kind and whether its patch can be computed; gvk is the one the *)
(* caller's object carries, reply the one decoded from the server's answer. *)

Refused(c) == [sent |-> FALSE, to |-> "nowhere", gvk |-> c.gvk]

NamespaceIfScoped(ns, c) == IF c.namespaced THEN ns ELSE NoNamespace

RawOf(type, given) == IF given THEN raws[type] ELSE NewRaw

Sent(c, verb, ns, sub, type, params) ==
    [sent |-> TRUE, to |-> "server", verb |-> verb, ns |-> NamespaceIfScoped(ns, c),
     sub |-> sub, type |-> type, params |-> params, list |-> NewRaw, gvk |-> c.reply]

\* getObjMeta and getResource: the kind must be in the scheme and mapped.
GVKForObject(c) == c.known
getResource(c) == GVKForObject(c) /\ c.mapped

\* A change of an object, as the typed client sends it.
Change(c) ==
    LET o == ApplyOptions(c.op, c.opts)
        send(verb, sub, type, params) == Sent(c, verb, c.ns, sub, type, params)
    IN  CASE ~getResource(c) -> Refused(c)
          [] c.op = "Create" ->
               send("POST", "", "create", AsCreateOptions(o, RawOf("create", o.raw)))
          [] c.op \in {"Update", "UpdateStatus"} ->
               send("PUT", IF c.op = "Update" THEN "" ELSE "status", "update",
                    AsUpdateOptions(o, RawOf("update", o.raw)))
          [] c.op \in {"Patch", "PatchStatus"} ->
               IF ~c.patchOK THEN Refused(c)
               ELSE send("PATCH", IF c.op = "Patch" THEN "" ELSE "status", "patch",
                         AsPatchOptions(o, RawOf("patch", o.raw)))
          [] c.op = "Delete" ->
               [send("DELETE", "", "delete", AsDeleteOptions(o, RawOf("delete", o.rawDelete)))
                    EXCEPT !.gvk = c.gvk]
          [] c.op = "DeleteAllOf" ->
               [Sent(c, "DELETE", o.ns, "", "delete",
                     AsDeleteOptions(o, RawOf("delete", o.rawDelete)))
                    EXCEPT !.list = AsListOptions(o, RawOf("list", o.raw)), !.gvk = c.gvk]

\* A read; Get takes no options.
Fetch(c) ==
    LET o == ApplyOptions("List", c.opts)
    IN  CASE ~getResource(c) -> Refused(c)
          [] c.op = "Get" -> Sent(c, "GET", c.ns, "", "none", NewRaw)
          [] c.op = "List" ->
               [Sent(c, "LIST", o.ns, "", "list", NewRaw)
                    EXCEPT !.list = AsListOptions(o, RawOf("list", o.raw))]

Keep(c, r) == [r EXCEPT !.gvk = c.gvk]

Status == {"UpdateStatus", "PatchStatus"}

typedStatus(c) == Change(c)

\* unstructuredClient: Create, Update, PatchStatus and Get put the GVK back.
unstructuredWrite(c) == IF c.op \in {"Create", "Update"} THEN Keep(c, Change(c)) ELSE Change(c)
unstructuredStatus(c) == IF c.op = "PatchStatus" THEN Keep(c, Change(c)) ELSE Change(c)
unstructuredRead(c) == IF c.op = "Get" THEN Keep(c, Fetch(c)) ELSE Fetch(c)

\* metadataClient: PatchStatus applies none of the options it is given, and
\* List leaves the items' GVK on the list.
metadataClient(c) ==
    CASE c.op \in {"Delete", "DeleteAllOf"} -> Change(c)
      [] c.op = "Patch" -> Keep(c, Change(c))
      [] c.op = "PatchStatus" -> Keep(c, Change([c EXCEPT !.opts = <<>>]))
      [] c.op = "Get" -> Keep(c, Fetch(c))
      [] c.op = "List" -> [Fetch(c) EXCEPT !.gvk = IF getResource(c) THEN c.item ELSE @]

\* watchingClient.Watch and listOpts, which sets Watch in the Raw options.
Watch(c) ==
    LET o == ApplyOptions("Watch", c.opts)
    IN  IF ~getResource(c) THEN Refused(c)
        ELSE [Sent(c, "WATCH", o.ns, "", "list", NewRaw)
                  EXCEPT !.list = AsListOptions(o, [RawOf("list", o.raw) EXCEPT !.watch = TRUE]),
                         !.gvk = c.gvk]

-----------------------------------------------------------------------------
(* client and statusWriter: the dispatch on the form of the object.         *)

resetGroupVersionKind(c, r) == [r EXCEPT !.gvk = IF c.gvk # "" THEN c.gvk ELSE @]

Dispatch(c) ==
    CASE c.form = "metadata" -> metadataClient(c)
      [] c.form = "unstructured" -> IF c.op \in Status THEN unstructuredStatus(c)
                                    ELSE IF c.op \in Mutating THEN unstructuredWrite(c)
                                    ELSE unstructuredRead(c)
      [] OTHER -> IF c.op \in Status THEN typedStatus(c)
                  ELSE IF c.op \in Mutating THEN Change(c) ELSE Fetch(c)

\* Create, Delete and DeleteAllOf
clientChange(c) ==
    IF c.op = "Create" /\ c.form = "metadata" THEN Refused(c) ELSE Dispatch(c)
\* Update and Patch, and the same of the statusWriter
clientUpdate(c) ==
    IF c.op = "Update" /\ c.form = "metadata" THEN Refused(c)
    ELSE resetGroupVersionKind(c, Dispatch(c))
clientStatus(c) ==
    IF c.op = "UpdateStatus" /\ c.form = "metadata" THEN Refused(c)
    ELSE resetGroupVersionKind(c, Dispatch(c))
clientRead(c) ==
    IF c.form = "metadata" THEN resetGroupVersionKind(c, Dispatch(c)) ELSE Dispatch(c)

client(c) ==
    CASE c.op \in {"Create", "Delete", "DeleteAllOf"} -> clientChange(c)
      [] c.op \in {"Update", "Patch"} -> clientUpdate(c)
      [] c.op \in {"UpdateStatus", "PatchStatus"} -> clientStatus(c)
      [] c.op \in {"Get", "List"} -> clientRead(c)
      [] c.op = "Watch" -> Watch(c)

-----------------------------------------------------------------------------
(* The wrappers: each passes the call on, changed, or refuses it.           *)

With(c, opt) == [c EXCEPT !.opts = Append(@, opt)]
Refuse(c) == [c EXCEPT !.refused = TRUE]

isNamespaced(c) == [err |-> ~getResource(c), scoped |-> c.namespaced]

\* Create, Update, Delete and Patch of a namespaced client, and the same of its
\* status writer
namespacedWrite(n, c) ==
    IF isNamespaced(c).err \/ c.ns \notin {n, NoNamespace} THEN Refuse(c)
    ELSE [c EXCEPT !.ns = IF isNamespaced(c).scoped /\ @ = NoNamespace THEN n ELSE @]
namespacedStatus(n, c) == namespacedWrite(n, c)
\* Slip: the namespace comes before the options of the caller.
namespacedDeleteFirst(n, c) ==
    IF isNamespaced(c).err THEN Refuse(c)
    ELSE IF isNamespaced(c).scoped THEN [c EXCEPT !.opts = <<InNamespace(n)>> \o @] ELSE c

namespacedDeleteAllOf(n, c) ==
    IF isNamespaced(c).err THEN Refuse(c)
    ELSE IF isNamespaced(c).scoped THEN With(c, InNamespace(n)) ELSE c
namespacedGet(n, c) ==
    IF isNamespaced(c).err \/ (isNamespaced(c).scoped /\ c.ns \notin {n, NoNamespace}) THEN Refuse(c)
    ELSE [c EXCEPT !.ns = IF isNamespaced(c).scoped THEN n ELSE @]
namespacedList(n, c) == IF n # NoNamespace THEN With(c, InNamespace(n)) ELSE c

dryRun(c) == IF c.op \in Mutating THEN With(c, DryRunAll) ELSE c

\* delegatingReader
shouldBypassCache(w, c) ==
    c.item \in w.uncached \/ (~w.cacheUnstructured /\ c.form = "unstructured")
delegatingRead(w, c) ==
    IF ~GVKForObject(c) THEN Refuse(c) ELSE [c EXCEPT !.cached = ~shouldBypassCache(w, c)]

Through(c, w) ==
    CASE c.refused -> c
      [] w.kind = "dryrun" -> dryRun(c)
      [] w.kind = "delegating" -> IF c.op \in Mutating THEN c ELSE delegatingRead(w, c)
      [] w.kind = "namespaced" ->
           CASE c.op = "DeleteAllOf" -> namespacedDeleteAllOf(w.ns, c)
             [] c.op = "Get" -> namespacedGet(w.ns, c)
             [] c.op = "List" -> namespacedList(w.ns, c)
             [] c.op \in Status -> namespacedStatus(w.ns, c)
             [] OTHER -> namespacedWrite(w.ns, c)

\* The cache's own reads are those of CacheReads.  Its Get leaves the namespace
\* of a cluster-scoped kind out; its List looks under the namespace it is given.
Result(c) ==
    LET d == FoldLeft(Through, c, c.chain)
    IN  CASE d.refused -> Refused(c)
          [] d.cached ->
               [Sent(d, "READ", d.ns, "", "none", NewRaw)
                    EXCEPT !.to = "cache",
                           !.ns = IF d.op = "Get" THEN @ ELSE ApplyOptions("List", d.opts).ns,
                           !.gvk = IF d.op = "Get" THEN d.item ELSE d.gvk]
          [] OTHER -> client(d)

-----------------------------------------------------------------------------
\* The call's Raw options keep what was written to them; a refused watch of
\* metadata has set Watch already, and a metadata PatchStatus writes to none.
Written(c, r) ==
    LET ignored == c.op = "Get" \/ (c.op = "PatchStatus" /\ c.form = "metadata")
        o == IF ignored THEN NoOptions ELSE ApplyOptions(c.op, c.opts)
        fails == ~r.sent
        list(x) == CASE fails -> [x EXCEPT !.watch = @ \/ (c.op = "Watch" /\ c.form = "metadata")]
                     [] r.to = "cache" -> x
                     [] OTHER -> r.list
    IN  [t \in RawTypes |->
            CASE t = "list" /\ o.raw /\ c.op \in {"List", "Watch", "DeleteAllOf"} -> list(raws[t])
              [] t = "delete" /\ o.rawDelete /\ c.op \in {"Delete", "DeleteAllOf"} /\ r.sent -> r.params
              [] t \in {"create", "update", "patch"} /\ o.raw /\ r.sent /\ r.type = t -> r.params
              [] OTHER -> raws[t]]

NoCall == [op |-> "none"]
NotSent == [sent |-> FALSE]

Init ==
    /\ raws = [t \in RawTypes |-> NewRaw]
    /\ input = NoCall
    /\ output = NotSent
    /\ calls = 0

Call(c) ==
    /\ input' = c
    /\ output' = Result(c)
    /\ raws' = Written(c, Result(c))
    /\ calls' = calls + 1

\* The program goes on to its next call; the Raw options it owns stay.
Return ==
    /\ input # NoCall
    /\ input' = NoCall
    /\ output' = NotSent
    /\ UNCHANGED <<raws, calls>>

Next ==
    \/ /\ input = NoCall
       /\ calls < MaxCalls
       /\ \E c \in Calls : Call(c)
    \/ Return

Spec == Init /\ [][Next]_vars

-----------------------------------------------------------------------------
Wrapped(kind) == {i \in DOMAIN input.chain : input.chain[i].kind = kind}

\* Whatever options and object a call brings, a namespaced client sends it to
\* its own namespace (namespaced_client.go:31 "All functions using this client
\* will have the same namespace declared here"), and a request for a kind that
\* has none to none; but List adds the namespace whatever the kind's scope, and
\* the cache looks under it.
NamespaceEnforced ==
    \A i \in IF output.sent THEN Wrapped("namespaced") ELSE {} :
        output.ns = IF input.namespaced \/ (input.op = "List" /\ output.to = "cache")
                    THEN input.chain[i].ns ELSE NoNamespace

\* A dry-run client makes every change a dry run (dryrun.go:26 "enforces DryRun
\* mode on all mutating api calls").
DryRunOnly ==
    output.sent /\ input.op \in Mutating /\ Wrapped("dryrun") # {} => output.params.dry = "All"

\* The same without the status of metadata-only objects, where it does not hold.
DryRunEnforced ==
    ~(input.op = "PatchStatus" /\ input.form = "metadata") => DryRunOnly

\* The caller's object keeps the GVK it came with: a reply never leaves an
\* unstructured or metadata object with another one, nor an updated or patched
\* typed object without the one that was set.
GVKKept ==
    /\ input.op \notin {"none", "List"} /\ input.form # "typed" => output.gvk = input.gvk
    /\ input.op = "List" /\ input.form = "metadata" /\ output.sent /\ output.to = "server" =>
          output.gvk = input.gvk
    /\ /\ input.op \in {"Update", "Patch", "UpdateStatus", "PatchStatus"}
       /\ input.gvk # ""
       => output.gvk = input.gvk

\* The value the last option that sets f gives it.
LastSet(opts, f) ==
    LET sets(i) == IF opts[i].struct THEN opts[i].set[f] # NoOptions[f] ELSE opts[i].name = f
        I == {i \in DOMAIN opts : sets(i)}
        last == CHOOSE i \in I : \A j \in I : j <= i
    IN  IF I = {} THEN NoOptions[f]
        ELSE IF opts[last].struct THEN opts[last].set[f] ELSE opts[last].val

\* A request carries, of each field, what the last option that sets it says,
\* whatever an earlier call left in the Raw options it passes: the field owner
\* and force of a change, the preconditions, policy and grace period of a
\* deletion, and the selectors of a list that has some of its own.
OptionsAsGiven ==
    LET fields == CASE input.op \in {"Create", "Update", "UpdateStatus"} -> {"manager"}
                    [] input.op \in {"Patch", "PatchStatus"} -> {"manager", "force"}
                    [] OTHER -> {"grace", "pre", "policy"}
        ignored == input.op = "PatchStatus" /\ input.form = "metadata"
        selected == {f \in {"label", "field"} : LastSet(input.opts, f) # NoOptions[f]}
    IN  output.sent /\ output.to = "server" =>
            /\ input.op \in Mutating /\ ~ignored =>
                  \A f \in fields : output.params[f] = LastSet(input.opts, f)
            /\ input.op \in {"List", "Watch", "DeleteAllOf"} =>
                  \A f \in selected : output.list[f] = LastSet(input.opts, f)

\* Reads of a delegating client go to the server exactly for the kinds it was
\* told not to cache and, unless it caches them, unstructured objects; no
\* change goes to the cache.
ReadsGoToCache ==
    output.sent =>
        (output.to = "cache" <=>
            /\ input.op \in {"Get", "List"}
            /\ \E i \in Wrapped("delegating") :
                   /\ input.item \notin input.chain[i].uncached
                   /\ input.chain[i].cacheUnstructured \/ input.form # "unstructured")

\* All of the above: the request that reaches the server is the one asked for.
RequestsAsAsked ==
    NamespaceEnforced /\ DryRunEnforced /\ GVKKept /\ OptionsAsGiven /\ ReadsGoToCache
=============================================================================
