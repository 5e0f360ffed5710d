------------------------------ MODULE Construct ------------------------------
(***************************************************************************)
(* Making a manager: the options of the program, completed from a           *)
(* configuration file (Options.AndFrom and config.DeferredFileLoader) and   *)
(* then by defaults, and manager.New, which makes the parts of the manager  *)
(* one after the other; each of them may fail.                              *)
(***************************************************************************)
EXTENDS Integers, FiniteSets

CONSTANTS Programs,   \* the options a program may set
          Files,      \* the contents the file may have
          MaxEdits

VARIABLES file,       \* the file now, and how often it was edited
          edits, loader, first,   \* the loader; what its first Complete returned
          opts, given,   \* the options, and those the program set
          listening,     \* addresses with a listener open
          mgr            \* the last manager made, or why it was not

vars == <<file, edits, loader, first, opts, given, listening, mgr>>

(* A field that is not set is Unset; an option is a value, "0" turns a      *)
(* listener off.  One field stands for those that are treated alike: lease  *)
(* for the three times of the election, readiness for liveness too, port    *)
(* for the host and the certificates, concurrency for the sync timeout.     *)
(* A program that asks for no election and one that does not say are told   *)
(* apart, "false" and Unset, but leave the same value in the options.       *)
Unset == ""
ElectionFields == {"elect", "lock", "lockNamespace", "id", "lease"}
FileFields == {"sync", "namespace", "metrics", "health", "readiness", "port", "concurrency"}
Fields == ElectionFields \cup FileFields \cup {"grace"}
NoFile == [ok |-> FALSE]
NoManager == [err |-> "none"]

Init ==
    /\ file \in Files /\ edits = 0
    /\ loader = [done |-> FALSE, scheme |-> TRUE, content |-> NoFile]
    /\ first = NoFile
    /\ given \in Programs /\ opts = given.set
    /\ listening = {}
    /\ mgr = NoManager

-----------------------------------------------------------------------------
(* pkg/config and Options.AndFrom.                                          *)

\* loadFile runs once; what it found, an error too, is kept.
loadFile(l, f) ==
    [l EXCEPT !.done = TRUE, !.content = IF l.scheme THEN f ELSE NoFile]
LoaderComplete(l, f) == IF l.done THEN l ELSE loadFile(l, f)

InjectScheme(l, scheme) == [l EXCEPT !.scheme = scheme]

Fill(o, f, fields) ==
    [x \in DOMAIN o |-> IF x \in fields /\ o[x] = Unset THEN f[x] ELSE o[x]]

\* A file without a leaderElection section dereferences a nil pointer.  What it
\* says of the election itself counts unless the program asks for one.
setLeaderElectionConfig(o, f) ==
    [Fill(o, f.set, ElectionFields \ {"elect"}) EXCEPT
        !["elect"] = IF @ # "true" /\ f.set["elect"] # Unset THEN f.set["elect"] ELSE @]

AndFrom ==
    LET l == LoaderComplete(InjectScheme(loader, given.scheme), file)
        f == l.content
    IN  /\ mgr.err # "panic"
        /\ loader' = l
        /\ first' = IF loader.done THEN first ELSE f
        /\ IF f.ok /\ ~f.election THEN mgr' = [err |-> "panic"] /\ UNCHANGED opts
           ELSE /\ opts' = IF ~f.ok THEN opts
                           ELSE Fill(setLeaderElectionConfig(opts, f), f.set, FileFields)
                /\ UNCHANGED mgr
        /\ UNCHANGED <<file, edits, given, listening>>

\* External: someone edits the file.
Edit ==
    /\ edits < MaxEdits
    /\ edits' = edits + 1
    /\ file' \in Files
    /\ UNCHANGED <<loader, first, opts, given, listening, mgr>>

-----------------------------------------------------------------------------
(* manager.New.                                                             *)

Defaults == [lease |-> "15s", readiness |-> "/readyz", grace |-> "30s"]
setOptionsDefaults(o) ==
    [x \in DOMAIN o |-> IF o[x] = Unset /\ x \in DOMAIN Defaults THEN Defaults[x] ELSE o[x]]

\* cluster.New: the parts in their order, the first that fails ends it; none
\* is released.
ClusterParts == {"mapper", "cache", "reader", "client", "recorder"}
clusterNew(o, env) ==
    IF env.fails \in ClusterParts THEN [err |-> env.fails]
    ELSE [err |-> "none", cache |-> [namespace |-> o["namespace"], resync |-> o["sync"]]]

\* leaderelection.NewResourceLock.
\* The namespace file of a pod may be missing, which is an error, or be empty.
getInClusterNamespace(env) == [err |-> env.pod = "none", namespace |-> env.pod]
NewResourceLock(o, env) ==
    LET namespace == IF o["lockNamespace"] = Unset THEN getInClusterNamespace(env)
                     ELSE [err |-> FALSE, namespace |-> o["lockNamespace"]]
        fail(why) == [err |-> why, lock |-> NoManager]
    IN  IF o["elect"] # "true" THEN fail("none")
        ELSE IF o["id"] = Unset THEN fail("id")
        ELSE IF namespace.err THEN fail("namespace")
        ELSE IF env.fails = "host" THEN fail("host")
        ELSE [err |-> "none",
              lock |-> [kind |-> IF o["lock"] = Unset THEN "configmapsleases" ELSE o["lock"],
                        id |-> o["id"], namespace |-> namespace.namespace]]

NewListener(addr, taken) ==
    LET a == IF addr = Unset THEN ":8080" ELSE addr
    IN  IF a = "0" THEN [err |-> FALSE, on |-> {}]
        ELSE [err |-> a \in taken, on |-> IF a \in taken THEN {} ELSE {a}]
defaultHealthProbeListener(addr, taken) ==
    IF addr \in {Unset, "0"} THEN [err |-> FALSE, on |-> {}]
    ELSE [err |-> addr \in taken, on |-> IF addr \in taken THEN {} ELSE {addr}]

\* The parts in their order: what each holds stays held when a later one fails.
New(env) ==
    LET o == setOptionsDefaults(opts)
        cluster == clusterNew(o, env)
        lock == NewResourceLock(o, env)
        metrics == NewListener(o["metrics"], listening \cup env.taken)
        health == defaultHealthProbeListener(o["health"], listening \cup metrics.on \cup env.taken)
        fail(why, on) == mgr' = [err |-> why] /\ listening' = listening \cup on
    IN  /\ mgr.err # "panic"
        /\ IF cluster.err # "none" THEN fail(cluster.err, {})
           ELSE IF env.fails = "events" THEN fail("events", {})
           ELSE IF lock.err # "none" THEN fail(lock.err, {})
           ELSE IF metrics.err THEN fail("metrics", {})
           ELSE IF health.err THEN fail("health", metrics.on)
           ELSE /\ mgr' = [err |-> "ok", options |-> o, lock |-> lock.lock, loaded |-> loader.done,
                           cache |-> cluster.cache, on |-> metrics.on \cup health.on,
                           pod |-> env.pod]
                /\ listening' = listening \cup metrics.on \cup health.on
        /\ UNCHANGED <<file, edits, loader, first, opts, given>>

\* At most one thing that no option decides goes wrong at a time.
Environments ==
    [fails : ClusterParts \cup {"events", "host"}, pod : {"kube"}, taken : {{}}] \cup
    [fails : {"none"}, pod : {"none", Unset, "kube"}, taken : {{}, {":9"}}]

Next ==
    \/ AndFrom
    \/ Edit
    \/ \E env \in Environments : New(env)

Spec == Init /\ [][Next]_vars

-----------------------------------------------------------------------------
\* What the program set itself is what the manager runs with, then what the
\* file said when it was first loaded, then the default; later edits of the
\* file change nothing (manager.go:395 "any options already set on Options will
\* be ignored").  The graceful shutdown timeout is not taken from the file.
\* A program that asks for no election still has one when the file asks for it.
OptionsInOrder ==
    mgr.err = "ok" =>
        \A x \in Fields :
            LET said == IF mgr.loaded /\ first.ok /\ x # "grace" THEN first.set[x] ELSE Unset
                overruled == x = "elect" /\ given.set[x] = "false" /\ said # Unset
            IN  mgr.options[x] = CASE given.set[x] # Unset /\ ~overruled -> given.set[x]
                                   [] said # Unset /\ (given.set[x] = Unset \/ overruled) -> said
                                   [] OTHER -> IF x \in DOMAIN Defaults THEN Defaults[x] ELSE Unset

\* A manager that elects holds a lock with a name, in the namespace it was given
\* or else in that of its pod, and outside a pod it was given one; a manager
\* that does not elect holds none (leader_election.go, NewResourceLock).
LockNamed ==
    mgr.err = "ok" =>
        IF mgr.options["elect"] = "true"
        THEN LET asked == mgr.options["lockNamespace"]
             IN  /\ mgr.lock # NoManager /\ mgr.lock.id # Unset
                 /\ asked = Unset => mgr.pod # "none"
                 /\ mgr.lock.namespace = IF asked # Unset THEN asked ELSE mgr.pod
        ELSE mgr.lock = NoManager
=============================================================================
