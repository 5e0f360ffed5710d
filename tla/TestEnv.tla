------------------------------- MODULE TestEnv -------------------------------
(***************************************************************************)
(* The test environment of pkg/envtest: Environment.Start and Stop, the    *)
(* control plane they run (an etcd and an API server, each a child process *)
(* behind a process.State), and the CRDs and webhook configurations they   *)
(* install.  One goroutine, the test suite, calls Start and Stop.  Around  *)
(* it move the child processes, discovery, which serves a CRD some time    *)
(* after it was created, and, on an existing cluster, other test suites.   *)
(***************************************************************************)
EXTENDS Naturals, FiniteSets, FiniteSetsExt, Sequences

CONSTANTS
    CRDs,             \* the CRDs of the environment, by name
    Existing,         \* the values te.UseExistingCluster may have
    CleanUpAfterUse,  \* CRDInstallOptions.CleanUpAfterUse
    MaxTries,         \* attempts of startControlPlane (5 in the code)
    MaxConflicts,     \* attempts of RetryOnConflict (4 in the code)
    MaxStarts,        \* bound: how often the suite calls Start
    MaxOther,         \* bound: writes of other test suites
    MaxCrashes        \* bound: processes that die unasked after they served

Comps == {"etcd", "apiserver"}
Procs == 1 .. 2 * MaxTries * MaxStarts
Dirs == 1 .. (2 * MaxTries + 1) * MaxStarts
None == 0

VARIABLES
    pc,       \* where the suite is
    result,   \* how the last call ended
    existing, \* te.useExistingCluster()
    config,   \* te.Config is set
    starts,   \* how many Starts were called
    tries,    \* numTries of startControlPlane
    conf,     \* Etcd.DataDir and APIServer.CertDir
    state,    \* Etcd.processState and APIServer.processState
    proc,     \* the child processes
    certs,    \* the serving certificates in APIServer.CertDir
    authn,    \* SecureServing.Authn is set
    orphans,  \* processes whose process.State was replaced
    dirs,     \* the temporary directories on disk
    errs,     \* whether ControlPlane.Stop has collected an error
    serving,  \* WebhookInstallOptions: the CA and the LocalServingCertDir
    crd,      \* the CRDs in the API server
    shown,    \* the CRDs discovery lists
    hook,     \* the webhook configuration in the API server
    todo,     \* CRDs that InstallCRDs or UninstallCRDs has yet to handle
    read,     \* what the last Get returned
    conflicts,\* attempts of the RetryOnConflict at hand
    other,    \* writes of other suites
    deleted,  \* what other suites deleted since Start was called
    crashes   \* processes that died unasked

caller == <<pc, result, existing, config, starts, tries>>
plane == <<conf, state, proc, certs, authn, orphans, errs, crashes>>
install == <<serving, crd, shown, hook, todo, read, conflicts>>
others == <<other, deleted>>
vars == <<caller, plane, dirs, install, others>>

Absent == [rv |-> 0, ca |-> 0]
Objects == [rv : Nat, ca : Nat]

\* A process.State: Cmd (None before Cmd.Start succeeded), Dir,
\* DirNeedsCleaning.  NoState is the nil pointer.
NoState == [pid |-> None, dir |-> None, clean |-> FALSE, isNil |-> TRUE]

\* A child process: of which component, whether it was sent a SIGTERM and
\* whether its data directory was empty.  A process that has exited is kept as
\* long as a process.State refers to it.
NoProc == [kind |-> "none", st |-> "none", term |-> FALSE, fresh |-> FALSE]

TypeOK ==
    /\ result \in {"none", "started", "startFailed", "stopped", "stopFailed",
                   "panicked"}
    /\ config \in BOOLEAN /\ starts \in 0 .. MaxStarts /\ tries \in 0 .. MaxTries
    /\ conf \in [Comps -> Dirs \cup {None}]
    /\ state \in [Comps -> [pid : Procs \cup {None}, dir : Dirs \cup {None},
                            clean : BOOLEAN, isNil : BOOLEAN]]
    /\ proc \in [Procs -> [kind : Comps \cup {"none"}, term : BOOLEAN,
                           fresh : BOOLEAN,
                           st : {"none", "booting", "serving", "gone"}]]
    /\ certs \in {"none", "half", "whole"} /\ authn \in BOOLEAN
    /\ orphans \subseteq Procs /\ dirs \subseteq Dirs /\ errs \in BOOLEAN
    /\ serving \in [ca : 0 .. MaxStarts, dir : Dirs \cup {None}]
    /\ crd \in [CRDs -> Objects] /\ shown \subseteq CRDs /\ hook \in Objects
    /\ todo \subseteq CRDs /\ deleted \subseteq CRDs \cup {"hook"}

Init ==
    /\ pc = <<"idle">> /\ result = "none" /\ existing \in Existing
    /\ config = FALSE /\ starts = 0 /\ tries = 0
    /\ conf = [c \in Comps |-> None]
    /\ state = [c \in Comps |-> NoState]
    /\ proc = [p \in Procs |-> NoProc]
    /\ certs = "none" /\ authn = FALSE /\ orphans = {} /\ dirs = {} /\ errs = FALSE
    /\ serving = [ca |-> 0, dir |-> None]
    /\ crd = [c \in CRDs |-> Absent] /\ shown = {} /\ hook = Absent
    /\ todo = {} /\ read = Absent /\ conflicts = 0
    /\ other = 0 /\ deleted = {} /\ crashes = 0

Alive(p) == proc[p].st \in {"booting", "serving"}

\* pollURLUntilOK asks the URL of the component, not the process: any process
\* that serves there answers.
Healthy(c) == \E p \in Procs : proc[p].kind = c /\ proc[p].st = "serving"

\* What the configuration of the suite talks to is up.
APIUp == existing \/ Healthy("apiserver")

FreshDir == Min(Dirs \ (dirs \cup {state[c].dir : c \in Comps}))
FreshProc == Min({p \in Procs : proc[p].st = "none"})

Return(r) == pc' = <<"idle">> /\ result' = r

-----------------------------------------------------------------------------
(* Environment.Start, up to the control plane.                              *)

\* The suite starts the environment again only after a Stop without an error
\* and, to bound the processes, only if the earlier Start needed no retry.
Start ==
    /\ pc = <<"idle">> /\ result \in {"none", "stopped"}
    /\ starts < MaxStarts /\ tries = 0
    /\ starts' = starts + 1 /\ tries' = 0 /\ deleted' = {}
    /\ \/ /\ pc' = IF existing THEN <<"prep">> ELSE <<"start", "etcd">>
          /\ config' = (config \/ existing) /\ result' = "none"
       \/ /\ existing => ~config     \* GetConfig or defaultTimeouts fails
          /\ result' = "startFailed" /\ UNCHANGED <<pc, config>>
    /\ UNCHANGED <<existing, plane, dirs, install, other>>

\* The attempt failed: ControlPlane.Start returns and startControlPlane tries
\* again or gives up.  Neither stops what the attempt has started.
AttemptFails ==
    /\ tries' = tries + 1
    /\ IF tries + 1 < MaxTries THEN pc' = <<"start", "etcd">> /\ UNCHANGED result
                               ELSE Return("startFailed")

\* The processes and the orphans once the process.State of c is replaced.
Orphaned(c) == {p \in Procs : p = state[c].pid /\ Alive(p)}
Kept(c) == [p \in Procs |-> IF p = state[c].pid /\ ~Alive(p) THEN NoProc ELSE proc[p]]

\* State.Init: a temporary directory is made, to be removed by Stop, unless
\* DataDir or CertDir names one already.
MkDir(c) == conf[c] = None
Dir(c) == IF MkDir(c) THEN FreshDir ELSE conf[c]
NewState(c, pid) == [pid |-> pid, dir |-> Dir(c), clean |-> MkDir(c), isNil |-> FALSE]

\* setProcessState replaces the process.State before anything can fail, and the
\* attempt ends there: Init cannot make the directory; no port is found, and
\* the directory is not recorded in DataDir or CertDir; the arguments cannot be
\* rendered or Cmd.Start fails.
StartFailsEarly(c) ==
    /\ \/ /\ MkDir(c)
          /\ state' = [state EXCEPT ![c] = [NoState EXCEPT !.isNil = FALSE]]
          /\ UNCHANGED <<conf, dirs>>
       \/ /\ MkDir(c)
          /\ state' = [state EXCEPT ![c] = NewState(c, None)]
          /\ dirs' = dirs \cup {Dir(c)}
          /\ UNCHANGED conf
       \/ /\ state' = [state EXCEPT ![c] = NewState(c, None)]
          /\ conf' = [conf EXCEPT ![c] = Dir(c)] /\ dirs' = dirs \cup {Dir(c)}
    /\ proc' = Kept(c)
    /\ AttemptFails

\* State.Start up to its select: the process is launched.
Launch(c) ==
    /\ state' = [state EXCEPT ![c] = NewState(c, FreshProc)]
    /\ conf' = [conf EXCEPT ![c] = Dir(c)] /\ dirs' = dirs \cup {Dir(c)}
    /\ proc' = [Kept(c) EXCEPT ![FreshProc] =
                  [kind |-> c, st |-> "booting", term |-> FALSE, fresh |-> MkDir(c)]]
    /\ pc' = <<"wait", c>>
    /\ UNCHANGED <<result, tries>>

EtcdStart ==
    /\ pc = <<"start", "etcd">>
    /\ orphans' = orphans \cup Orphaned("etcd")
    /\ StartFailsEarly("etcd") \/ Launch("etcd")
    /\ UNCHANGED <<existing, config, starts, errs, certs, authn, crashes, install, others>>

\* populateAPIServerCerts takes an apiserver.crt in CertDir for the whole set:
\* when it fails after writing that file, no later attempt writes the others
\* nor sets SecureServing.CA.
populateAPIServerCerts ==
    certs' \in IF MkDir("apiserver") \/ certs = "none" THEN {"none", "half", "whole"}
                                                     ELSE {certs}

\* It has returned without an error.
certsPopulated ==
    \/ certs' = "whole"
    \/ certs' = "half" /\ certs = "half" /\ ~MkDir("apiserver")

\* APIServer.Start: like etcd's, with the certificates and Authn in between.
APIServerStart ==
    /\ pc = <<"start", "apiserver">>
    /\ orphans' = orphans \cup Orphaned("apiserver")
    /\ populateAPIServerCerts
    /\ \/ /\ StartFailsEarly("apiserver")
          /\ \/ UNCHANGED authn
             \/ conf'["apiserver"] # None /\ certsPopulated /\ authn' = TRUE
       \/ certsPopulated /\ authn' = TRUE /\ Launch("apiserver")
    /\ UNCHANGED <<existing, config, starts, errs, crashes, install, others>>

\* The three cases of the select of State.Start: the health check is answered,
\* the process has exited, the timeout fires and the process gets a SIGTERM.
WaitReady(c) ==
    /\ pc = <<"wait", c>>
    /\ \/ /\ Healthy(c)
          /\ pc' = IF c = "etcd" THEN <<"start", "apiserver">> ELSE <<"users">>
          /\ UNCHANGED <<result, tries, proc>>
       \/ /\ ~Alive(state[c].pid)
          /\ AttemptFails
          /\ UNCHANGED proc
       \/ /\ proc' = [proc EXCEPT ![state[c].pid].term = TRUE]
          /\ AttemptFails
    /\ UNCHANGED <<existing, config, starts, conf, state, certs, authn, orphans, errs, crashes, dirs,
                   install, others>>

\* ControlPlane.Start provisions the default user, Environment.Start the admin;
\* AuthenticatedUser.Config panics when SecureServing.CA was never set, which
\* half a set of certificates leaves open.
AddUsers ==
    /\ pc = <<"users">>
    /\ \/ /\ pc' = <<"prep">> /\ config' = TRUE /\ UNCHANGED <<result, tries>>
       \/ certs # "whole" /\ Return("panicked") /\ UNCHANGED <<config, tries>>
       \/ AttemptFails /\ UNCHANGED config
       \/ Return("startFailed") /\ UNCHANGED <<config, tries>>
    /\ UNCHANGED <<existing, starts, plane, dirs, install, others>>

-----------------------------------------------------------------------------
(* The rest of Start: certificates, CRDs, webhooks.                         *)

StartFails == Return("startFailed")

\* setupCA makes a CA and a directory with the serving certificate.  It may
\* fail before the directory is made, when it cannot be made, or before
\* LocalServingCAData is set.
setupCA(ok) ==
    \/ /\ serving' = [ca |-> IF ok THEN starts ELSE serving.ca, dir |-> FreshDir]
       /\ dirs' = dirs \cup {FreshDir}
    \/ /\ ~ok /\ serving' \in {serving, [serving EXCEPT !.dir = None]}
       /\ UNCHANGED dirs

\* PrepWithoutInstalling: after setupCA, parseWebhook reads the definitions and
\* ModifyWebhookDefinitions puts the CA into them.
PrepWithoutInstalling ==
    /\ pc = <<"prep">>
    /\ \E ok \in BOOLEAN :
         /\ setupCA(ok)
         /\ \/ ok /\ pc' = <<"read crds">> /\ UNCHANGED result
            \/ StartFails
    /\ UNCHANGED <<existing, config, starts, tries, plane, crd, shown, hook, todo, read,
                   conflicts, others>>

\* InstallCRDs up to CreateCRDs: the files are read, and
\* modifyConversionWebhooks puts the URL and the CA into each CRD.
ReadCRDs ==
    /\ pc = <<"read crds">>
    /\ \/ todo' = CRDs /\ pc' = <<"get crd">> /\ UNCHANGED result
       \/ StartFails /\ UNCHANGED todo
    /\ UNCHANGED <<existing, config, starts, tries, plane, dirs, serving, crd, shown,
                   hook, read, conflicts, others>>

Ours(rv) == [rv |-> rv, ca |-> serving.ca]

\* CreateCRDs on one CRD, in the order of the list, which is a map's: Get, and
\* Create or Update by what it found.
GetCRD(c) ==
    /\ pc = <<"get crd">> /\ c \in todo /\ APIUp
    /\ read' = crd[c] /\ conflicts' = 0
    /\ todo' = todo \ {c}
    /\ pc' = IF crd[c] = Absent THEN <<"create crd", c>> ELSE <<"reget crd", c>>
    /\ UNCHANGED <<result, existing, config, starts, tries, plane, dirs, serving, crd,
                   shown, hook, others>>

CreateCRD(c) ==
    /\ pc = <<"create crd", c>> /\ APIUp
    /\ IF crd[c] = Absent
       THEN crd' = [crd EXCEPT ![c] = Ours(1)] /\ pc' = <<"get crd">> /\ UNCHANGED result
       ELSE StartFails /\ UNCHANGED crd
    /\ UNCHANGED <<existing, config, starts, tries, plane, dirs, serving, shown, hook,
                   todo, read, conflicts, others>>

\* The function RetryOnConflict runs: Get, take the resource version, Update.
RegetCRD(c) ==
    /\ pc = <<"reget crd", c>> /\ APIUp
    /\ read' = crd[c]
    /\ IF crd[c] = Absent THEN StartFails
                          ELSE pc' = <<"update crd", c>> /\ UNCHANGED result
    /\ UNCHANGED <<existing, config, starts, tries, plane, dirs, serving, crd, shown,
                   hook, todo, conflicts, others>>

UpdateCRD(c) ==
    /\ pc = <<"update crd", c>> /\ APIUp
    /\ \/ /\ crd[c] = read
          /\ crd' = [crd EXCEPT ![c] = Ours(read.rv + 1)]
          /\ pc' = <<"get crd">> /\ UNCHANGED <<result, conflicts>>
       \/ /\ crd[c] # read /\ crd[c] # Absent
          /\ conflicts' = conflicts + 1
          /\ IF conflicts + 1 < MaxConflicts
             THEN pc' = <<"reget crd", c>> /\ UNCHANGED result
             ELSE StartFails
          /\ UNCHANGED crd
       \/ crd[c] = Absent /\ StartFails /\ UNCHANGED <<crd, conflicts>>
    /\ UNCHANGED <<existing, config, starts, tries, plane, dirs, serving, shown, hook,
                   todo, read, others>>

\* Slip: CRDs are not waited for.
WaitForNothing ==
    /\ pc = <<"get crd">> /\ todo = {}
    /\ pc' = <<"get hook">>
    /\ UNCHANGED <<result, existing, config, starts, tries, plane, dirs, serving, crd,
                   shown, hook, todo, read, conflicts, others>>

\* WaitForCRDs: poll asks discovery again and again and forgets what it found;
\* a discovery error only means another round.  MaxTime ends the wait.
WaitForCRDs ==
    /\ pc = <<"get crd">> /\ todo = {}
    /\ todo' = CRDs /\ pc' = <<"poll crds">>
    /\ UNCHANGED <<result, existing, config, starts, tries, plane, dirs, serving, crd,
                   shown, hook, read, conflicts, others>>

PollCRDs ==
    /\ pc = <<"poll crds">>
    /\ \/ /\ APIUp /\ todo \cap shown # {}
          /\ \E found \in SUBSET (todo \cap shown) \ {{}} : todo' = todo \ found
          /\ UNCHANGED <<pc, result>>
       \/ todo = {} /\ pc' = <<"get hook">> /\ UNCHANGED <<result, todo>>
       \/ todo # {} /\ StartFails /\ UNCHANGED todo
    /\ UNCHANGED <<existing, config, starts, tries, plane, dirs, serving, crd, shown,
                   hook, read, conflicts, others>>

\* WebhookInstallOptions.Install: ensureCreated, which does not retry on a
\* conflict, and WaitForWebhooks, whose poll ends on the first error, a
\* NotFound included.
EnsureGet ==
    /\ pc = <<"get hook">> /\ APIUp
    /\ read' = hook /\ pc' = <<"write hook">>
    /\ UNCHANGED <<result, existing, config, starts, tries, plane, dirs, serving, crd,
                   shown, hook, todo, conflicts, others>>

EnsureWrite ==
    /\ pc = <<"write hook">> /\ APIUp
    /\ IF hook = read
       THEN hook' = Ours(read.rv + 1) /\ pc' = <<"poll hook">> /\ UNCHANGED result
       ELSE StartFails /\ UNCHANGED hook
    /\ UNCHANGED <<existing, config, starts, tries, plane, dirs, serving, crd, shown,
                   todo, read, conflicts, others>>

PollHook ==
    /\ pc = <<"poll hook">> /\ APIUp
    /\ Return(IF hook = Absent THEN "startFailed" ELSE "started")
    /\ UNCHANGED <<existing, config, starts, tries, plane, dirs, install, others>>

\* A request fails: every request of Start but those of discovery ends it.
StartCallFails ==
    /\ \/ pc \in {<<"get crd">>, <<"get hook">>, <<"write hook">>, <<"poll hook">>}
       \/ Len(pc) = 2 /\ pc[1] \in {"create crd", "reget crd", "update crd"}
    /\ pc = <<"get crd">> => todo # {}
    /\ StartFails
    /\ UNCHANGED <<existing, config, starts, tries, plane, dirs, install, others>>

-----------------------------------------------------------------------------
(* Environment.Stop.                                                        *)

Stop ==
    /\ pc = <<"idle">> /\ result \in {"started", "startFailed"}
    /\ pc' = IF CleanUpAfterUse THEN <<"uninstall">> ELSE <<"cleanup">>
    /\ todo' = CRDs /\ result' = "none" /\ errs' = FALSE
    /\ UNCHANGED <<existing, config, starts, tries, conf, state, proc, certs, authn, orphans, crashes,
                   dirs, serving, crd, shown, hook, read, conflicts, others>>

\* UninstallCRDs deletes one CRD after the other; one that is not found counts
\* as deleted, any other error ends Stop, that of a nil te.Config included.
UninstallCRD ==
    /\ pc = <<"uninstall">>
    /\ \/ \E c \in todo :
            /\ config /\ APIUp
            /\ crd' = [crd EXCEPT ![c] = Absent] /\ todo' = todo \ {c}
            /\ UNCHANGED <<pc, result>>
       \/ todo = {} /\ pc' = <<"cleanup">> /\ UNCHANGED <<result, crd, todo>>
       \/ todo # {} /\ Return("stopFailed") /\ UNCHANGED <<crd, todo>>
    /\ UNCHANGED <<existing, config, starts, tries, plane, dirs, serving, shown, hook,
                   read, conflicts, others>>

\* WebhookInstallOptions.Cleanup removes the serving certificates.
Cleanup ==
    /\ pc = <<"cleanup">>
    /\ dirs' = dirs \ {serving.dir}
    /\ IF existing THEN Return("stopped")
                   ELSE pc' = <<"stop", "apiserver">> /\ UNCHANGED result
    /\ UNCHANGED <<existing, config, starts, tries, plane, install, others>>

\* APIServer.Stop and Etcd.Stop read processState.DirNeedsCleaning before
\* anything else: a component that was never started panics.  State.Stop does
\* nothing for a process it did not launch or that has exited; APIServer.Stop
\* then calls Authn.Stop, which panics when no attempt came to set Authn.
StopNext(c) ==
    IF c = "apiserver" THEN pc' = <<"stop", "etcd">> /\ UNCHANGED result
    ELSE Return(IF errs' THEN "stopFailed" ELSE "stopped")

Running(c) == \E p \in Procs : p = state[c].pid /\ Alive(p)

StopComponent(c) ==
    /\ pc = <<"stop", c>>
    /\ \/ /\ state[c].isNil
          /\ Return("panicked") /\ UNCHANGED <<conf, errs>>
       \/ /\ ~state[c].isNil
          /\ UNCHANGED errs
          /\ conf' = IF state[c].clean THEN [conf EXCEPT ![c] = None] ELSE conf
          /\ IF Running(c) THEN pc' = <<"signal", c>> /\ UNCHANGED result
             ELSE IF c = "apiserver" /\ ~authn THEN Return("panicked")
             ELSE StopNext(c)
    /\ UNCHANGED <<existing, config, starts, tries, state, proc, certs, authn, orphans, crashes, dirs,
                   install, others>>

\* Signal fails on a process that has meanwhile exited.
SignalComponent(c) ==
    /\ pc = <<"signal", c>>
    /\ IF Alive(state[c].pid)
       THEN /\ proc' = [proc EXCEPT ![state[c].pid].term = TRUE]
            /\ pc' = <<"reap", c>> /\ UNCHANGED <<result, errs>>
       ELSE errs' = TRUE /\ StopNext(c) /\ UNCHANGED proc
    /\ UNCHANGED <<existing, config, starts, tries, conf, state, certs, authn, orphans, crashes, dirs,
                   install, others>>

\* The process has exited, and its directory is removed if Init made it; or
\* StopTimeout has passed.
ReapComponent(c) ==
    /\ pc = <<"reap", c>>
    /\ \/ /\ ~Alive(state[c].pid)
          /\ dirs' = IF state[c].clean THEN dirs \ {state[c].dir} ELSE dirs
          /\ UNCHANGED errs
       \/ errs' = TRUE /\ UNCHANGED dirs
    /\ StopNext(c)
    /\ UNCHANGED <<existing, config, starts, tries, conf, state, proc, certs, authn, orphans, crashes,
                   install, others>>

-----------------------------------------------------------------------------
(* What moves around the suite.                                             *)

\* A process takes its port, if no other process holds it.  The API server
\* becomes healthy only with an etcd to talk to; a new etcd in a new directory
\* holds nothing.
Serve(p) ==
    /\ proc[p].st = "booting" /\ ~proc[p].term
    /\ ~Healthy(proc[p].kind)
    /\ proc[p].kind = "apiserver" => Healthy("etcd")
    /\ proc' = [proc EXCEPT ![p].st = "serving"]
    /\ IF proc[p].kind = "etcd" /\ proc[p].fresh
       THEN crd' = [c \in CRDs |-> Absent] /\ shown' = {} /\ hook' = Absent
       ELSE UNCHANGED <<crd, shown, hook>>
    /\ UNCHANGED <<caller, conf, state, certs, authn, orphans, errs, crashes, dirs, serving,
                   todo, read, conflicts, others>>

\* A process exits: it cannot start, it was told to, or it dies unasked.
Exit(p) ==
    /\ Alive(p)
    /\ IF proc[p].st = "serving" /\ ~proc[p].term
       THEN crashes < MaxCrashes /\ crashes' = crashes + 1
       ELSE UNCHANGED crashes
    /\ proc' = [proc EXCEPT ![p] =
                  IF p \in orphans THEN NoProc ELSE [@ EXCEPT !.st = "gone"]]
    /\ orphans' = orphans \ {p}
    /\ UNCHANGED <<caller, conf, state, certs, authn, errs, dirs, install, others>>

\* Discovery follows the CRDs.
Discover(c) ==
    /\ shown' = IF crd[c] = Absent THEN shown \ {c} ELSE shown \cup {c}
    /\ shown' # shown
    /\ UNCHANGED <<caller, plane, dirs, serving, crd, hook, todo, read,
                   conflicts, others>>

\* Another suite on the existing cluster installs, with its own CA, or
\* uninstalls the same CRD or webhook configuration.
Other ==
    /\ existing /\ other < MaxOther /\ other' = other + 1
    /\ \/ \E c \in CRDs, gone \in BOOLEAN :
            /\ gone => crd[c] # Absent
            /\ crd' = [crd EXCEPT ![c] =
                         IF gone THEN Absent ELSE [rv |-> @.rv + 1, ca |-> 0]]
            /\ deleted' = deleted \cup {c}
            /\ UNCHANGED hook
       \/ /\ hook' = [rv |-> hook.rv + 1, ca |-> 0]
          /\ deleted' = deleted \cup {"hook"}
          /\ UNCHANGED crd
    /\ UNCHANGED <<caller, plane, dirs, serving, shown, todo, read, conflicts>>

\* Nothing is left to do: the suite has ended.
Ended ==
    /\ pc = <<"idle">>
    /\ \/ result \in {"panicked", "stopFailed"}
       \/ result = "stopped" /\ (starts = MaxStarts \/ tries # 0)
    /\ UNCHANGED vars

-----------------------------------------------------------------------------
Caller ==
    \/ EtcdStart \/ APIServerStart
    \/ \E c \in Comps : \/ WaitReady(c)
                        \/ StopComponent(c) \/ SignalComponent(c) \/ ReapComponent(c)
    \/ \E c \in CRDs : GetCRD(c) \/ CreateCRD(c) \/ RegetCRD(c) \/ UpdateCRD(c)
    \/ AddUsers \/ PrepWithoutInstalling \/ ReadCRDs \/ WaitForCRDs \/ PollCRDs
    \/ EnsureGet \/ EnsureWrite \/ PollHook \/ StartCallFails
    \/ UninstallCRD \/ Cleanup

Next ==
    \/ Start \/ Stop \/ Caller \/ Other \/ Ended
    \/ \E p \in Procs : Serve(p) \/ Exit(p)
    \/ \E c \in CRDs : Discover(c)

\* Every wait of the suite has a timeout, so its goroutine never stays blocked.
Spec == Init /\ [][Next]_vars /\ WF_vars(Caller)

-----------------------------------------------------------------------------
(* Properties.                                                              *)

\* When Start returned without an error, every CRD is in the API server and in
\* discovery, and the CRDs and the webhook configuration carry the CA of the
\* serving certificates this Start wrote, also after a restart over what an
\* earlier Start left in the cluster; what another suite wrote over meanwhile
\* and what a crash of etcd takes with it is exempt (Environment.Start, InstallCRDs, Install).
StartInstalls ==
    result = "started" /\ crashes = 0 =>
        /\ serving.ca = starts /\ serving.dir \in dirs
        /\ \A c \in CRDs \ deleted :
             crd[c] # Absent /\ crd[c].ca = serving.ca /\ c \in shown
        /\ "hook" \in deleted \/ hook.ca = serving.ca

\* When Stop returned without an error, a process of the control plane that
\* still runs is one an attempt of startControlPlane left behind when it was
\* retried; the etcd and the API server of the last attempt have exited, and
\* their temporary directories are gone unless a process died on its own or an
\* attempt failed (ControlPlane.Stop, State.Stop).  When the control plane
\* could not be stopped, each of the two was still told to end or has exited;
\* a failure before that, while CRDs are deleted, leaves it running.
StopEndsLastAttempt ==
    ~existing =>
        /\ result = "stopped" =>
             /\ \A p \in Procs : Alive(p) => p \in orphans
             /\ tries = 0 /\ crashes = 0 /\ starts = 1 => dirs = {}
        /\ result = "stopFailed" /\ errs =>
             \A p \in Procs : Alive(p) => p \in orphans \/ proc[p].term

\* What Start reports as installed is there, and what Stop reports as ended has
\* ended; and the types are kept.
EnvironmentKept == TypeOK /\ StartInstalls /\ StopEndsLastAttempt

\* Start and Stop always return, whatever the child processes do: every wait
\* has a timeout and every retry a limit (State.Start, State.Stop,
\* startControlPlane, WaitForCRDs).
CallsReturn == []<>(pc = <<"idle">>)

=============================================================================
