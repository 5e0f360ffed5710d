------------------------------ MODULE Objects ------------------------------
(***************************************************************************)
(* pkg/controller/controllerutil, pkg/finalizer, pkg/client (patches and    *)
(* the split client) and pkg/client/fake: clients that work on one object   *)
(* at the same time.  Each runs CreateOrUpdate or CreateOrPatch, a set of   *)
(* finalizers, or deletes the object.  With the API server (external) they  *)
(* read from a cache that lags behind.  With the fake client they run one   *)
(* after the other, as the calls of a test do.                              *)
(***************************************************************************)
EXTENDS FiniteSets, Naturals

CONSTANTS
  Clients,
  Keys,       \* the finalizers that are registered
  Configs,    \* the server and what each client does
  MaxRuns,    \* bound: how often a client starts to work
  None

Programs == {"control", "own", "patch", "finalize", "delete"}
Servers == {"api", "fake"}

\* spec and status are maps with a key per client, refs has at most one entry
\* per owner (referSameObject).  uid is the birth.  A resource version of 0 is
\* the empty one.
Objects ==
  [rv : Nat, uid : Nat, spec : SUBSET Clients, status : SUBSET Clients,
   refs : [Clients -> {"none", "owner", "controller"}], finalizers : SUBSET Keys, deleting : BOOLEAN]

ASSUME ConstantsAssumption ==
  /\ Configs \subseteq [server : Servers, does : [Clients -> Programs]]
  /\ None \notin Objects
  /\ MaxRuns \in Nat

VARIABLES
  config,
  stored,    \* the object in the server, or None
  version,   \* the last resource version the API server gave out
  births,    \* how often the object was created
  cached,    \* the object in the cache the clients read from, or None
  pc,        \* what a client does next
  before,    \* the object as the client read it
  obj,       \* the client's copy
  runs,      \* how often a client started to work
  cleaned,   \* the finalizers that ran, and for which birth
  carried,   \* history: the finalizers this birth has had
  settled    \* history: the birth for which the client last succeeded, and
             \* whether it wrote the status

vars == <<config, stored, version, births, cached, pc, before, obj, runs, cleaned, carried, settled>>

New ==
  [rv |-> 0, uid |-> 0, spec |-> {}, status |-> {}, refs |-> [c \in Clients |-> "none"],
   finalizers |-> {}, deleting |-> FALSE]

TypeOK ==
  /\ config \in Configs
  /\ stored \in {o \in Objects : o.rv > 0 /\ o.uid = births} \cup {None}
  /\ version \in Nat /\ births \in Nat
  /\ cached \in Objects \cup {None}
  /\ pc \in [Clients -> {"idle", "create", "update", "patch", "statusPatch"}]
  /\ before \in [Clients -> Objects] /\ obj \in [Clients -> Objects]
  /\ runs \in 0..MaxRuns
  /\ cleaned \subseteq Keys \X Nat
  /\ carried \subseteq Keys
  /\ settled \in [Clients -> [uid : Nat, status : BOOLEAN]]

----------------------------------------------------------------------------
(* pkg/client: patches *)

\* Slip: the patch holds the whole object.
WholeData(from, to) ==
  [rv |-> {}, remove |-> Clients \ to.spec, spec |-> to.spec,
   unset |-> Clients \ to.status, status |-> to.status, refs |-> {to.refs},
   finalizers |-> {to.finalizers}]

\* A merge patch: what differs.  Maps are merged, a list that differs is
\* replaced.  The resource version is a field like any other, and one that is
\* in the patch must be that of the stored object.
Data(from, to) ==
  [rv |-> {to.rv} \ {from.rv},
   remove |-> from.spec \ to.spec, spec |-> to.spec \ from.spec,
   unset |-> from.status \ to.status, status |-> to.status \ from.status,
   refs |-> {to.refs} \ {from.refs},
   finalizers |-> {to.finalizers} \ {from.finalizers}]

Replaced(old, new) == CHOOSE x \in IF new = {} THEN {old} ELSE new : TRUE

Patched(o, d) ==
  [o EXCEPT !.rv = Replaced(@, d.rv),
            !.spec = (@ \ d.remove) \cup d.spec, !.status = (@ \ d.unset) \cup d.status,
            !.refs = Replaced(@, d.refs), !.finalizers = Replaced(@, d.finalizers)]

----------------------------------------------------------------------------
(* The fake client, over the object tracker of client-go.  An answer is the  *)
(* object that is stored afterwards and whether the call succeeded.          *)

Answer(o, ok) == [stored |-> o, ok |-> ok]

\* versionedTracker.Create
FakeCreate(o) ==
  IF stored # None \/ o.rv # 0 THEN Answer(stored, FALSE)
  ELSE Answer([o EXCEPT !.rv = 1, !.uid = births + 1], TRUE)

\* versionedTracker.Update.  The copies of the clients have a version: no
\* update is unconditional, and none creates the object.
FakeUpdate(o) ==
  IF stored = None \/ o.rv # stored.rv THEN Answer(stored, FALSE)
  ELSE IF o.deleting /\ o.finalizers = {} THEN Answer(None, TRUE)
  ELSE Answer([o EXCEPT !.rv = @ + 1], TRUE)

\* fakeClient.Patch, also for the status
FakePatch(d) == IF stored = None THEN Answer(None, FALSE) ELSE FakeUpdate(Patched(stored, d))

\* fakeClient.deleteObject
FakeDelete ==
  IF stored = None THEN Answer(None, FALSE)
  ELSE IF stored.finalizers # {} THEN FakeUpdate([stored EXCEPT !.deleting = TRUE])
  ELSE Answer(None, TRUE)

----------------------------------------------------------------------------
(* The API server: versions are never used twice, status is written through *)
(* its own endpoint only, and a deletion cannot be taken back.               *)

Versioned(o) == [o EXCEPT !.rv = version + 1]

Kept(o) == IF o.deleting /\ o.finalizers = {} THEN None ELSE Versioned(o)

ApiCreate(o) ==
  IF stored # None \/ o.rv # 0 THEN Answer(stored, FALSE)
  ELSE Answer(Versioned([o EXCEPT !.uid = births + 1, !.status = {}]), TRUE)

ApiUpdate(o) ==
  IF stored = None \/ o.rv # stored.rv THEN Answer(stored, FALSE)
  ELSE Answer(Kept([o EXCEPT !.status = stored.status, !.deleting = stored.deleting]), TRUE)

ApiPatch(d) ==
  IF stored = None THEN Answer(None, FALSE) ELSE ApiUpdate(Patched(stored, d))

ApiPatchStatus(d) ==
  IF stored = None \/ ~(d.rv \subseteq {stored.rv}) THEN Answer(stored, FALSE)
  ELSE Answer(Versioned([stored EXCEPT !.status = Patched(stored, d).status]), TRUE)

ApiDelete ==
  IF stored = None THEN Answer(None, FALSE)
  ELSE IF stored.deleting THEN Answer(stored, TRUE)
  ELSE Answer(Kept([stored EXCEPT !.deleting = TRUE]), TRUE)

----------------------------------------------------------------------------
(* pkg/client: the split client reads from the cache *)

Read == IF config.server = "fake" THEN stored ELSE cached

CacheCatchesUp ==
  /\ config.server = "api" /\ cached # stored
  /\ cached' = stored
  /\ UNCHANGED <<config, stored, version, births, pc, before, obj, runs, cleaned, carried, settled>>

----------------------------------------------------------------------------
(* pkg/controller/controllerutil *)

\* Slip: the controller of the object is replaced.
ReplaceController(c, o) ==
  {[o EXCEPT !.refs = [d \in Clients |-> IF d = c THEN "controller"
                                         ELSE IF @[d] = "controller" THEN "none" ELSE @[d]]]}

\* SetControllerReference: the object with the reference, or an error, {}.
SetControllerReference(c, o) ==
  IF \E d \in Clients \ {c} : o.refs[d] = "controller" THEN {}
  ELSE {[o EXCEPT !.refs[c] = "controller"]}

SetOwnerReference(c, o) == {[o EXCEPT !.refs[c] = "owner"]}

AddFinalizer(o, keys) == [o EXCEPT !.finalizers = @ \cup keys]

RemoveFinalizer(o, keys) == [o EXCEPT !.finalizers = @ \ keys]

\* The MutateFn of each client.
mutate(c, o) ==
  LET m == [o EXCEPT !.spec = @ \cup {c}]
  IN CASE config.does[c] = "control" -> SetControllerReference(c, m)
       [] config.does[c] = "own"     -> SetOwnerReference(c, m)
       [] config.does[c] = "patch"   -> {[m EXCEPT !.status = @ \cup {c}]}

----------------------------------------------------------------------------
(* The steps of the clients *)

Reconciles(c) == config.does[c] \in {"control", "own", "patch"}

Begins(c) ==
  /\ pc[c] = "idle" /\ runs < MaxRuns
  /\ config.server = "fake" => \A d \in Clients : pc[d] = "idle"
  /\ runs' = runs + 1

\* The client goes on with what it read and its copy, which it has until it
\* is idle.
Goes(c, step, b, o) ==
  /\ pc' = [pc EXCEPT ![c] = step]
  /\ before' = [before EXCEPT ![c] = IF step = "idle" THEN New ELSE b]
  /\ obj' = [obj EXCEPT ![c] = IF step = "idle" THEN New ELSE o]

Succeeds(c, uid, status) == settled' = [settled EXCEPT ![c] = [uid |-> uid, status |-> status]]

\* The MutateFn fails: the object has another controller.  (Any other error
\* before the first write leaves as little trace.)
MutateFails(c) ==
  /\ Begins(c)
  /\ Reconciles(c) /\ Read # None /\ mutate(c, Read) = {}
  /\ UNCHANGED <<config, stored, version, births, cached, pc, before, obj, cleaned, carried, settled>>

\* CreateOrUpdate and CreateOrPatch for an object that was not found.
WillCreate(c) ==
  /\ Begins(c)
  /\ Reconciles(c) /\ Read = None
  /\ \E m \in mutate(c, New) : Goes(c, "create", New, m)
  /\ UNCHANGED <<config, stored, version, births, cached, cleaned, carried, settled>>

\* What is left to write.
Differs(c, b, o) ==
  IF config.does[c] # "patch" THEN IF o = b THEN "idle" ELSE "update"
  ELSE IF o.spec # b.spec THEN "patch"
  ELSE IF o.status # b.status THEN "statusPatch" ELSE "idle"

\* They found it: it is as it should be, or is to be written.
WillWrite(c) ==
  /\ Begins(c)
  /\ Reconciles(c) /\ Read # None
  /\ \E m \in mutate(c, Read) :
       /\ Goes(c, Differs(c, Read, m), Read, m)
       /\ IF Differs(c, Read, m) = "idle" THEN Succeeds(c, Read.uid, TRUE) ELSE UNCHANGED settled
  /\ UNCHANGED <<config, stored, version, births, cached, cleaned, carried>>

\* Slip: a finalizer is removed whether or not it succeeds.
FinalizeAll(o, failing) ==
  IF o.deleting THEN RemoveFinalizer(o, Keys) ELSE AddFinalizer(o, Keys)

\* finalizers.Finalize: those that fail stay.
Finalize(o, failing) ==
  IF o.deleting THEN RemoveFinalizer(o, Keys \ failing) ELSE AddFinalizer(o, Keys)

\* A reconciler that runs the finalizers and updates the object if told to.
WillFinalize(c) ==
  /\ Begins(c)
  /\ config.does[c] = "finalize" /\ Read # None
  /\ \E failing \in SUBSET Keys :
       LET o == Finalize(Read, failing) IN
         /\ cleaned' = IF Read.deleting THEN cleaned \cup (Read.finalizers \ failing) \X {Read.uid}
                       ELSE cleaned
         /\ Goes(c, IF o = Read THEN "idle" ELSE "update", Read, o)
  /\ UNCHANGED <<config, stored, version, births, cached, carried, settled>>

----------------------------------------------------------------------------
(* The calls that write.  The answer of the API server may be lost: then the *)
(* client takes a call for failed that was not.                              *)

Stores(a) ==
  /\ stored' = a.stored
  /\ version' = version + IF a.stored = stored THEN 0 ELSE 1
  /\ births' = IF a.stored # None THEN a.stored.uid ELSE births
  /\ carried' = IF a.stored = None THEN {}
                ELSE a.stored.finalizers \cup IF births' = births THEN carried ELSE {}

By(api, fake) == IF config.server = "api" THEN api ELSE fake

AnswerLost == config.server = "api"

\* The last call of a run.
LastCall(c, a, uid, status) ==
  /\ Stores(a)
  /\ Goes(c, "idle", New, New)
  /\ \/ a.ok /\ Succeeds(c, uid, status)
     \/ (~a.ok \/ AnswerLost) /\ UNCHANGED settled
  /\ UNCHANGED <<config, cached, runs, cleaned>>

\* Only the fake client stores the status of a new object.
Create(c) ==
  /\ pc[c] = "create"
  /\ LastCall(c, By(ApiCreate(obj[c]), FakeCreate(obj[c])), births + 1, config.server = "fake")

Update(c) ==
  /\ pc[c] = "update"
  /\ LET a == By(ApiUpdate(obj[c]), FakeUpdate(obj[c])) IN
       IF config.does[c] = "finalize" THEN LastCall(c, a, settled[c].uid, settled[c].status)
       ELSE LastCall(c, a, before[c].uid, TRUE)

\* The first patch of CreateOrPatch: the status in the answer is replaced by
\* the one to be written.
Patch(c) ==
  /\ pc[c] = "patch"
  /\ LET d == Data(before[c], obj[c])
         a == By(ApiPatch(d), FakePatch(d))
         more == obj[c].status # before[c].status
     IN \/ ~more /\ LastCall(c, a, before[c].uid, TRUE)
        \/ more /\ ~a.ok /\ LastCall(c, a, before[c].uid, FALSE)
        \/ /\ more /\ a.ok /\ a.stored # None
           /\ Stores(a)
           /\ \/ Goes(c, "statusPatch", before[c], [a.stored EXCEPT !.status = obj[c].status])
              \/ AnswerLost /\ Goes(c, "idle", New, New)
           /\ UNCHANGED <<config, cached, runs, cleaned, settled>>

StatusPatch(c) ==
  /\ pc[c] = "statusPatch"
  /\ LET d == Data(before[c], obj[c]) 
     IN LastCall(c, By(ApiPatchStatus(d), FakePatch(d)), before[c].uid, TRUE)

Delete(c) ==
  /\ Begins(c)
  /\ config.does[c] = "delete"
  /\ Stores(By(ApiDelete, FakeDelete))
  /\ UNCHANGED <<config, cached, pc, before, obj, cleaned, settled>>

Init ==
  /\ config \in Configs
  /\ stored = None /\ version = 0 /\ births = 0 /\ cached = None
  /\ pc = [c \in Clients |-> "idle"]
  /\ before = [c \in Clients |-> New] /\ obj = [c \in Clients |-> New]
  /\ runs = 0 /\ cleaned = {} /\ carried = {}
  /\ settled = [c \in Clients |-> [uid |-> 0, status |-> FALSE]]

Next ==
  \/ CacheCatchesUp
  \/ \E c \in Clients : MutateFails(c) \/ WillCreate(c) \/ WillWrite(c) \/ WillFinalize(c)
                        \/ Create(c) \/ Update(c) \/ Patch(c) \/ StatusPatch(c) \/ Delete(c)

Spec == Init /\ [][Next]_vars

----------------------------------------------------------------------------
(* Properties *)

Settled(c) == stored # None /\ settled[c].uid = stored.uid

\* No update is lost: what CreateOrUpdate or CreateOrPatch has reported as
\* created, updated or unchanged stays in the object, whatever the other
\* clients write from older copies, until the object is removed.
NoLostUpdate ==
  \A c \in Clients : Settled(c) =>
    /\ c \in stored.spec
    /\ config.does[c] = "patch" /\ settled[c].status => c \in stored.status

\* SetControllerReference: an object has one controller, and only that one
\* was told that it is.  No owner reference gets lost.
SoleController ==
  /\ stored # None =>
       \A c, d \in Clients :
         stored.refs[c] = "controller" /\ stored.refs[d] = "controller" => c = d
  /\ \A c \in Clients : Settled(c) =>
       /\ config.does[c] = "control" => stored.refs[c] = "controller"
       /\ config.does[c] = "own" => stored.refs[c] = "owner"

\* An object goes only after every finalizer it ever had has succeeded, also
\* when clients run them at the same time or from old copies; meanwhile it gets
\* no new finalizers and stays deleted.
FinalizersRun ==
  [][stored # None =>
       /\ stored' = None \/ stored'.uid # stored.uid => carried \X {stored.uid} \subseteq cleaned
       /\ stored.deleting /\ stored' # None =>
            stored'.deleting /\ stored'.finalizers \subseteq stored.finalizers]_vars
============================================================================
