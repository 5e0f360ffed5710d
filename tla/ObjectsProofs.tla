---------------------------- MODULE ObjectsProofs ----------------------------
(***************************************************************************)
(* Proofs about Objects, for any clients, finalizers, configurations and    *)
(* number of runs: no update is lost, an object has one controller, and it  *)
(* goes only after its finalizers.  The invariant: every copy a client or   *)
(* the cache holds is within the stored object of the same birth, so a      *)
(* write that goes through only adds to what is stored.                     *)
(***************************************************************************)
EXTENDS Objects, TLAPS

\* The reference a client writes for itself.
RefOf(c) == IF config.does[c] = "control" THEN "controller"
            ELSE IF config.does[c] = "own" THEN "owner" ELSE "none"

\* References are those of the clients that write them, and at most one of
\* them is a controller.
RefsRight(o) ==
  /\ \A c \in Clients : o.refs[c] \in {"none", RefOf(c)}
  /\ \A c, d \in Clients : o.refs[c] = "controller" /\ o.refs[d] = "controller" => c = d

\* What o holds is held by s, too.
Within(o, s) ==
  /\ o.spec \subseteq s.spec /\ o.status \subseteq s.status
  /\ \A c \in Clients : o.refs[c] # "none" => s.refs[c] = o.refs[c]

\* A copy of the object, however old: within a birth the object only grows,
\* and the API server gave its version to no other object.
Seen(o) ==
  /\ o \in Objects /\ RefsRight(o)
  /\ o.uid <= births /\ o.rv <= version
  /\ stored # None /\ o.uid = births => Within(o, stored)
  /\ config.server = "api" /\ stored # None /\ o.rv = stored.rv => o = stored

\* What a client that read b will write, and why it may.
Working(c) ==
  LET b == before[c]
      o == obj[c]
  IN  /\ pc[c] = "create" => Reconciles(c) /\ b = New /\ o \in mutate(c, New)
      /\ pc[c] = "update" =>
           \/ config.does[c] \in {"control", "own"} /\ o \in mutate(c, b)
           \/ /\ config.does[c] = "finalize"
              /\ \E failing \in SUBSET Keys :
                   /\ o = Finalize(b, failing)
                   /\ b.deleting => (b.finalizers \ failing) \X {b.uid} \subseteq cleaned
      /\ pc[c] = "patch" => config.does[c] = "patch" /\ c \notin b.spec /\ o \in mutate(c, b)
      /\ pc[c] = "statusPatch" =>
           /\ config.does[c] = "patch"
           /\ o \in Objects /\ RefsRight(o) /\ c \in o.spec /\ o.status = b.status \cup {c}
           /\ b.uid <= o.uid /\ o.uid <= births
           /\ stored # None /\ o.uid = births => o.spec \subseteq stored.spec

\* With the fake client only one run is under way, and it knows the object.
Alone(c) ==
  pc[c] # "idle" =>
    /\ \A d \in Clients \ {c} : pc[d] = "idle"
    /\ pc[c] = "create" => stored = None
    /\ pc[c] \in {"update", "patch"} => stored = before[c]
    /\ pc[c] = "statusPatch" =>
         /\ stored # None
         /\ obj[c] = [stored EXCEPT !.status = obj[c].status]
         /\ stored.uid = before[c].uid /\ stored.refs = before[c].refs
         /\ stored.finalizers = before[c].finalizers
         /\ before[c].spec \subseteq stored.spec /\ before[c].status \subseteq stored.status

\* A client that succeeded finds in o what it wrote.
Holds(c, o, status) ==
  /\ c \in o.spec
  /\ config.does[c] = "patch" /\ status => c \in o.status
  /\ config.does[c] \in {"control", "own"} => o.refs[c] = RefOf(c)

\* A finalizer the object once had is still there, or has run.
CarriedRun ==
  stored # None => \A k \in carried : k \in stored.finalizers \/ <<k, births>> \in cleaned

IInv ==
  /\ TypeOK
  /\ stored # None => stored.rv <= version /\ births > 0 /\ RefsRight(stored)
  /\ CarriedRun
  /\ cached # None => Seen(cached)
  /\ \A c \in Clients : Seen(before[c]) /\ Working(c)
  /\ config.server = "fake" => \A c \in Clients : Alone(c)
  /\ \A c \in Clients : settled[c].uid <= births
                        /\ (Settled(c) => Holds(c, stored, settled[c].status))

-----------------------------------------------------------------------------
(* What the operators of the clients do to an object, field by field.       *)

\* An object that was not found is empty.
LEMMA NewFacts == New \in Objects /\ New.rv = 0 /\ New.uid = 0 /\ New.spec = {} /\ New.status = {}
                  /\ New.finalizers = {} /\ New.deleting = FALSE
                  /\ \A c \in Clients : New.refs[c] = "none"
BY DEF New, Objects

\* A client does one of the programs, against one of the servers.
LEMMA ConfigFacts ==
  ASSUME TypeOK
  PROVE  config.server \in Servers /\ \A c \in Clients : config.does[c] \in Programs
BY ConstantsAssumption, Zenon DEF TypeOK

\* The MutateFn: the client enters itself, and its reference.
Mutated(c, o, m) ==
         /\ m \in Objects /\ m.rv = o.rv /\ m.uid = o.uid /\ m.spec = o.spec \cup {c}
         /\ m.status = IF config.does[c] = "patch" THEN o.status \cup {c} ELSE o.status
         /\ m.finalizers = o.finalizers /\ m.deleting = o.deleting
         /\ \A d \in Clients \ {c} : m.refs[d] = o.refs[d]
         /\ config.does[c] = "patch" => m.refs = o.refs
         /\ config.does[c] \in {"control", "own"} => m.refs[c] = RefOf(c)
         /\ config.does[c] = "control" => \A d \in Clients \ {c} : o.refs[d] # "controller"

\* The MutateFn does so, when it does not fail.
LEMMA MutateFacts ==
  ASSUME TypeOK, NEW c \in Clients, NEW o \in Objects, Reconciles(c), NEW m \in mutate(c, o)
  PROVE  Mutated(c, o, m)
<1> DEFINE e == [o EXCEPT !.spec = @ \cup {c}]
<1>1. e \in Objects /\ e.rv = o.rv /\ e.uid = o.uid /\ e.spec = o.spec \cup {c}
      /\ e.status = o.status /\ e.finalizers = o.finalizers /\ e.deleting = o.deleting
      /\ e.refs = o.refs
  BY DEF Objects
<1>2. o.refs \in [Clients -> {"none", "owner", "controller"}]
  BY DEF Objects
<1>3. CASE config.does[c] = "control"
  <2>1. m \in SetControllerReference(c, e)
    BY <1>3 DEF mutate
  <2> HIDE DEF e
  <2>2. m = [e EXCEPT !.refs[c] = "controller"] /\ ~ \E d \in Clients \ {c} : e.refs[d] = "controller"
    BY <2>1 DEF SetControllerReference
  <2> QED BY <1>1, <1>2, <1>3, <2>2 DEF Objects, RefOf, Mutated
<1>4. CASE config.does[c] = "own"
  <2>1. m \in SetOwnerReference(c, e)
    BY <1>4 DEF mutate
  <2> HIDE DEF e
  <2>2. m = [e EXCEPT !.refs[c] = "owner"]
    BY <2>1 DEF SetOwnerReference
  <2> QED BY <1>1, <1>2, <1>4, <2>2 DEF Objects, RefOf, Mutated
<1>5. CASE config.does[c] = "patch"
  <2>1. m = [e EXCEPT !.status = @ \cup {c}]
    BY <1>5 DEF mutate
  <2> HIDE DEF e
  <2> QED BY <1>1, <1>2, <1>5, <2>1 DEF Objects, Mutated
<1> QED BY <1>3, <1>4, <1>5 DEF Reconciles

\* Finalize changes nothing but the finalizers.
Finalized(o, f, failing) ==
         /\ f \in Objects /\ f.rv = o.rv /\ f.uid = o.uid /\ f.spec = o.spec
         /\ f.status = o.status /\ f.deleting = o.deleting /\ f.refs = o.refs
         /\ f.finalizers = IF o.deleting THEN o.finalizers \ (Keys \ failing)
                           ELSE o.finalizers \cup Keys

\* finalizers.Finalize does so.
LEMMA FinalizeFacts ==
  ASSUME NEW o \in Objects, NEW failing \in SUBSET Keys
  PROVE  Finalized(o, Finalize(o, failing), failing)
BY DEF Finalized, Finalize, AddFinalizer, RemoveFinalizer, Objects

\* A field that does not differ stays, one that does is replaced.
LEMMA ReplacedFacts ==
  ASSUME NEW x, NEW y, NEW z
  PROVE  Replaced(x, {y} \ {z}) = IF y = z THEN x ELSE y
<1>1. CASE y = z
  <2>1. {y} \ {z} = {}
    BY <1>1
  <2> QED BY <1>1, <2>1 DEF Replaced
<1>2. CASE y # z
  <2>1. {y} \ {z} = {y}
    BY <1>2
  <2> QED BY <1>2, <2>1 DEF Replaced
<1> QED BY <1>1, <1>2

\* A patch of one copy against an older one, applied to the stored object.
LEMMA PatchedFacts ==
  ASSUME NEW b \in Objects, NEW o \in Objects, NEW s \in Objects
  PROVE  LET p == Patched(s, Data(b, o)) IN
         /\ p \in Objects /\ p.uid = s.uid /\ p.deleting = s.deleting
         /\ p.rv = IF o.rv = b.rv THEN s.rv ELSE o.rv
         /\ p.spec = (s.spec \ (b.spec \ o.spec)) \cup (o.spec \ b.spec)
         /\ p.status = (s.status \ (b.status \ o.status)) \cup (o.status \ b.status)
         /\ p.refs = IF o.refs = b.refs THEN s.refs ELSE o.refs
         /\ p.finalizers = IF o.finalizers = b.finalizers THEN s.finalizers ELSE o.finalizers
<1> DEFINE d == Data(b, o)
<1>1. d.rv = {o.rv} \ {b.rv} /\ d.refs = {o.refs} \ {b.refs}
      /\ d.finalizers = {o.finalizers} \ {b.finalizers}
      /\ d.remove = b.spec \ o.spec /\ d.spec = o.spec \ b.spec
      /\ d.unset = b.status \ o.status /\ d.status = o.status \ b.status
  BY DEF Data
<1> DEFINE rv == IF o.rv = b.rv THEN s.rv ELSE o.rv
           refs == IF o.refs = b.refs THEN s.refs ELSE o.refs
           finalizers == IF o.finalizers = b.finalizers THEN s.finalizers ELSE o.finalizers
<1> HIDE DEF d
<1>2. Replaced(s.rv, d.rv) = rv
  <2>1. Replaced(s.rv, {o.rv} \ {b.rv}) = rv
    BY ONLY ReplacedFacts, Zenon
  <2> QED BY ONLY <1>1, <2>1, Zenon
<1>3. Replaced(s.refs, d.refs) = refs
  <2>1. Replaced(s.refs, {o.refs} \ {b.refs}) = refs
    BY ONLY ReplacedFacts, Zenon
  <2> QED BY ONLY <1>1, <2>1, Zenon
<1>4. Replaced(s.finalizers, d.finalizers) = finalizers
  <2>1. Replaced(s.finalizers, {o.finalizers} \ {b.finalizers}) = finalizers
    BY ONLY ReplacedFacts, Zenon
  <2> QED BY ONLY <1>1, <2>1, Zenon
<1>5. rv \in Nat /\ refs \in [Clients -> {"none", "owner", "controller"}]
      /\ finalizers \in SUBSET Keys
  BY DEF Objects
<1> DEFINE spec == (s.spec \ (b.spec \ o.spec)) \cup (o.spec \ b.spec)
           status == (s.status \ (b.status \ o.status)) \cup (o.status \ b.status)
<1>6. spec \in SUBSET Clients /\ status \in SUBSET Clients
  BY DEF Objects
<1>7. Patched(s, d) = [s EXCEPT !.rv = rv, !.spec = spec, !.status = status, !.refs = refs,
                                !.finalizers = finalizers]
  BY <1>1, <1>2, <1>3, <1>4, Zenon DEF Patched, Objects
<1> HIDE DEF rv, refs, finalizers, spec, status
<1>8. /\ Patched(s, d) \in Objects /\ Patched(s, d).uid = s.uid /\ Patched(s, d).rv = rv
      /\ Patched(s, d).deleting = s.deleting /\ Patched(s, d).spec = spec
      /\ Patched(s, d).status = status /\ Patched(s, d).refs = refs
      /\ Patched(s, d).finalizers = finalizers
  BY <1>5, <1>6, <1>7, Zenon DEF Objects
<1> QED BY <1>8 DEF d, rv, refs, finalizers, spec, status

-----------------------------------------------------------------------------
(* What a write may do to the stored object, and that all copies stay       *)
(* copies whatever happens to it.                                           *)

\* The finalizers that t no longer has were run.
Released(t) ==
  \A k \in stored.finalizers : t = None \/ k \notin t.finalizers => <<k, births>> \in cleaned

Numbered(t) == t \in Objects /\ t.rv > 0 /\ t.rv <= version + 1
               /\ (config.server = "api" => t.rv = version + 1)

Created(t) == stored = None /\ Numbered(t) /\ t.uid = births + 1 /\ RefsRight(t)

Grown(t) ==
  /\ stored # None /\ Numbered(t) /\ t.uid = births /\ t.rv # stored.rv
  /\ RefsRight(t) /\ Within(stored, t) /\ Released(t)
  /\ stored.deleting => t.deleting /\ t.finalizers \subseteq stored.finalizers

Changes(t) == \/ t = stored
              \/ stored # None /\ t = None /\ Released(t)
              \/ Created(t)
              \/ Grown(t)

\* What is stored of the answer of a call.
LEMMA StoresFacts ==
  ASSUME IInv, NEW t, NEW ok, Stores(Answer(t, ok)), Changes(t)
  PROVE  /\ stored' = t
         /\ t = stored => version' = version /\ births' = births
         /\ t # stored => version' = version + 1
         /\ t = None => births' = births /\ carried' = {}
         /\ Created(t) => births' = births + 1 /\ carried' = t.finalizers
         /\ Grown(t) => births' = births /\ carried' = t.finalizers \cup carried
         /\ t = stored /\ t # None => carried' = t.finalizers \cup carried
<1>1. Answer(t, ok).stored = t
  BY DEF Answer
<1>2. stored' = t /\ version' = version + (IF t = stored THEN 0 ELSE 1)
      /\ births' = (IF t # None THEN t.uid ELSE births)
      /\ carried' = IF t = None THEN {}
                    ELSE t.finalizers \cup (IF births' = births THEN carried ELSE {})
  BY <1>1 DEF Stores
<1>3. version \in Nat /\ births \in Nat /\ None \notin Objects
      /\ (stored # None => stored.uid = births)
  BY ConstantsAssumption, Zenon DEF IInv, TypeOK
<1>4. Created(t) => t # None /\ t.uid = births + 1
  BY <1>3 DEF Created, Numbered
<1>5. Grown(t) => t # None /\ t.uid = births
  BY <1>3 DEF Grown, Numbered
<1>6. t = stored => births' = births
  BY <1>2, <1>3
<1>7. t = stored => version' = version
  BY <1>2, <1>3
<1>8. t # stored => version' = version + 1
  BY <1>2
<1>9. t = None => births' = births /\ carried' = {}
  BY <1>2
<1>10. Created(t) => births' = births + 1 /\ carried' = t.finalizers
  BY <1>2, <1>3, <1>4
<1>11. Grown(t) => births' = births /\ carried' = t.finalizers \cup carried
  BY <1>2, <1>5
<1>12. t = stored /\ t # None => carried' = t.finalizers \cup carried
  BY <1>2, <1>6
<1> QED BY <1>2, <1>6, <1>7, <1>8, <1>9, <1>10, <1>11, <1>12

\* The types and the facts about the stored object itself.
LEMMA StoresKeepsObject ==
  ASSUME IInv, NEW t, NEW ok, Stores(Answer(t, ok)), Changes(t), config' = config, cleaned' = cleaned
  PROVE  /\ stored' \in {o \in Objects : o.rv > 0 /\ o.uid = births'} \cup {None}
         /\ version' \in Nat /\ births' \in Nat /\ carried' \subseteq Keys
         /\ births <= births' /\ version <= version'
         /\ stored' # None => stored'.rv <= version' /\ births' > 0 /\ RefsRight(stored)'
         /\ CarriedRun'
<1>1. version \in Nat /\ births \in Nat /\ carried \subseteq Keys
      /\ stored \in {o \in Objects : o.rv > 0 /\ o.uid = births} \cup {None}
      /\ (stored # None => stored.rv <= version /\ births > 0 /\ RefsRight(stored))
      /\ (stored # None => \A k \in carried : k \in stored.finalizers \/ <<k, births>> \in cleaned)
  BY Zenon DEF IInv, TypeOK, CarriedRun
<1>2. \A o \in Objects : o.finalizers \subseteq Keys /\ o.rv \in Nat /\ o.uid \in Nat
  BY DEF Objects
<1>3. \A o : RefsRight(o)' <=> RefsRight(o)
  BY Zenon DEF RefsRight, RefOf
<1>4. CASE t = stored
  BY <1>1, <1>2, <1>3, <1>4, StoresFacts DEF CarriedRun
<1>5. CASE t = None
  BY <1>1, <1>5, StoresFacts DEF CarriedRun
<1>6. CASE Created(t)
  BY <1>1, <1>2, <1>3, <1>6, StoresFacts DEF Created, Numbered, CarriedRun
<1>7. CASE Grown(t)
  <2>1. stored' = t /\ births' = births /\ version' = version + 1
        /\ carried' = t.finalizers \cup carried
    BY <1>7, StoresFacts DEF Grown
  <2> QED BY <1>1, <1>2, <1>3, <1>7, <2>1, ConstantsAssumption DEF Grown, Numbered, Released, CarriedRun
<1> QED BY <1>4, <1>5, <1>6, <1>7 DEF Changes

\* A copy stays a copy.
LEMMA StoresKeepsSeen ==
  ASSUME IInv, NEW t, NEW ok, Stores(Answer(t, ok)), Changes(t), config' = config, cleaned' = cleaned,
         NEW o, Seen(o)
  PROVE  Seen(o)'
<1>1. version \in Nat /\ births \in Nat /\ version' \in Nat /\ births' \in Nat
      /\ births <= births' /\ version <= version'
  BY StoresKeepsObject, Zenon DEF IInv, TypeOK
<1>2. o \in Objects /\ RefsRight(o)' /\ o.uid <= births' /\ o.rv <= version'
  <2>1. o.uid \in Nat /\ o.rv \in Nat
    BY DEF Seen, Objects
  <2> QED BY <1>1, <2>1 DEF Seen, RefsRight, RefOf
<1>3. \A x : stored' # None /\ o.uid = births' /\ stored' = x => Within(o, x)
  <2>1. CASE t = stored
    BY <2>1, StoresFacts DEF Seen
  <2>2. CASE t = None
    BY <2>2, StoresFacts
  <2>3. CASE Created(t)
    <3>1. o.uid # births' 
      <4>1. o.uid \in Nat
        BY DEF Seen, Objects
      <4> QED BY <1>1, <2>3, <4>1, StoresFacts DEF Seen
    <3> QED BY <3>1
  <2>4. CASE Grown(t)
    <3>1. stored' = t /\ births' = births /\ stored # None /\ Within(stored, t)
      BY <2>4, StoresFacts DEF Grown
    <3>2. ASSUME o.uid = births
          PROVE  Within(o, t)
      <4>1. Within(o, stored)
        BY <3>1, <3>2 DEF Seen
      <4> QED BY <3>1, <4>1, Zenon DEF Within
    <3> QED BY <3>1, <3>2
  <2> QED BY <2>1, <2>2, <2>3, <2>4 DEF Changes
<1>4. config.server = "api" /\ stored' # None /\ o.rv = stored'.rv => o = stored'
  <2>1. CASE t = stored
    BY <2>1, StoresFacts DEF Seen
  <2>2. CASE t = None
    BY <2>2, StoresFacts
  <2>3. CASE Numbered(t)
    <3>1. o.rv \in Nat /\ o.rv <= version
      BY DEF Seen, Objects
    <3> QED BY <1>1, <2>3, <3>1, StoresFacts DEF Numbered
  <2> QED BY <2>1, <2>2, <2>3 DEF Changes, Created, Grown
<1>5. stored' # None /\ o.uid = births' => Within(o, stored')
  BY <1>3
<1> QED BY <1>2, <1>4, <1>5, Zenon DEF Seen, Within

\* What a client has written stays.
LEMMA StoresKeepsSettled ==
  ASSUME IInv, NEW t, NEW ok, Stores(Answer(t, ok)), Changes(t), config' = config, cleaned' = cleaned,
         NEW c \in Clients, settled'[c] = settled[c]
  PROVE  settled'[c].uid <= births' /\ (Settled(c)' => Holds(c, stored, settled[c].status)')
<1>1. version \in Nat /\ births \in Nat /\ version' \in Nat /\ births' \in Nat
      /\ births <= births' /\ settled[c].uid \in Nat /\ settled[c].uid <= births
      /\ (stored # None => stored.uid = births)
  BY StoresKeepsObject, Zenon DEF IInv, TypeOK
<1>2. Settled(c) => Holds(c, stored, settled[c].status)
  BY Zenon DEF IInv
<1>3. CASE t = stored
  BY <1>1, <1>2, <1>3, StoresFacts DEF Settled, Holds, RefOf
<1>4. CASE t = None
  BY <1>1, <1>4, StoresFacts DEF Settled
<1>5. CASE Created(t)
  BY <1>1, <1>5, StoresFacts DEF Settled, Created
<1>6. CASE Grown(t)
  <2>1. stored' = t /\ births' = births /\ stored # None /\ Within(stored, t) /\ t.uid = births
    BY <1>6, StoresFacts DEF Grown
  <2> QED BY <1>1, <1>2, <2>1 DEF Settled, Holds, Within, RefOf
<1> QED BY <1>3, <1>4, <1>5, <1>6 DEF Changes

\* The step of FinalizersRun.
FinalizersStep ==
  stored # None =>
    /\ stored' = None \/ stored'.uid # stored.uid => carried \X {stored.uid} \subseteq cleaned
    /\ stored.deleting /\ stored' # None =>
         stored'.deleting /\ stored'.finalizers \subseteq stored.finalizers

\* Every write takes such a step.
LEMMA StoresRunsFinalizers ==
  ASSUME IInv, NEW t, NEW ok, Stores(Answer(t, ok)), Changes(t)
  PROVE  FinalizersStep
<1> SUFFICES ASSUME stored # None
             PROVE  FinalizersStep
  BY DEF FinalizersStep
<1>1. stored.uid = births /\ \A k \in carried : k \in stored.finalizers \/ <<k, births>> \in cleaned
  BY Zenon DEF IInv, TypeOK, CarriedRun
<1>2. CASE t = stored
  BY <1>2, StoresFacts DEF FinalizersStep
<1>3. CASE t = None /\ Released(t)
  <2>1. \A k \in carried : <<k, stored.uid>> \in cleaned
    BY <1>1, <1>3 DEF Released
  <2>2. carried \X {stored.uid} \subseteq cleaned
    BY <2>1
  <2> QED BY <1>3, <2>2, StoresFacts DEF FinalizersStep
<1>4. CASE Grown(t)
  BY <1>1, <1>4, StoresFacts, ConstantsAssumption DEF FinalizersStep, Grown, Numbered
<1> QED BY <1>2, <1>3, <1>4 DEF Changes, Created

\* A client that makes no call in this step works on.
LEMMA StoresKeepsWorking ==
  ASSUME IInv, NEW t, NEW ok, Stores(Answer(t, ok)), Changes(t), config' = config, cleaned' = cleaned,
         NEW c \in Clients, pc'[c] = pc[c], before'[c] = before[c], obj'[c] = obj[c]
  PROVE  Working(c)'
<1>1. version \in Nat /\ births \in Nat /\ births' \in Nat /\ births <= births'
  BY StoresKeepsObject, Zenon DEF IInv, TypeOK
<1>2. Working(c) /\ before[c] \in Objects /\ obj[c] \in Objects
  BY Zenon DEF IInv, TypeOK
<1>3. \A x : mutate(c, x)' = mutate(c, x)
  BY DEF mutate, SetControllerReference, SetOwnerReference
<1>4. pc[c] = "statusPatch" /\ stored' # None /\ obj[c].uid = births' => obj[c].spec \subseteq stored'.spec
  <2> SUFFICES ASSUME pc[c] = "statusPatch", obj[c].uid = births', stored' # None
               PROVE  obj[c].spec \subseteq stored'.spec
    OBVIOUS
  <2>1. obj[c].uid \in Nat /\ obj[c].uid <= births
        /\ (stored # None /\ obj[c].uid = births => obj[c].spec \subseteq stored.spec)
    BY <1>2, Zenon DEF Working, Objects
  <2>2. CASE t = stored
    BY <2>1, <2>2, StoresFacts
  <2>3. CASE t = None
    BY <2>3, StoresFacts
  <2>4. CASE Created(t)
    BY <1>1, <2>1, <2>4, StoresFacts
  <2>5. CASE Grown(t)
    BY <2>1, <2>5, StoresFacts, Zenon DEF Grown, Within
  <2> QED BY <2>2, <2>3, <2>4, <2>5 DEF Changes
<1>5. pc[c] = "statusPatch" => RefsRight(obj[c])' /\ obj[c].uid <= births'
  <2>1. pc[c] = "statusPatch" => RefsRight(obj[c]) /\ obj[c].uid <= births /\ obj[c].uid \in Nat
    BY <1>2, Zenon DEF Working, Objects
  <2> QED BY <1>1, <2>1 DEF RefsRight, RefOf
<1>6. Reconciles(c)' = Reconciles(c)
  BY DEF Reconciles
<1>7. (pc[c] = "create" => Reconciles(c) /\ before[c] = New /\ obj[c] \in mutate(c, New))'
  BY <1>2, <1>3, <1>6, Zenon DEF Working, New
<1>8. (pc[c] = "patch" => config.does[c] = "patch" /\ c \notin before[c].spec /\ obj[c] \in mutate(c, before[c]))'
  BY <1>2, <1>3, Zenon DEF Working
<1>9. (pc[c] = "update" =>
           \/ config.does[c] \in {"control", "own"} /\ obj[c] \in mutate(c, before[c])
           \/ /\ config.does[c] = "finalize"
              /\ \E failing \in SUBSET Keys :
                   /\ obj[c] = Finalize(before[c], failing)
                   /\ before[c].deleting =>
                        (before[c].finalizers \ failing) \X {before[c].uid} \subseteq cleaned)'
  BY <1>2, <1>3 DEF Working
<1>10. pc[c] = "statusPatch" =>
         config.does[c] = "patch" /\ c \in obj[c].spec /\ obj[c].status = before[c].status \cup {c}
         /\ before[c].uid <= obj[c].uid
  BY <1>2, Zenon DEF Working
<1> QED BY <1>2, <1>4, <1>5, <1>7, <1>8, <1>9, <1>10, Zenon DEF Working

-----------------------------------------------------------------------------
(* The calls                                                                *)

\* An object with which the stored one may be replaced.
Writable(p) ==
  /\ stored # None /\ p \in Objects /\ p.rv = stored.rv /\ p.uid = births
  /\ RefsRight(p) /\ Within(stored, p)
  /\ \A k \in stored.finalizers \ p.finalizers : <<k, births>> \in cleaned
  /\ stored.deleting => p.deleting /\ p.finalizers \subseteq stored.finalizers

\* Equal but for the version.
SameBut(p, t) ==
  /\ t \in Objects /\ t.uid = p.uid /\ t.spec = p.spec /\ t.status = p.status
  /\ t.refs = p.refs /\ t.finalizers = p.finalizers /\ t.deleting = p.deleting

\* A new version of an object that may be written.
LEMMA NewVersion ==
  ASSUME IInv, NEW p, Writable(p), NEW n \in Nat, n > 0, n <= version + 1, n # stored.rv,
         config.server = "api" => n = version + 1
  PROVE  LET t == [p EXCEPT !.rv = n] IN t # None /\ SameBut(p, t) /\ t.rv = n /\ Grown(t)
<1> DEFINE t == [p EXCEPT !.rv = n]
<1>1. SameBut(p, t) /\ t.rv = n
  BY DEF SameBut, Writable, Objects
<1> HIDE DEF t
<1>2. t # None
  BY <1>1, ConstantsAssumption DEF SameBut
<1>3. Numbered(t) /\ stored # None /\ t.uid = births /\ t.rv # stored.rv
  BY <1>1 DEF SameBut, Numbered, Writable
<1>4. RefsRight(t) /\ Within(stored, t)
  BY <1>1, Zenon DEF Writable, SameBut, RefsRight, Within
<1>5. Released(t) /\ (stored.deleting => t.deleting /\ t.finalizers \subseteq stored.finalizers)
  BY <1>1, <1>2 DEF Writable, SameBut, Released
<1>6. Grown(t)
  BY <1>3, <1>4, <1>5 DEF Grown
<1> QED BY <1>1, <1>2, <1>6 DEF t

\* A deletion without finalizers left removes the object.
LEMMA MayGo ==
  ASSUME NEW p, Writable(p), p.finalizers = {}
  PROVE  Changes(None)
BY DEF Writable, Changes, Released

\* The API server stores such an object, or removes it.
LEMMA KeptFacts ==
  ASSUME IInv, NEW p, Writable(p), config.server = "api"
  PROVE  Changes(Kept(p)) /\ (Kept(p) # None => Grown(Kept(p)) /\ SameBut(p, Kept(p)))
<1>1. version \in Nat /\ stored.rv \in Nat /\ stored.rv <= version
  BY Zenon DEF IInv, TypeOK, Writable, Objects
<1>2. CASE p.deleting /\ p.finalizers = {}
  BY <1>2, MayGo DEF Kept
<1>3. CASE ~(p.deleting /\ p.finalizers = {})
  <2>1. Kept(p) = [p EXCEPT !.rv = version + 1]
    BY <1>3 DEF Kept, Versioned
  <2>2. Grown(Kept(p)) /\ SameBut(p, Kept(p))
    BY <1>1, <2>1, NewVersion
  <2> QED BY <2>2 DEF Changes
<1> QED BY <1>2, <1>3

\* So does the fake client.
LEMMA FakeFacts ==
  ASSUME IInv, NEW p, Writable(p), config.server = "fake"
  PROVE  \E t : /\ FakeUpdate(p) = Answer(t, TRUE) /\ Changes(t)
                /\ t # None => Grown(t) /\ SameBut(p, t)
<1>1. version \in Nat /\ stored.rv \in Nat /\ stored.rv <= version /\ p.rv = stored.rv /\ stored # None
  BY Zenon DEF IInv, TypeOK, Writable, Objects
<1>2. CASE p.deleting /\ p.finalizers = {}
  BY <1>1, <1>2, MayGo, Zenon DEF FakeUpdate
<1>3. CASE ~(p.deleting /\ p.finalizers = {})
  <2> DEFINE t == [p EXCEPT !.rv = stored.rv + 1]
  <2>1. FakeUpdate(p) = Answer(t, TRUE)
    <3>1. [p EXCEPT !.rv = @ + 1] = t
      BY <1>1 DEF Writable, Objects
    <3> QED BY <1>1, <1>3, <3>1, Zenon DEF FakeUpdate
  <2>2. Grown(t) /\ SameBut(p, t)
    <3>1. stored.rv + 1 \in Nat /\ stored.rv + 1 > 0 /\ stored.rv + 1 <= version + 1
          /\ stored.rv + 1 # stored.rv /\ config.server # "api"
      BY <1>1
    <3> QED BY <3>1, NewVersion
  <2> HIDE DEF t
  <2> QED BY <2>1, <2>2, Zenon DEF Changes
<1> QED BY <1>2, <1>3, Zenon

\* An answer that leaves the client with a success it can rely on.
Writes(c, a, uid, status) ==
  \E t, ok : /\ a = Answer(t, ok) /\ Changes(t)
             /\ ok /\ t = None => uid <= births
             /\ ok /\ t # None => uid <= t.uid /\ (uid = t.uid => Holds(c, t, status))

\* A call that fails changes nothing.
LEMMA FailureWrites ==
  ASSUME NEW c, NEW uid, NEW status
  PROVE  Writes(c, Answer(stored, FALSE), uid, status)
BY Zenon DEF Writes, Changes

\* The MutateFn keeps the references right: SetControllerReference refuses a
\* second controller.
LEMMA MutateKeepsRefs ==
  ASSUME TypeOK, NEW c \in Clients, NEW o \in Objects, Reconciles(c), RefsRight(o), NEW m \in mutate(c, o)
  PROVE  RefsRight(m)
<1>0. Mutated(c, o, m)
  BY MutateFacts
<1>1. \A d \in Clients \ {c} : m.refs[d] = o.refs[d]
  BY <1>0 DEF Mutated
<1>2. CASE config.does[c] = "patch"
  BY <1>0, <1>2, Zenon DEF RefsRight, Mutated
<1>3. CASE config.does[c] = "own"
  <2>1. m.refs[c] = "owner" /\ RefOf(c) = "owner"
    BY <1>0, <1>3 DEF RefOf, Mutated
  <2> QED BY <1>1, <2>1, Zenon DEF RefsRight
<1>4. CASE config.does[c] = "control"
  <2>1. m.refs[c] = "controller" /\ RefOf(c) = "controller"
        /\ \A d \in Clients \ {c} : o.refs[d] # "controller"
    BY <1>0, <1>4 DEF RefOf, Mutated
  <2> QED BY <1>1, <2>1, Zenon DEF RefsRight
<1> QED BY <1>2, <1>3, <1>4 DEF Reconciles

\* What the servers make of a new object.
LEMMA ApiNewFacts ==
  ASSUME NEW o \in Objects, NEW u \in Nat
  PROVE  LET e == [o EXCEPT !.uid = u, !.status = {}]
         IN  e \in Objects /\ e.uid = u /\ e.spec = o.spec /\ e.refs = o.refs
BY Zenon DEF Objects

\* The fake client keeps the status of a new object.
LEMMA FakeNewFacts ==
  ASSUME NEW o \in Objects, NEW u \in Nat
  PROVE  LET t == [o EXCEPT !.rv = 1, !.uid = u]
         IN  t \in Objects /\ t.uid = u /\ t.spec = o.spec /\ t.refs = o.refs /\ t.rv = 1
             /\ t.status = o.status
BY Zenon DEF Objects

\* Create
LEMMA CreateWrites ==
  ASSUME IInv, NEW c \in Clients, pc[c] = "create"
  PROVE  Writes(c, By(ApiCreate(obj[c]), FakeCreate(obj[c])), births + 1, config.server = "fake")
<1> DEFINE o == obj[c]
<1>1. TypeOK /\ Reconciles(c) /\ o \in mutate(c, New) /\ births \in Nat /\ version \in Nat
      /\ config.server \in Servers /\ None \notin Objects
  BY ConfigFacts, ConstantsAssumption, Zenon DEF IInv, TypeOK, Working
<1>2. o \in Objects /\ o.rv = 0 /\ c \in o.spec /\ (config.does[c] = "patch" => c \in o.status)
      /\ (config.does[c] \in {"control", "own"} => o.refs[c] = RefOf(c))
  <2>1. Mutated(c, New, o)
    BY <1>1, NewFacts, MutateFacts
  <2> QED BY <2>1, NewFacts DEF Mutated
<1>3. RefsRight(o)
  <2>1. RefsRight(New)
    BY NewFacts, Zenon DEF RefsRight
  <2> QED BY <1>1, <2>1, NewFacts, MutateKeepsRefs
<1> HIDE DEF o
<1>4. CASE stored # None
  <2>1. By(ApiCreate(o), FakeCreate(o)) = Answer(stored, FALSE)
    BY <1>4 DEF By, ApiCreate, FakeCreate
  <2> QED BY <2>1, FailureWrites, Zenon DEF o
<1>5. CASE stored = None /\ config.server = "api"
  <2> DEFINE e == [o EXCEPT !.uid = births + 1, !.status = {}]
             t == [e EXCEPT !.rv = version + 1]
  <2>1. By(ApiCreate(o), FakeCreate(o)) = Answer(t, TRUE)
    BY <1>2, <1>5 DEF By, ApiCreate, Versioned
  <2>2. e \in Objects /\ e.uid = births + 1 /\ e.spec = o.spec /\ e.refs = o.refs
    <3>1. births + 1 \in Nat
      BY <1>1
    <3>2. o \in Objects
      BY <1>2
    <3> QED BY ONLY <3>1, <3>2, ApiNewFacts, Zenon
  <2> HIDE DEF e
  <2>3. t \in Objects /\ t.uid = births + 1 /\ t.spec = o.spec /\ t.refs = o.refs /\ t.rv = version + 1
    BY <1>1, <2>2 DEF Objects
  <2> HIDE DEF t
  <2>4. Created(t)
    BY <1>1, <1>3, <1>5, <2>3 DEF Created, Numbered, RefsRight
  <2>5. t # None /\ births + 1 <= t.uid /\ Holds(c, t, config.server = "fake")
    BY <1>1, <1>2, <1>5, <2>3 DEF Holds
  <2> QED BY <2>1, <2>4, <2>5, Zenon DEF Writes, Changes, o
<1>6. CASE stored = None /\ config.server = "fake"
  <2> DEFINE t == [o EXCEPT !.rv = 1, !.uid = births + 1]
  <2>1. By(ApiCreate(o), FakeCreate(o)) = Answer(t, TRUE)
    BY <1>2, <1>6 DEF By, FakeCreate
  <2>2. t \in Objects /\ t.uid = births + 1 /\ t.spec = o.spec /\ t.refs = o.refs /\ t.rv = 1
        /\ t.status = o.status
    <3>1. births + 1 \in Nat
      BY <1>1
    <3>2. o \in Objects
      BY <1>2
    <3> QED BY ONLY <3>1, <3>2, FakeNewFacts, Zenon
  <2> HIDE DEF t
  <2>3. Created(t)
    BY <1>1, <1>3, <1>6, <2>2 DEF Created, Numbered, RefsRight
  <2>4. t # None /\ births + 1 <= t.uid /\ Holds(c, t, config.server = "fake")
    BY <1>1, <1>2, <1>6, <2>2 DEF Holds
  <2> QED BY <2>1, <2>3, <2>4, Zenon DEF Writes, Changes, o
<1> QED BY <1>1, <1>4, <1>5, <1>6 DEF Servers

\* An update goes through only from a copy of the stored object itself.
LEMMA UpdateFromStored ==
  ASSUME IInv, NEW c \in Clients, pc[c] = "update", stored # None, obj[c].rv = stored.rv
  PROVE  before[c] = stored /\ Writable(obj[c]) /\ obj[c].status = stored.status
         /\ obj[c].deleting = stored.deleting
         /\ (config.does[c] # "finalize" => Holds(c, obj[c], TRUE))
<1> DEFINE b == before[c]
           o == obj[c]
<1>1. TypeOK /\ b \in Objects /\ Seen(b) /\ RefsRight(b) /\ stored.uid = births /\ stored \in Objects
      /\ config.server \in Servers
  BY ConfigFacts, Zenon DEF IInv, TypeOK, Seen
<1>2. \/ config.does[c] \in {"control", "own"} /\ o \in mutate(c, b)
      \/ /\ config.does[c] = "finalize"
         /\ \E failing \in SUBSET Keys :
              /\ o = Finalize(b, failing)
              /\ b.deleting => (b.finalizers \ failing) \X {b.uid} \subseteq cleaned
  BY Zenon DEF IInv, Working
<1>3. o.rv = b.rv
  <2>1. CASE config.does[c] \in {"control", "own"} /\ o \in mutate(c, b)
    <3>1. Mutated(c, b, o)
      BY <1>1, <2>1, MutateFacts DEF Reconciles
    <3> QED BY <3>1 DEF Mutated
  <2>2. ASSUME NEW failing \in SUBSET Keys, o = Finalize(b, failing)
        PROVE  o.rv = b.rv
    <3>1. Finalized(b, o, failing)
      BY <1>1, <2>2, FinalizeFacts
    <3> QED BY <3>1 DEF Finalized
  <2> QED BY <1>2, <2>1, <2>2
<1>4. b = stored
  <2>1. CASE config.server = "api"
    BY <1>1, <1>3, <2>1 DEF Seen
  <2>2. CASE config.server = "fake"
    BY <2>2, Zenon DEF IInv, Alone
  <2> QED BY <1>1, <2>1, <2>2 DEF Servers
<1>5. CASE config.does[c] \in {"control", "own"} /\ o \in mutate(c, b)
  <2>1. /\ o \in Objects /\ o.rv = b.rv /\ o.uid = b.uid /\ o.spec = b.spec \cup {c}
        /\ o.status = b.status
        /\ o.finalizers = b.finalizers /\ o.deleting = b.deleting
        /\ \A d \in Clients \ {c} : o.refs[d] = b.refs[d]
        /\ o.refs[c] = RefOf(c)
    <3>1. Mutated(c, b, o)
      BY <1>1, <1>5, MutateFacts DEF Reconciles
    <3> QED BY <1>5, <3>1 DEF Mutated
  <2>2. RefsRight(o)
    BY <1>1, <1>5, MutateKeepsRefs DEF Reconciles
  <2>3. Within(b, o)
    <3>1. b.refs[c] \in {"none", RefOf(c)}
      BY <1>1, Zenon DEF RefsRight
    <3> QED BY <2>1, <3>1, Zenon DEF Within
  <2>4. Writable(o)
    BY <1>1, <1>4, <2>1, <2>2, <2>3 DEF Writable
  <2>5. Holds(c, o, TRUE)
    BY <1>5, <2>1 DEF Holds
  <2> QED BY <1>4, <2>1, <2>4, <2>5, Zenon
<1>6. ASSUME config.does[c] = "finalize", NEW failing \in SUBSET Keys, o = Finalize(b, failing),
             b.deleting => (b.finalizers \ failing) \X {b.uid} \subseteq cleaned
      PROVE  Writable(o) /\ o.status = stored.status /\ o.deleting = stored.deleting
  <2>1. /\ o \in Objects /\ o.rv = b.rv /\ o.uid = b.uid /\ o.spec = b.spec
        /\ o.status = b.status /\ o.deleting = b.deleting /\ o.refs = b.refs
        /\ o.finalizers = IF b.deleting THEN b.finalizers \ (Keys \ failing)
                          ELSE b.finalizers \cup Keys
    <3>1. Finalized(b, o, failing)
      BY <1>1, <1>6, FinalizeFacts
    <3> QED BY <3>1 DEF Finalized
  <2>2. RefsRight(o) /\ Within(b, o)
    BY <1>1, <2>1, Zenon DEF RefsRight, Within
  <2>3. \A k \in b.finalizers \ o.finalizers : <<k, b.uid>> \in cleaned
    BY <1>6, <2>1
  <2> QED BY <1>1, <1>4, <2>1, <2>2, <2>3 DEF Writable
<1> QED BY <1>2, <1>4, <1>5, <1>6, Zenon

\* The API server keeps the status and the deletion: here both are unchanged.
LEMMA UnchangedRecord ==
  ASSUME NEW o \in Objects, NEW s \in Objects, o.status = s.status, o.deleting = s.deleting
  PROVE  [o EXCEPT !.status = s.status, !.deleting = s.deleting] = o
BY Zenon DEF Objects

\* Update
LEMMA UpdateWrites ==
  ASSUME IInv, NEW c \in Clients, pc[c] = "update", NEW uid, NEW status,
         \/ config.does[c] = "finalize" /\ uid = settled[c].uid /\ status = settled[c].status
         \/ config.does[c] # "finalize" /\ uid = before[c].uid /\ status = TRUE
  PROVE  Writes(c, By(ApiUpdate(obj[c]), FakeUpdate(obj[c])), uid, status)
<1> DEFINE o == obj[c]
<1>1. CASE stored = None \/ o.rv # stored.rv
  <2>1. By(ApiUpdate(o), FakeUpdate(o)) = Answer(stored, FALSE)
    BY <1>1, Zenon DEF By, ApiUpdate, FakeUpdate
  <2> QED BY <2>1, FailureWrites, Zenon
<1>2. CASE stored # None /\ o.rv = stored.rv
  <2>1. before[c] = stored /\ Writable(o) /\ o.status = stored.status /\ o.deleting = stored.deleting
        /\ (config.does[c] # "finalize" => Holds(c, o, TRUE))
    BY <1>2, UpdateFromStored, Zenon
  <2>2. stored \in Objects /\ o \in Objects /\ config.server \in Servers /\ births \in Nat
        /\ stored.uid = births /\ settled[c].uid <= births
        /\ (Settled(c) => Holds(c, stored, settled[c].status))
    BY <1>2, ConfigFacts, Zenon DEF IInv, TypeOK
  <2> HIDE DEF o
  <2>3. \E t : By(ApiUpdate(o), FakeUpdate(o)) = Answer(t, TRUE) /\ Changes(t)
               /\ (t # None => Grown(t) /\ SameBut(o, t))
    <3>1. CASE config.server = "api"
      <4>1. [o EXCEPT !.status = stored.status, !.deleting = stored.deleting] = o
        BY <2>1, <2>2, UnchangedRecord, Zenon
      <4>2. ApiUpdate(o) = Answer(Kept(o), TRUE)
        BY <1>2, <4>1 DEF ApiUpdate
      <4> QED BY <2>1, <3>1, <4>2, KeptFacts, Zenon DEF By
    <3>2. CASE config.server = "fake"
      BY <2>1, <3>2, FakeFacts, Zenon DEF By
    <3> QED BY <2>2, <3>1, <3>2, Zenon DEF Servers
  <2>4. PICK t : By(ApiUpdate(o), FakeUpdate(o)) = Answer(t, TRUE) /\ Changes(t)
                 /\ (t # None => Grown(t) /\ SameBut(o, t))
    BY <2>3, Zenon
  <2>5. uid <= births
    BY <2>1, <2>2, SMTT(30)
  <2>6. ASSUME t # None, uid = t.uid
        PROVE  Holds(c, t, status)
    <3>1. Grown(t) /\ SameBut(o, t) /\ t.uid = births
      BY <2>4, <2>6 DEF Grown
    <3>2. CASE config.does[c] # "finalize"
      BY <2>1, <3>1, <3>2 DEF Holds, SameBut
    <3>3. CASE config.does[c] = "finalize"
      BY <1>2, <2>2, <2>6, <3>1, <3>3, Zenon DEF Settled, Holds, Grown, Within
    <3> QED BY <3>2, <3>3
  <2>7. t # None => t.uid = births
    BY <2>4 DEF Grown
  <2> QED BY <2>4, <2>5, <2>6, <2>7, Zenon DEF Writes, o
<1> QED BY <1>1, <1>2

\* The patch of CreateOrPatch changes the client's own keys only.
LEMMA PatchFacts ==
  ASSUME IInv, NEW c \in Clients, pc[c] = "patch", stored # None
  PROVE  LET p == Patched(stored, Data(before[c], obj[c])) IN
         /\ Writable(p) /\ p.deleting = stored.deleting /\ p.spec = stored.spec \cup {c}
         /\ p.refs = stored.refs /\ p.finalizers = stored.finalizers
         /\ obj[c].status = before[c].status \cup {c}
         /\ p.status = stored.status \cup ({c} \ before[c].status)
<1> DEFINE b == before[c]
           o == obj[c]
           p == Patched(stored, Data(b, o))
<1>1. TypeOK /\ b \in Objects /\ o \in Objects /\ stored \in Objects /\ stored.uid = births
      /\ config.does[c] = "patch" /\ c \notin b.spec /\ o \in mutate(c, b) /\ RefsRight(stored)
  BY Zenon DEF IInv, TypeOK, Working
<1>2. Mutated(c, b, o)
  BY <1>1, MutateFacts DEF Reconciles
<1>3. o.rv = b.rv /\ o.refs = b.refs /\ o.finalizers = b.finalizers /\ o.spec = b.spec \cup {c}
      /\ o.status = b.status \cup {c}
  BY <1>1, <1>2 DEF Mutated
<1>4. /\ p \in Objects /\ p.uid = stored.uid /\ p.deleting = stored.deleting
      /\ p.rv = IF o.rv = b.rv THEN stored.rv ELSE o.rv
      /\ p.spec = (stored.spec \ (b.spec \ o.spec)) \cup (o.spec \ b.spec)
      /\ p.status = (stored.status \ (b.status \ o.status)) \cup (o.status \ b.status)
      /\ p.refs = IF o.refs = b.refs THEN stored.refs ELSE o.refs
      /\ p.finalizers = IF o.finalizers = b.finalizers THEN stored.finalizers ELSE o.finalizers
  BY ONLY <1>1, PatchedFacts, SMTT(40)
<1> HIDE DEF p
<1>5. p.rv = stored.rv /\ p.refs = stored.refs /\ p.finalizers = stored.finalizers
  BY <1>3, <1>4
<1>6. p.spec = stored.spec \cup {c} /\ p.status = stored.status \cup ({c} \ b.status)
  BY <1>1, <1>3, <1>4
<1>7. RefsRight(p) /\ Within(stored, p)
  BY <1>1, <1>5, <1>6, Zenon DEF RefsRight, Within
<1>8. Writable(p)
  BY <1>1, <1>4, <1>5, <1>7 DEF Writable
<1> QED BY <1>3, <1>4, <1>5, <1>6, <1>8 DEF p

\* The API server ignores the status of an object that is not written through
\* the status endpoint.
LEMMA StatusKept ==
  ASSUME NEW p, Writable(p), stored \in Objects, p.deleting = stored.deleting
  PROVE  LET q == [p EXCEPT !.status = stored.status, !.deleting = stored.deleting] IN
         /\ Writable(q) /\ q.spec = p.spec /\ q.refs = p.refs /\ q.finalizers = p.finalizers
         /\ q.status = stored.status
<1> DEFINE q == [p EXCEPT !.status = stored.status, !.deleting = stored.deleting]
<1>1. q \in Objects /\ q.rv = p.rv /\ q.uid = p.uid /\ q.spec = p.spec /\ q.refs = p.refs
      /\ q.finalizers = p.finalizers /\ q.status = stored.status /\ q.deleting = p.deleting
  BY Zenon DEF Writable, Objects
<1> HIDE DEF q
<1>2. RefsRight(q) /\ Within(stored, q)
  BY <1>1, SMTT(30) DEF Writable, RefsRight, Within
<1>3. Writable(q)
  BY <1>1, <1>2 DEF Writable
<1> QED BY <1>1, <1>3 DEF q

\* Patch: what the server answers.
Patches(c, t, ok) ==
  /\ Changes(t)
  /\ ok /\ t # None =>
       /\ stored # None /\ Grown(t) /\ c \in t.spec
       /\ t.refs = stored.refs /\ t.finalizers = stored.finalizers

\* The first patch of CreateOrPatch is answered so by both servers.
LEMMA PatchAnswer ==
  ASSUME IInv, NEW c \in Clients, pc[c] = "patch"
  PROVE  LET d == Data(before[c], obj[c])
         IN  \E t, ok : By(ApiPatch(d), FakePatch(d)) = Answer(t, ok) /\ Patches(c, t, ok)
<1> DEFINE d == Data(before[c], obj[c])
           p == Patched(stored, d)
<1>1. config.server \in Servers
  BY ConfigFacts, Zenon DEF IInv
<1>2. CASE stored = None
  <2>1. By(ApiPatch(d), FakePatch(d)) = Answer(stored, FALSE)
    BY <1>2 DEF By, ApiPatch, FakePatch
  <2>2. Patches(c, stored, FALSE)
    BY DEF Patches, Changes
  <2> QED BY <2>1, <2>2, Zenon
<1>3. CASE stored # None
  <2>1. /\ Writable(p) /\ p.deleting = stored.deleting /\ p.spec = stored.spec \cup {c}
        /\ p.refs = stored.refs /\ p.finalizers = stored.finalizers
    BY <1>3, PatchFacts
  <2>2. p.rv = stored.rv /\ stored \in Objects
    BY <1>3, <2>1, Zenon DEF Writable, IInv, TypeOK
  <2>3. CASE config.server = "api"
    <3> DEFINE q == [p EXCEPT !.status = stored.status, !.deleting = stored.deleting]
    <3>1. ApiPatch(d) = Answer(Kept(q), TRUE)
      BY <1>3, <2>2 DEF ApiPatch, ApiUpdate
    <3> HIDE DEF p
    <3>2. Writable(q) /\ q.spec = p.spec /\ q.refs = p.refs /\ q.finalizers = p.finalizers
      BY <2>1, <2>2, StatusKept, Zenon
    <3> HIDE DEF q
    <3>3. Changes(Kept(q)) /\ (Kept(q) # None => Grown(Kept(q)) /\ SameBut(q, Kept(q)))
      BY <2>3, <3>2, KeptFacts
    <3>4. Patches(c, Kept(q), TRUE)
      BY <1>3, <2>1, <3>2, <3>3 DEF Patches, SameBut
    <3> HIDE DEF d
    <3>5. By(ApiPatch(d), FakePatch(d)) = Answer(Kept(q), TRUE)
      BY <2>3, <3>1 DEF By
    <3> QED BY <3>4, <3>5, Zenon DEF d
  <2>4. CASE config.server = "fake"
    <3>1. FakePatch(d) = FakeUpdate(p)
      BY <1>3 DEF FakePatch
    <3> HIDE DEF p, d
    <3>2. PICK t : /\ FakeUpdate(p) = Answer(t, TRUE) /\ Changes(t)
                   /\ t # None => Grown(t) /\ SameBut(p, t)
      BY <2>1, <2>4, FakeFacts, Zenon
    <3>3. Patches(c, t, TRUE)
      BY <1>3, <2>1, <3>2 DEF Patches, SameBut
    <3>4. By(ApiPatch(d), FakePatch(d)) = Answer(t, TRUE)
      BY <2>4, <3>1, <3>2 DEF By
    <3> QED BY <3>3, <3>4, Zenon DEF d
  <2> QED BY <1>1, <2>3, <2>4 DEF Servers
<1> QED BY <1>2, <1>3

\* Patch, when the status needs no patch.
LEMMA PatchWrites ==
  ASSUME IInv, NEW c \in Clients, pc[c] = "patch", NEW status,
         status => obj[c].status = before[c].status
  PROVE  LET d == Data(before[c], obj[c])
         IN  Writes(c, By(ApiPatch(d), FakePatch(d)), before[c].uid, status)
<1> DEFINE d == Data(before[c], obj[c])
<1>1. PICK t, ok : By(ApiPatch(d), FakePatch(d)) = Answer(t, ok) /\ Patches(c, t, ok)
  BY PatchAnswer
<1> HIDE DEF d
<1>2. Seen(before[c]) /\ before[c].uid <= births /\ config.does[c] = "patch"
      /\ before[c] \in Objects /\ obj[c] \in mutate(c, before[c]) /\ TypeOK
  BY Zenon DEF IInv, Seen, Working
<1>3. obj[c].status = before[c].status \cup {c}
  <2>1. Mutated(c, before[c], obj[c])
    BY <1>2, MutateFacts DEF Reconciles
  <2> QED BY <1>2, <2>1 DEF Mutated
<1>4. ASSUME ok, t # None
      PROVE  before[c].uid <= t.uid /\ (before[c].uid = t.uid => Holds(c, t, status))
  <2>1. Grown(t) /\ t.uid = births /\ c \in t.spec /\ stored # None /\ Within(stored, t)
    BY <1>1, <1>4 DEF Patches, Grown
  <2>2. ASSUME before[c].uid = t.uid
        PROVE  Holds(c, t, status)
    <3>1. Within(before[c], stored)
      BY <1>2, <2>1, <2>2 DEF Seen
    <3>2. status => c \in t.status
      BY <1>3, <2>1, <3>1, Zenon DEF Within
    <3> QED BY <1>2, <2>1, <3>2 DEF Holds
  <2> QED BY <1>2, <2>1, <2>2
<1>5. Writes(c, By(ApiPatch(d), FakePatch(d)), before[c].uid, status)
  BY <1>1, <1>2, <1>4, SMTT(30) DEF Writes, Patches
<1> QED BY <1>5 DEF d

\* The patch of the status, and of nothing else.
LEMMA StatusPatchFacts ==
  ASSUME IInv, NEW c \in Clients, pc[c] = "statusPatch", stored # None
  PROVE  LET p == Patched(stored, Data(before[c], obj[c])) IN
         /\ p.status = stored.status \cup ({c} \ before[c].status)
         /\ config.server = "fake" => Writable(p) /\ p.spec = stored.spec
<1> DEFINE b == before[c]
           o == obj[c]
           p == Patched(stored, Data(b, o))
<1>1. TypeOK /\ b \in Objects /\ o \in Objects /\ stored \in Objects /\ stored.uid = births
      /\ o.status = b.status \cup {c} /\ RefsRight(stored)
  BY Zenon DEF IInv, TypeOK, Working
<1>2. /\ p \in Objects /\ p.uid = stored.uid /\ p.deleting = stored.deleting
      /\ p.rv = IF o.rv = b.rv THEN stored.rv ELSE o.rv
      /\ p.spec = (stored.spec \ (b.spec \ o.spec)) \cup (o.spec \ b.spec)
      /\ p.status = (stored.status \ (b.status \ o.status)) \cup (o.status \ b.status)
      /\ p.refs = IF o.refs = b.refs THEN stored.refs ELSE o.refs
      /\ p.finalizers = IF o.finalizers = b.finalizers THEN stored.finalizers ELSE o.finalizers
  BY ONLY <1>1, PatchedFacts, SMTT(40)
<1> HIDE DEF p
<1>3. p.status = stored.status \cup ({c} \ b.status)
  BY <1>1, <1>2
<1>4. ASSUME config.server = "fake"
      PROVE  Writable(p) /\ p.spec = stored.spec
  <2>1. Alone(c)
    BY <1>4, Zenon DEF IInv
  <2>2. o = [stored EXCEPT !.status = o.status] /\ b.refs = stored.refs
        /\ b.finalizers = stored.finalizers /\ b.spec \subseteq stored.spec
    BY <2>1 DEF Alone
  <2>3. o.rv = stored.rv /\ o.refs = stored.refs /\ o.spec = stored.spec
        /\ o.finalizers = stored.finalizers
    <3> DEFINE z == [stored EXCEPT !.status = o.status]
    <3>1. z.rv = stored.rv /\ z.refs = stored.refs /\ z.spec = stored.spec
          /\ z.finalizers = stored.finalizers
      BY <1>1 DEF Objects
    <3>2. o = z
      BY <2>2
    <3> HIDE DEF z
    <3> QED BY <3>1, <3>2
  <2>4. p.rv = stored.rv /\ p.refs = stored.refs /\ p.finalizers = stored.finalizers
    BY <1>2, <2>2, <2>3
  <2>5. p.spec = stored.spec
    BY <1>2, <2>2, <2>3
  <2>6. RefsRight(p) /\ Within(stored, p)
    BY <1>1, <1>3, <2>4, <2>5, Zenon DEF RefsRight, Within
  <2> QED BY <1>1, <1>2, <2>4, <2>5, <2>6 DEF Writable
<1> QED BY <1>3, <1>4 DEF p

\* The status endpoint changes the status only.
LEMMA StatusWritable ==
  ASSUME IInv, stored # None, NEW s \in SUBSET Clients, stored.status \subseteq s
  PROVE  LET q == [stored EXCEPT !.status = s] IN Writable(q) /\ q.spec = stored.spec /\ q.status = s
<1> DEFINE q == [stored EXCEPT !.status = s]
<1>1. stored \in Objects /\ stored.uid = births /\ RefsRight(stored)
  BY Zenon DEF IInv, TypeOK
<1>2. /\ q \in Objects /\ q.rv = stored.rv /\ q.uid = stored.uid /\ q.spec = stored.spec
      /\ q.status = s /\ q.refs = stored.refs /\ q.finalizers = stored.finalizers
      /\ q.deleting = stored.deleting
  BY <1>1 DEF Objects
<1> HIDE DEF q
<1>3. RefsRight(q) /\ Within(stored, q)
  BY <1>1, <1>2, Zenon DEF RefsRight, Within
<1>4. Writable(q)
  BY <1>1, <1>2, <1>3 DEF Writable
<1> QED BY <1>2, <1>4 DEF q

\* StatusPatch
LEMMA StatusPatchWrites ==
  ASSUME IInv, NEW c \in Clients, pc[c] = "statusPatch"
  PROVE  LET d == Data(before[c], obj[c])
         IN  Writes(c, By(ApiPatchStatus(d), FakePatch(d)), before[c].uid, TRUE)
<1> DEFINE d == Data(before[c], obj[c])
           p == Patched(stored, d)
           a == By(ApiPatchStatus(d), FakePatch(d))
<1>1. TypeOK /\ config.server \in Servers /\ before[c] \in Objects /\ obj[c] \in Objects /\ births \in Nat
      /\ Seen(before[c]) /\ before[c].uid <= births /\ config.does[c] = "patch"
  BY ConfigFacts, Zenon DEF IInv, TypeOK, Seen, Working
<1>2. CASE a = Answer(stored, FALSE)
  BY <1>2, FailureWrites, Zenon
<1>3. ASSUME stored # None, NEW t, a = Answer(t, TRUE), Changes(t),
             t # None => Grown(t) /\ t.status = stored.status \cup ({c} \ before[c].status)
      PROVE  Writes(c, a, before[c].uid, TRUE)
  <2>1. ASSUME t # None
        PROVE  t.uid = births /\ (before[c].uid = t.uid => Holds(c, t, TRUE))
    <3>1. Grown(t) /\ t.uid = births /\ Within(stored, t)
      BY <1>3, <2>1 DEF Grown
    <3>2. ASSUME before[c].uid = births
          PROVE  c \in t.spec /\ c \in t.status
      <4>1. Within(before[c], stored)
        BY <1>1, <1>3, <3>2 DEF Seen
      <4>2. c \in t.status
        BY <1>3, <2>1, <3>1, <4>1, Zenon DEF Within
      <4>3. c \in obj[c].spec /\ obj[c].uid = births
        <5>1. c \in obj[c].spec /\ before[c].uid <= obj[c].uid /\ obj[c].uid <= births
              /\ obj[c].uid \in Nat
          BY <1>1, Zenon DEF IInv, Working, Objects
        <5> QED BY <1>1, <3>2, <5>1
      <4>4. c \in stored.spec
        BY <1>3, <4>3, Zenon DEF IInv, Working
      <4> QED BY <3>1, <4>2, <4>4, Zenon DEF Within
    <3> QED BY <1>1, <3>1, <3>2 DEF Holds
  <2> HIDE DEF a
  <2> QED BY <1>1, <1>3, <2>1, Zenon DEF Writes
<1>4. CASE stored = None
  BY <1>2, <1>4, Zenon DEF By, ApiPatchStatus, FakePatch
<1>5. CASE stored # None
  <2>1. p.status = stored.status \cup ({c} \ before[c].status)
        /\ (config.server = "fake" => Writable(p))
    BY <1>5, StatusPatchFacts
  <2>2. CASE config.server = "api"
    <3>1. CASE ~(d.rv \subseteq {stored.rv})
      BY <1>2, <2>2, <3>1, Zenon DEF By, ApiPatchStatus
    <3>2. CASE d.rv \subseteq {stored.rv}
      <4> DEFINE q == [stored EXCEPT !.status = p.status]
                 t == [q EXCEPT !.rv = version + 1]
      <4>1. a = Answer(t, TRUE)
        BY <1>5, <2>2, <3>2, Zenon DEF By, ApiPatchStatus, Versioned
      <4> HIDE DEF a, d, p
      <4>2. p.status \in SUBSET Clients /\ stored.status \subseteq p.status
        BY <1>5, <2>1, Zenon DEF IInv, TypeOK, Objects
      <4>3. Writable(q) /\ q.status = p.status
        BY <1>5, <4>2, StatusWritable
      <4> HIDE DEF q
      <4>4. t # None /\ SameBut(q, t) /\ Grown(t)
        <5>1. version + 1 \in Nat /\ version + 1 > 0 /\ version + 1 <= version + 1
              /\ version + 1 # stored.rv
          <6>1. version \in Nat /\ stored.rv \in Nat /\ stored.rv <= version
            BY <1>5, Zenon DEF IInv, TypeOK, Objects
          <6> QED BY <6>1
        <5> QED BY <4>3, <5>1, NewVersion
      <4> HIDE DEF t
      <4>5. Changes(t) /\ t.status = p.status
        BY <4>3, <4>4 DEF Changes, SameBut
      <4>6. Writes(c, a, before[c].uid, TRUE)
        BY <1>3, <1>5, <2>1, <4>1, <4>4, <4>5, Zenon
      <4> QED BY <4>6, Zenon DEF a, d
    <3> QED BY <3>1, <3>2, Zenon
  <2>3. CASE config.server = "fake"
    <3>1. a = FakeUpdate(p)
      BY <1>5, <2>3 DEF By, FakePatch
    <3> HIDE DEF a, d, p
    <3>2. PICK t : /\ FakeUpdate(p) = Answer(t, TRUE) /\ Changes(t)
                   /\ t # None => Grown(t) /\ SameBut(p, t)
      BY <2>1, <2>3, FakeFacts, Zenon
    <3>3. t # None => Grown(t) /\ t.status = p.status
      BY <3>2 DEF SameBut
    <3>4. Writes(c, a, before[c].uid, TRUE)
      BY <1>3, <1>5, <2>1, <3>1, <3>2, <3>3, Zenon
    <3> QED BY <3>4, Zenon DEF a, d
  <2> QED BY <1>1, <2>2, <2>3, Zenon DEF Servers
<1> QED BY <1>4, <1>5, Zenon

\* Delete
LEMMA DeleteChanges ==
  ASSUME IInv
  PROVE  \E t, ok : By(ApiDelete, FakeDelete) = Answer(t, ok) /\ Changes(t)
<1>1. config.server \in Servers
  BY ConfigFacts, Zenon DEF IInv
<1>2. CASE stored = None
  BY <1>2, Zenon DEF By, ApiDelete, FakeDelete, Changes
<1>3. CASE stored # None
  <2> DEFINE p == [stored EXCEPT !.deleting = TRUE]
  <2>1. Writable(p) /\ p.finalizers = stored.finalizers
    <3>1. stored \in Objects /\ stored.uid = births /\ RefsRight(stored)
      BY <1>3, Zenon DEF IInv, TypeOK
    <3>2. /\ p \in Objects /\ p.rv = stored.rv /\ p.uid = stored.uid /\ p.spec = stored.spec
          /\ p.status = stored.status /\ p.refs = stored.refs /\ p.finalizers = stored.finalizers
          /\ p.deleting = TRUE
      BY <3>1, Zenon DEF Objects
    <3> HIDE DEF p
    <3>3. RefsRight(p) /\ Within(stored, p)
      BY <3>1, <3>2, Zenon DEF RefsRight, Within
    <3> QED BY <1>3, <3>1, <3>2, <3>3 DEF Writable
  <2>2. CASE config.server = "api"
    <3>1. CASE stored.deleting
      BY <1>3, <2>2, <3>1, Zenon DEF By, ApiDelete, Changes
    <3>2. CASE ~stored.deleting
      <4>1. By(ApiDelete, FakeDelete) = Answer(Kept(p), TRUE)
        BY <1>3, <2>2, <3>2 DEF By, ApiDelete
      <4> HIDE DEF p
      <4> QED BY <2>1, <2>2, <4>1, KeptFacts, Zenon
    <3> QED BY <3>1, <3>2
  <2>3. CASE config.server = "fake"
    <3>1. CASE stored.finalizers # {}
      <4>1. By(ApiDelete, FakeDelete) = FakeUpdate(p)
        BY <1>3, <2>3, <3>1 DEF By, FakeDelete
      <4> HIDE DEF p
      <4> QED BY <2>1, <2>3, <4>1, FakeFacts, Zenon
    <3>2. CASE stored.finalizers = {}
      BY <1>3, <2>3, <3>2, Zenon DEF By, FakeDelete, Changes, Released
    <3> QED BY <3>1, <3>2
  <2> QED BY <1>1, <2>2, <2>3 DEF Servers
<1> QED BY <1>2, <1>3


-----------------------------------------------------------------------------
(* The inductive step                                                       *)

\* An object that is yet to be created is a copy of any object.
LEMMA NewSeen ==
  ASSUME births \in Nat, version \in Nat, stored # None => births > 0 /\ stored.rv > 0
  PROVE  Seen(New)
<1>1. New \in Objects /\ New.uid = 0 /\ New.rv = 0 /\ \A c \in Clients : New.refs[c] = "none"
  BY NewFacts
<1>2. RefsRight(New)
  BY <1>1, Zenon DEF RefsRight
<1> QED BY <1>1, <1>2 DEF Seen

\* A client goes on, and the invariant holds for it.
Resumes(c, step) ==
  /\ pc' = [pc EXCEPT ![c] = step]
  /\ before' \in [Clients -> Objects] /\ obj' \in [Clients -> Objects]
  /\ \A d \in Clients \ {c} : before'[d] = before[d] /\ obj'[d] = obj[d]
  /\ Seen(before[c])' /\ Working(c)' /\ (config.server = "fake" => Alone(c)')
  /\ settled' \in [Clients -> [uid : Nat, status : BOOLEAN]]
  /\ \A d \in Clients \ {c} : settled'[d] = settled[d]
  /\ settled'[c].uid <= births' /\ (Settled(c)' => Holds(c, stored, settled[c].status)')

\* A client makes a call and goes on.
LEMMA CallKeeps ==
  ASSUME IInv, NEW t, NEW ok, Stores(Answer(t, ok)), Changes(t),
         UNCHANGED <<config, cached, runs, cleaned>>,
         NEW c \in Clients, pc[c] # "idle",
         NEW step \in {"idle", "statusPatch"},
         Resumes(c, step)
  PROVE  IInv' /\ FinalizersStep
<1>1. TypeOK
  BY Zenon DEF IInv
<1> USE DEF Resumes
<1>2. pc' \in [Clients -> {"idle", "create", "update", "patch", "statusPatch"}]
      /\ \A d \in Clients \ {c} : pc'[d] = pc[d]
  BY <1>1, Zenon DEF TypeOK
<1>3. TypeOK'
  BY <1>1, <1>2, StoresKeepsObject, Zenon DEF TypeOK
<1>4. (stored # None => stored.rv <= version /\ births > 0 /\ RefsRight(stored))'
  BY StoresKeepsObject
<1>5. CarriedRun'
  BY StoresKeepsObject
<1>6. (cached # None => Seen(cached))'
  BY StoresKeepsSeen, Zenon DEF IInv
<1>7. ASSUME NEW d \in Clients \ {c}
      PROVE  Seen(before[d])' /\ Working(d)'
  <2>1. Seen(before[d])
    BY Zenon DEF IInv
  <2>2. Seen(before[d])'
    BY <2>1, StoresKeepsSeen
  <2>3. Working(d)'
    BY <1>2, StoresKeepsWorking
  <2> QED BY <2>2, <2>3
<1>8. (config.server = "fake" => \A d \in Clients : Alone(d))'
  <2> SUFFICES ASSUME config.server = "fake", NEW d \in Clients \ {c}
               PROVE  Alone(d)'
    OBVIOUS
  <2>1. pc[d] = "idle"
    <3>1. Alone(c)
      BY Zenon DEF IInv
    <3> QED BY <3>1 DEF Alone
  <2>2. pc'[d] = "idle"
    BY <1>2, <2>1
  <2> QED BY <2>2 DEF Alone
<1>9. ASSUME NEW d \in Clients \ {c}
      PROVE  settled'[d].uid <= births' /\ (Settled(d)' => Holds(d, stored, settled[d].status)')
  BY StoresKeepsSettled
<1>10. IInv'
  BY <1>3, <1>4, <1>5, <1>6, <1>7, <1>8, <1>9, Zenon DEF IInv
<1>11. FinalizersStep
  BY StoresRunsFinalizers
<1> QED BY <1>10, <1>11

\* It is the last call of its run.
LEMMA LastCallKeeps ==
  ASSUME IInv, NEW c \in Clients, pc[c] # "idle", NEW a, NEW uid \in Nat, NEW status \in BOOLEAN,
         Writes(c, a, uid, status), LastCall(c, a, uid, status)
  PROVE  IInv' /\ FinalizersStep
<1>1. PICK t, ok : /\ a = Answer(t, ok) /\ Changes(t)
                   /\ ok /\ t = None => uid <= births
                   /\ ok /\ t # None => uid <= t.uid /\ (uid = t.uid => Holds(c, t, status))
  BY DEF Writes
<1>2. a.ok = ok /\ Stores(Answer(t, ok)) /\ UNCHANGED <<config, cached, runs, cleaned>>
  BY <1>1 DEF LastCall, Answer
<1>3. TypeOK
  BY Zenon DEF IInv
<1>4. New \in Objects
  BY NewFacts
<1>5. pc' = [pc EXCEPT ![c] = "idle"] /\ before' = [before EXCEPT ![c] = New]
      /\ obj' = [obj EXCEPT ![c] = New]
  BY DEF LastCall, Goes
<1>6. before' \in [Clients -> Objects] /\ obj' \in [Clients -> Objects] /\ before'[c] = New
      /\ pc'[c] = "idle" /\ \A d \in Clients \ {c} : before'[d] = before[d] /\ obj'[d] = obj[d]
  BY <1>3, <1>4, <1>5, Zenon DEF TypeOK
<1>7. stored' = t /\ births' \in Nat /\ version' \in Nat
      /\ (stored' # None => stored'.uid = births' /\ stored'.rv > 0 /\ births' > 0)
      /\ births \in Nat /\ births <= births'
  <2>1. stored' = t
    BY <1>1, <1>2, StoresFacts
  <2> QED BY <1>1, <1>2, <1>3, <2>1, StoresKeepsObject, Zenon DEF TypeOK
<1>8. Seen(before[c])'
  <2>1. ASSUME NEW n, n = New
        PROVE  Seen(n)'
    <3>1. n \in Objects /\ n.uid = 0 /\ n.rv = 0 /\ \A d \in Clients : n.refs[d] = "none"
      BY <2>1, NewFacts
    <3>2. RefsRight(n)'
      BY <3>1, Zenon DEF RefsRight
    <3>3. ~(stored' # None /\ n.uid = births') /\ ~(stored' # None /\ n.rv = stored'.rv)
      BY <1>7, <3>1
    <3>4. n.uid <= births' /\ n.rv <= version'
      BY <1>7, <3>1
    <3> QED BY <3>1, <3>2, <3>3, <3>4 DEF Seen
  <2> QED BY <1>6, <2>1
<1>9. Working(c)' /\ Alone(c)'
  BY <1>6, Zenon DEF Working, Alone
<1>10. CASE settled' = settled
  <2>1. settled'[c].uid <= births' /\ (Settled(c)' => Holds(c, stored, settled[c].status)')
    BY <1>1, <1>2, <1>10, StoresKeepsSettled
  <2>2. settled' \in [Clients -> [uid : Nat, status : BOOLEAN]]
    BY <1>3, <1>10, Zenon DEF TypeOK
  <2>3. Resumes(c, "idle")
    BY <1>5, <1>6, <1>8, <1>9, <1>10, <2>1, <2>2 DEF Resumes
  <2> QED BY <1>1, <1>2, <2>3, CallKeeps
<1>11. CASE ok /\ settled' = [settled EXCEPT ![c] = [uid |-> uid, status |-> status]]
  <2>1. settled' \in [Clients -> [uid : Nat, status : BOOLEAN]]
        /\ settled'[c].uid = uid /\ settled'[c].status = status
        /\ \A d \in Clients \ {c} : settled'[d] = settled[d]
    BY <1>3, <1>11, Zenon DEF TypeOK
  <2>2. settled'[c].uid <= births'
    BY <1>1, <1>7, <1>11, <2>1
  <2>3. Settled(c)' => Holds(c, stored, settled[c].status)'
    <3>1. Settled(c)' => Holds(c, t, status)
      BY <1>1, <1>7, <1>11, <2>1 DEF Settled
    <3> QED BY <1>2, <1>7, <2>1, <3>1 DEF Holds, RefOf
  <2>4. Resumes(c, "idle")
    BY <1>5, <1>6, <1>8, <1>9, <2>1, <2>2, <2>3 DEF Resumes
  <2> QED BY <1>1, <1>2, <2>4, CallKeeps
<1> QED BY <1>2, <1>10, <1>11 DEF LastCall, Succeeds

\* The first patch went through, and the status is next.
LEMMA PatchGoesOn ==
  ASSUME IInv, NEW c \in Clients, pc[c] = "patch", NEW t, NEW ok, ok, t # None, Patches(c, t, ok),
         Stores(Answer(t, ok)), UNCHANGED <<config, cached, runs, cleaned, settled>>,
         Goes(c, "statusPatch", before[c], [t EXCEPT !.status = obj[c].status])
  PROVE  IInv' /\ FinalizersStep
<1> DEFINE o == [t EXCEPT !.status = obj[c].status]
<1>1. TypeOK /\ Changes(t) /\ stored # None /\ Grown(t) /\ c \in t.spec /\ t.refs = stored.refs
      /\ t.finalizers = stored.finalizers
  BY Zenon DEF IInv, Patches
<1>2. t \in Objects /\ t.uid = births /\ RefsRight(t) /\ Within(stored, t)
  BY <1>1 DEF Grown, Numbered
<1>3. obj[c].status = before[c].status \cup {c}
  BY <1>1, PatchFacts
<1>4. o \in Objects /\ o.uid = t.uid /\ o.spec = t.spec /\ o.refs = t.refs /\ o.status = obj[c].status
  BY <1>1, <1>2, Zenon DEF TypeOK, Objects
<1>5. pc' = [pc EXCEPT ![c] = "statusPatch"] /\ before' = before /\ obj' = [obj EXCEPT ![c] = o]
  BY <1>1, Zenon DEF Goes, TypeOK
<1>6. obj' \in [Clients -> Objects] /\ obj'[c] = o /\ pc'[c] = "statusPatch"
      /\ \A d \in Clients \ {c} : obj'[d] = obj[d] /\ pc'[d] = pc[d]
  BY <1>1, <1>4, <1>5, Zenon DEF TypeOK
<1>7. stored' = t /\ births' = births
  BY <1>1, StoresFacts, Zenon
<1>8. Seen(before[c])'
  <2>1. Seen(before[c])
    BY Zenon DEF IInv
  <2> QED BY <1>1, <1>5, <2>1, StoresKeepsSeen, Zenon
<1>9. Alone(c)' \/ config.server # "fake"
  <2> SUFFICES ASSUME config.server = "fake"
               PROVE  Alone(c)'
    OBVIOUS
  <2>1. before[c] = stored /\ \A d \in Clients \ {c} : pc[d] = "idle"
    <3>1. Alone(c)
      BY Zenon DEF IInv
    <3> QED BY <3>1 DEF Alone
  <2>2. stored.uid = births
    BY <1>1, Zenon DEF IInv, TypeOK
  <2>3. obj'[c] = [stored' EXCEPT !.status = obj'[c].status]
    <3>1. obj'[c].status = obj[c].status
      BY <1>4, <1>6
    <3> QED BY <1>6, <1>7, <3>1
  <2> HIDE DEF o
  <2>4. stored'.uid = before'[c].uid /\ stored'.refs = before'[c].refs
        /\ stored'.finalizers = before'[c].finalizers
        /\ before'[c].spec \subseteq stored'.spec /\ before'[c].status \subseteq stored'.status
    BY <1>1, <1>2, <1>5, <1>7, <2>1, <2>2, Zenon DEF Within
  <2> QED BY <1>6, <1>7, <2>1, <2>3, <2>4 DEF Alone
<1> HIDE DEF o
<1>10. Working(c)'
  <2>1. config.does[c] = "patch" /\ before[c].uid <= births
    BY Zenon DEF IInv, Working, Seen
  <2>2. obj'[c] \in Objects /\ obj'[c].uid = births /\ obj'[c].spec = t.spec /\ obj'[c].refs = t.refs
        /\ obj'[c].status = before[c].status \cup {c}
    BY <1>2, <1>3, <1>4, <1>6
  <2>3. RefsRight(obj[c])'
    BY <1>2, <2>2, Zenon DEF RefsRight, RefOf
  <2>4. births \in Nat
    BY <1>1, Zenon DEF TypeOK
  <2>5. (/\ config.does[c] = "patch"
         /\ obj[c] \in Objects /\ RefsRight(obj[c]) /\ c \in obj[c].spec
         /\ obj[c].status = before[c].status \cup {c}
         /\ before[c].uid <= obj[c].uid /\ obj[c].uid <= births
         /\ stored # None /\ obj[c].uid = births => obj[c].spec \subseteq stored.spec)'
    BY <1>1, <1>5, <1>7, <2>1, <2>2, <2>3, <2>4
  <2> QED BY <1>6, <2>5, Zenon DEF Working
<1>11. settled'[c].uid <= births' /\ (Settled(c)' => Holds(c, stored, settled[c].status)')
  BY <1>1, StoresKeepsSettled, Zenon
<1>12. Resumes(c, "statusPatch")
  BY <1>1, <1>5, <1>6, <1>8, <1>9, <1>10, <1>11, Zenon DEF Resumes, TypeOK
<1> QED BY <1>1, <1>12, CallKeeps, Zenon

\* The first patch went through, and the answer is lost.
LEMMA PatchLost ==
  ASSUME IInv, NEW c \in Clients, pc[c] = "patch", NEW t, NEW ok, Patches(c, t, ok),
         Stores(Answer(t, ok)), UNCHANGED <<config, cached, runs, cleaned, settled>>,
         Goes(c, "idle", New, New), AnswerLost
  PROVE  IInv' /\ FinalizersStep
<1> DEFINE a == Answer(t, ok)
<1>1. Changes(t)
  BY DEF Patches
<1>2. LastCall(c, Answer(t, FALSE), 0, FALSE)
  <2>1. Stores(Answer(t, FALSE))
    BY DEF Stores, Answer
  <2> QED BY <2>1 DEF LastCall, Answer
<1>3. Writes(c, Answer(t, FALSE), 0, FALSE)
  BY <1>1, Zenon DEF Writes
<1> QED BY <1>2, <1>3, LastCallKeeps, Zenon

\* The steps of the clients that write: Create, Update, Patch and StatusPatch.
LEMMA CallsKeep ==
  ASSUME IInv, NEW c \in Clients,
         Create(c) \/ Update(c) \/ Patch(c) \/ StatusPatch(c)
  PROVE  IInv' /\ FinalizersStep
<1>1. TypeOK /\ births \in Nat /\ before[c].uid \in Nat /\ settled[c].uid \in Nat
      /\ settled[c].status \in BOOLEAN
  BY Zenon DEF IInv, TypeOK, Objects
<1>2. CASE Create(c)
  <2>1. births + 1 \in Nat /\ (config.server = "fake") \in BOOLEAN
    BY ONLY <1>1
  <2> QED BY <1>2, <2>1, CreateWrites, LastCallKeeps, Zenon DEF Create
<1>3. CASE Update(c)
  <2> DEFINE a == By(ApiUpdate(obj[c]), FakeUpdate(obj[c]))
  <2>1. CASE config.does[c] = "finalize"
    <3>1. pc[c] = "update" /\ LastCall(c, a, settled[c].uid, settled[c].status)
      BY <1>3, <2>1 DEF Update
    <3>2. Writes(c, a, settled[c].uid, settled[c].status)
      BY <2>1, <3>1, UpdateWrites, Zenon
    <3> HIDE DEF a
    <3> QED BY <1>1, <3>1, <3>2, LastCallKeeps
  <2>2. CASE config.does[c] # "finalize"
    <3>1. pc[c] = "update" /\ LastCall(c, a, before[c].uid, TRUE)
      BY <1>3, <2>2, Zenon DEF Update
    <3>2. Writes(c, a, before[c].uid, TRUE)
      BY <2>2, <3>1, UpdateWrites, Zenon
    <3> HIDE DEF a
    <3> QED BY <1>1, <3>1, <3>2, LastCallKeeps, Zenon
  <2> QED BY <2>1, <2>2
<1>4. CASE Patch(c)
  <2> DEFINE d == Data(before[c], obj[c])
             a == By(ApiPatch(d), FakePatch(d))
             more == obj[c].status # before[c].status
  <2>1. pc[c] = "patch"
    BY <1>4 DEF Patch
  <2>2. \/ ~more /\ LastCall(c, a, before[c].uid, TRUE)
        \/ LastCall(c, a, before[c].uid, FALSE)
        \/ /\ a.ok /\ a.stored # None /\ Stores(a)
           /\ \/ Goes(c, "statusPatch", before[c], [a.stored EXCEPT !.status = obj[c].status])
              \/ AnswerLost /\ Goes(c, "idle", New, New)
           /\ UNCHANGED <<config, cached, runs, cleaned, settled>>
    BY <1>4, Zenon DEF Patch
  <2>3. Writes(c, a, before[c].uid, FALSE) /\ (~more => Writes(c, a, before[c].uid, TRUE))
    BY <2>1, PatchWrites, Zenon
  <2>4. PICK t, ok : a = Answer(t, ok) /\ Patches(c, t, ok)
    BY <2>1, PatchAnswer
  <2>5. a.ok = ok /\ a.stored = t
    BY ONLY <2>4, SMTT(30) DEF Answer
  <2> HIDE DEF d, a, more
  <2>6. CASE ~more /\ LastCall(c, a, before[c].uid, TRUE)
    BY <1>1, <2>1, <2>3, <2>6, LastCallKeeps, Zenon
  <2>7. CASE LastCall(c, a, before[c].uid, FALSE)
    BY <1>1, <2>1, <2>3, <2>7, LastCallKeeps, Zenon
  <2>8. CASE a.ok /\ a.stored # None /\ Stores(a)
             /\ Goes(c, "statusPatch", before[c], [a.stored EXCEPT !.status = obj[c].status])
             /\ UNCHANGED <<config, cached, runs, cleaned, settled>>
    BY <2>1, <2>4, <2>5, <2>8, PatchGoesOn, Zenon
  <2>9. CASE Stores(a) /\ AnswerLost /\ Goes(c, "idle", New, New)
             /\ UNCHANGED <<config, cached, runs, cleaned, settled>>
    BY <2>1, <2>4, <2>9, PatchLost
  <2> QED BY <2>2, <2>6, <2>7, <2>8, <2>9, Zenon
<1>5. CASE StatusPatch(c)
  <2> DEFINE d == Data(before[c], obj[c])
             a == By(ApiPatchStatus(d), FakePatch(d))
  <2>1. pc[c] = "statusPatch" /\ LastCall(c, a, before[c].uid, TRUE)
    BY <1>5, Zenon DEF StatusPatch
  <2>2. Writes(c, a, before[c].uid, TRUE)
    BY <2>1, StatusPatchWrites, Zenon
  <2> HIDE DEF d, a
  <2> QED BY <1>1, <2>1, <2>2, LastCallKeeps, Zenon
<1> QED BY <1>2, <1>3, <1>4, <1>5

\* Delete keeps the invariant.
LEMMA DeleteKeeps ==
  ASSUME IInv, NEW c \in Clients, Delete(c)
  PROVE  IInv' /\ FinalizersStep
<1>1. PICK t, ok : By(ApiDelete, FakeDelete) = Answer(t, ok) /\ Changes(t)
  BY DeleteChanges
<1>2. Stores(Answer(t, ok)) /\ UNCHANGED <<config, cached, pc, before, obj, cleaned, settled>>
      /\ runs < MaxRuns /\ runs' = runs + 1
      /\ (config.server = "fake" => \A d \in Clients : pc[d] = "idle")
  BY <1>1 DEF Delete, Begins
<1>3. TypeOK /\ runs' \in 0..MaxRuns
  <2>1. TypeOK /\ runs \in 0..MaxRuns /\ MaxRuns \in Nat
    BY ConstantsAssumption, Zenon DEF IInv, TypeOK
  <2> QED BY ONLY <1>2, <2>1
<1>4. TypeOK'
  BY <1>1, <1>2, <1>3, StoresKeepsObject, Zenon DEF TypeOK
<1>5. (stored # None => stored.rv <= version /\ births > 0 /\ RefsRight(stored))' /\ CarriedRun'
  BY <1>1, <1>2, StoresKeepsObject
<1>6. (cached # None => Seen(cached))'
  BY <1>1, <1>2, StoresKeepsSeen, Zenon DEF IInv
<1>7. ASSUME NEW d \in Clients
      PROVE  Seen(before[d])' /\ Working(d)' /\ (config'.server = "fake" => Alone(d)')
  <2>1. Seen(before[d])
    BY Zenon DEF IInv
  <2>2. Seen(before[d])'
    BY <1>1, <1>2, <2>1, StoresKeepsSeen
  <2>3. Working(d)'
    BY <1>1, <1>2, StoresKeepsWorking
  <2>4. config'.server = "fake" => Alone(d)'
    BY <1>2 DEF Alone
  <2> QED BY <2>2, <2>3, <2>4
<1>8. ASSUME NEW d \in Clients
      PROVE  settled'[d].uid <= births' /\ (Settled(d)' => Holds(d, stored, settled[d].status)')
  BY <1>1, <1>2, StoresKeepsSettled
<1>9. IInv'
  BY <1>4, <1>5, <1>6, <1>7, <1>8, Zenon DEF IInv
<1> QED BY <1>1, <1>2, <1>9, StoresRunsFinalizers

\* While nothing is stored anew, copies are copies, and the clients work on.
LEMMA StillSeen ==
  ASSUME UNCHANGED <<config, stored, version, births>>, NEW o, Seen(o)
  PROVE  Seen(o)'
BY Zenon DEF Seen, RefsRight, RefOf, Within

\* A client that does not move works on while nothing is stored.
LEMMA StillWorking ==
  ASSUME UNCHANGED <<config, stored, version, births>>, cleaned \subseteq cleaned',
         NEW c \in Clients, Working(c), pc'[c] = pc[c], before'[c] = before[c], obj'[c] = obj[c]
  PROVE  Working(c)'
<1>1. \A x : mutate(c, x)' = mutate(c, x)
  BY DEF mutate, SetControllerReference, SetOwnerReference
<1>2. \A o : RefsRight(o)' <=> RefsRight(o)
  BY Zenon DEF RefsRight, RefOf
<1>3. Reconciles(c)' = Reconciles(c)
  BY DEF Reconciles
<1>4. (pc[c] = "create" => Reconciles(c) /\ before[c] = New /\ obj[c] \in mutate(c, New))'
  BY <1>1, <1>3, Zenon DEF Working, New
<1>5. (pc[c] = "patch" => config.does[c] = "patch" /\ c \notin before[c].spec /\ obj[c] \in mutate(c, before[c]))'
  BY <1>1, Zenon DEF Working
<1>6. (pc[c] = "update" =>
           \/ config.does[c] \in {"control", "own"} /\ obj[c] \in mutate(c, before[c])
           \/ /\ config.does[c] = "finalize"
              /\ \E failing \in SUBSET Keys :
                   /\ obj[c] = Finalize(before[c], failing)
                   /\ before[c].deleting =>
                        (before[c].finalizers \ failing) \X {before[c].uid} \subseteq cleaned)'
  <2>1. ASSUME pc[c] = "update", config.does[c] = "finalize",
               NEW failing \in SUBSET Keys, obj[c] = Finalize(before[c], failing),
               before[c].deleting => (before[c].finalizers \ failing) \X {before[c].uid} \subseteq cleaned
        PROVE  /\ obj'[c] = Finalize(before[c], failing)'
               /\ before'[c].deleting =>
                    (before'[c].finalizers \ failing) \X {before'[c].uid} \subseteq cleaned'
    <3>1. obj'[c] = Finalize(before[c], failing)'
      BY <2>1, Zenon DEF Finalize
    <3>2. \A s : s \subseteq cleaned => s \subseteq cleaned'
      BY Zenon
    <3> QED BY <2>1, <3>1, <3>2, Zenon
  <2>2. CASE pc[c] = "update" /\ config.does[c] \in {"control", "own"} /\ obj[c] \in mutate(c, before[c])
    <3>1. obj'[c] \in mutate(c, before[c])'
      BY <1>1, <2>2
    <3> QED BY <2>2, <3>1, Zenon
  <2>3. CASE /\ pc[c] = "update" /\ config.does[c] = "finalize"
             /\ \E failing \in SUBSET Keys :
                  /\ obj[c] = Finalize(before[c], failing)
                  /\ before[c].deleting =>
                       (before[c].finalizers \ failing) \X {before[c].uid} \subseteq cleaned
    <3>1. PICK failing \in SUBSET Keys :
            /\ obj[c] = Finalize(before[c], failing)
            /\ before[c].deleting =>
                 (before[c].finalizers \ failing) \X {before[c].uid} \subseteq cleaned
      BY <2>3, Zenon
    <3> QED BY <2>1, <2>3, <3>1, Zenon
  <2> QED BY <2>2, <2>3, Zenon DEF Working
<1>7. pc[c] = "statusPatch" =>
        (/\ config.does[c] = "patch"
         /\ obj[c] \in Objects /\ RefsRight(obj[c]) /\ c \in obj[c].spec
         /\ obj[c].status = before[c].status \cup {c}
         /\ before[c].uid <= obj[c].uid /\ obj[c].uid <= births
         /\ stored # None /\ obj[c].uid = births => obj[c].spec \subseteq stored.spec)'
  BY <1>2, Zenon DEF Working
<1> QED BY <1>4, <1>5, <1>6, <1>7, Zenon DEF Working

\* A client begins, and the invariant holds for it.
LEMMA BeginKeeps ==
  ASSUME IInv, NEW c \in Clients, Begins(c),
         UNCHANGED <<config, stored, version, births, cached, carried>>,
         cleaned \subseteq cleaned', cleaned' \subseteq Keys \X Nat,
         NEW step \in {"idle", "create", "update", "patch", "statusPatch"}, Resumes(c, step)
  PROVE  IInv' /\ FinalizersStep
<1>1. runs < MaxRuns /\ runs' = runs + 1 /\ (config.server = "fake" => \A d \in Clients : pc[d] = "idle")
  BY DEF Begins
<1>2. TypeOK /\ runs' \in 0..MaxRuns
  <2>1. TypeOK /\ runs \in 0..MaxRuns /\ MaxRuns \in Nat
    BY ConstantsAssumption, Zenon DEF IInv, TypeOK
  <2> QED BY ONLY <1>1, <2>1
<1>3. TypeOK' /\ \A d \in Clients \ {c} : pc'[d] = pc[d]
  BY <1>2, Zenon DEF TypeOK, Resumes
<1>4. (stored # None => stored.rv <= version /\ births > 0 /\ RefsRight(stored))'
  BY Zenon DEF IInv, RefsRight, RefOf
<1>5. CarriedRun'
  BY Zenon DEF IInv, CarriedRun
<1>6. (cached # None => Seen(cached))'
  BY StillSeen, Zenon DEF IInv
<1>7. ASSUME NEW d \in Clients \ {c}
      PROVE  Seen(before[d])' /\ Working(d)' /\ (config.server = "fake" => Alone(d)')
  <2>1. Seen(before[d]) /\ Working(d) /\ before'[d] = before[d] /\ obj'[d] = obj[d] /\ pc'[d] = pc[d]
    BY <1>3, Zenon DEF IInv, Resumes
  <2>2. Seen(before[d])'
    BY <2>1, StillSeen
  <2>3. Working(d)'
    BY <2>1, StillWorking
  <2>4. config.server = "fake" => Alone(d)'
    BY <1>1, <2>1 DEF Alone
  <2> QED BY <2>2, <2>3, <2>4
<1>8. ASSUME NEW d \in Clients \ {c}
      PROVE  settled'[d].uid <= births' /\ (Settled(d)' => Holds(d, stored, settled[d].status)')
  <2>1. settled'[d] = settled[d] /\ settled[d].uid <= births
        /\ (Settled(d) => Holds(d, stored, settled[d].status))
    BY Zenon DEF IInv, Resumes
  <2> QED BY <2>1 DEF Settled, Holds, RefOf
<1>9. Seen(before[c])' /\ Working(c)' /\ (config.server = "fake" => Alone(c)')
      /\ settled'[c].uid <= births' /\ (Settled(c)' => Holds(c, stored, settled[c].status)')
  BY DEF Resumes
<1>10. IInv'
  BY <1>3, <1>4, <1>5, <1>6, <1>7, <1>8, <1>9, Zenon DEF IInv
<1>11. FinalizersStep
  BY DEF FinalizersStep
<1> QED BY <1>10, <1>11

\* The stored object and what a client reads are copies.
LEMMA ReadSeen ==
  ASSUME IInv
  PROVE  /\ stored # None => Seen(stored)
         /\ Read # None => Seen(Read)
         /\ Seen(New)
<1>1. ASSUME stored # None
      PROVE  Seen(stored)
  <2>1. stored \in Objects /\ stored.uid = births /\ births \in Nat /\ stored.rv <= version
        /\ RefsRight(stored)
    BY <1>1, Zenon DEF IInv, TypeOK
  <2>2. Within(stored, stored)
    BY Zenon DEF Within
  <2> QED BY <2>1, <2>2 DEF Seen
<1>2. births \in Nat /\ version \in Nat /\ (stored # None => births > 0 /\ stored.rv > 0)
  BY Zenon DEF IInv, TypeOK
<1>3. Seen(New)
  BY <1>2, NewSeen
<1> QED BY <1>1, <1>3, Zenon DEF IInv, Read

\* Where a client is after it went on.
LEMMA GoesFacts ==
  ASSUME TypeOK, NEW c \in Clients, NEW step, NEW b \in Objects, NEW o \in Objects, Goes(c, step, b, o)
  PROVE  /\ pc' = [pc EXCEPT ![c] = step] /\ pc'[c] = step
         /\ before' \in [Clients -> Objects] /\ obj' \in [Clients -> Objects]
         /\ before'[c] = (IF step = "idle" THEN New ELSE b)
         /\ obj'[c] = (IF step = "idle" THEN New ELSE o)
         /\ \A d \in Clients \ {c} : before'[d] = before[d] /\ obj'[d] = obj[d] /\ pc'[d] = pc[d]
<1>1. New \in Objects
  BY NewFacts
<1> QED BY <1>1, Zenon DEF Goes, TypeOK

\* The object is not found.
LEMMA WillCreateKeeps ==
  ASSUME IInv, NEW c \in Clients, WillCreate(c)
  PROVE  IInv' /\ FinalizersStep
<1>1. PICK m \in mutate(c, New) : Goes(c, "create", New, m)
  BY DEF WillCreate
<1>2. Begins(c) /\ Reconciles(c) /\ Read = None
      /\ UNCHANGED <<config, stored, version, births, cached, cleaned, carried, settled>>
  BY DEF WillCreate
<1>3. TypeOK /\ New \in Objects
  BY NewFacts, Zenon DEF IInv
<1>4. m \in Objects
  <2>1. Mutated(c, New, m)
    BY <1>1, <1>2, <1>3, MutateFacts
  <2> QED BY <2>1 DEF Mutated
<1>5. /\ pc' = [pc EXCEPT ![c] = "create"] /\ pc'[c] = "create"
      /\ before' \in [Clients -> Objects] /\ obj' \in [Clients -> Objects]
      /\ before'[c] = New /\ obj'[c] = m
      /\ \A d \in Clients \ {c} : before'[d] = before[d] /\ obj'[d] = obj[d] /\ pc'[d] = pc[d]
  BY <1>1, <1>3, <1>4, Zenon DEF Goes, TypeOK
<1>6. Seen(before[c])'
  BY <1>2, <1>5, ReadSeen, StillSeen
<1>7. Working(c)'
  <2>1. mutate(c, New)' = mutate(c, New) /\ Reconciles(c)'
    BY <1>2 DEF mutate, SetControllerReference, SetOwnerReference, New, Reconciles
  <2> QED BY <1>1, <1>5, <2>1, Zenon DEF Working, New
<1>8. config.server = "fake" => Alone(c)'
  BY <1>2, <1>5 DEF Alone, Begins, Read
<1>9. settled'[c].uid <= births' /\ (Settled(c)' => Holds(c, stored, settled[c].status)')
  BY <1>2, Zenon DEF IInv, Settled, Holds, RefOf
<1>10. Resumes(c, "create")
  BY <1>2, <1>3, <1>5, <1>6, <1>7, <1>8, <1>9, Zenon DEF Resumes, TypeOK
<1>11. cleaned \subseteq cleaned' /\ cleaned' \subseteq Keys \X Nat
  BY <1>2, <1>3, Zenon DEF TypeOK
<1> QED BY <1>2, <1>10, <1>11, BeginKeeps

\* The finalizers run on the copy that was read.
LEMMA WillFinalizeKeeps ==
  ASSUME IInv, NEW c \in Clients, WillFinalize(c)
  PROVE  IInv' /\ FinalizersStep
<1>1. PICK failing \in SUBSET Keys :
        /\ cleaned' = IF Read.deleting THEN cleaned \cup (Read.finalizers \ failing) \X {Read.uid}
                      ELSE cleaned
        /\ Goes(c, IF Finalize(Read, failing) = Read THEN "idle" ELSE "update", Read, Finalize(Read, failing))
  BY Zenon DEF WillFinalize
<1>2. Begins(c) /\ config.does[c] = "finalize" /\ Read # None
      /\ UNCHANGED <<config, stored, version, births, cached, carried, settled>>
  BY DEF WillFinalize
<1> DEFINE b == Read
           o == Finalize(b, failing)
           step == IF o = b THEN "idle" ELSE "update"
<1>3. TypeOK /\ Seen(b) /\ b \in Objects /\ b.finalizers \subseteq Keys /\ b.uid \in Nat /\ Seen(New)
  BY <1>2, ReadSeen, Zenon DEF IInv, Seen, Objects
<1>4. o \in Objects
  BY <1>3, FinalizeFacts, Zenon DEF Finalized
<1>5. cleaned \subseteq cleaned' /\ cleaned' \subseteq Keys \X Nat
      /\ (b.deleting => (b.finalizers \ failing) \X {b.uid} \subseteq cleaned')
  BY <1>1, <1>3, Zenon DEF TypeOK
<1>6. b = stored \/ config.server # "fake"
  BY DEF Read
<1>7. Goes(c, step, b, o)
  BY <1>1
<1> HIDE DEF b
<1>8. /\ pc' = [pc EXCEPT ![c] = step] /\ pc'[c] = step
      /\ before' \in [Clients -> Objects] /\ obj' \in [Clients -> Objects]
      /\ before'[c] = (IF step = "idle" THEN New ELSE b)
      /\ obj'[c] = (IF step = "idle" THEN New ELSE o)
      /\ \A d \in Clients \ {c} : before'[d] = before[d] /\ obj'[d] = obj[d] /\ pc'[d] = pc[d]
  <2> HIDE DEF step, o
  <2> QED BY <1>3, <1>4, <1>7, GoesFacts, Zenon
<1>9. Seen(before[c])'
  <2>1. Seen(before'[c])
    BY <1>3, <1>8
  <2>2. \A x : Seen(x) => Seen(x)'
    BY <1>2, StillSeen
  <2> QED BY <2>1, <2>2
<1>10. Working(c)'
  <2>1. CASE step = "idle"
    BY <1>8, <2>1, Zenon DEF Working
  <2>2. CASE step = "update"
    <3>1. pc'[c] = "update" /\ before'[c] = b /\ obj'[c] = Finalize(b, failing)
      BY <1>8, <2>2
    <3> HIDE DEF o, step
    <3> QED BY <1>2, <1>5, <3>1, Zenon DEF Working
  <2> QED BY <2>1, <2>2
<1>11. config.server = "fake" => Alone(c)'
  BY <1>2, <1>6, <1>8 DEF Alone, Begins
<1>12. settled'[c].uid <= births' /\ (Settled(c)' => Holds(c, stored, settled[c].status)')
  BY <1>2, Zenon DEF IInv, Settled, Holds, RefOf
<1>13. Resumes(c, step)
  <2> HIDE DEF step, o
  <2> QED BY <1>2, <1>3, <1>8, <1>9, <1>10, <1>11, <1>12, Zenon DEF Resumes, TypeOK
<1>14. step \in {"idle", "create", "update", "patch", "statusPatch"}
  OBVIOUS
<1> HIDE DEF step, o
<1> QED BY <1>2, <1>5, <1>13, <1>14, BeginKeeps, Zenon

\* What a client that found the object is to write.
LEMMA WriteFacts ==
  ASSUME IInv, NEW c \in Clients, Reconciles(c), NEW b, Seen(b), NEW m \in mutate(c, b)
  PROVE  /\ TypeOK /\ b \in Objects /\ m \in Objects /\ Mutated(c, b, m) /\ RefsRight(m)
         /\ Differs(c, b, m) \in {"idle", "update", "patch", "statusPatch"}
         /\ Differs(c, b, m) = "update" => config.does[c] \in {"control", "own"}
         /\ Differs(c, b, m) = "patch" => config.does[c] = "patch" /\ c \notin b.spec
         /\ Differs(c, b, m) = "statusPatch" => config.does[c] = "patch" /\ c \in b.spec
         /\ Differs(c, b, m) = "idle" => (stored # None /\ b.uid = births => Holds(c, stored, TRUE))
<1>1. TypeOK /\ b \in Objects /\ RefsRight(b)
  BY Zenon DEF IInv, Seen
<1>2. Mutated(c, b, m)
  BY <1>1, MutateFacts
<1>3. m \in Objects /\ m.spec = b.spec \cup {c}
      /\ m.status = (IF config.does[c] = "patch" THEN b.status \cup {c} ELSE b.status)
      /\ (config.does[c] \in {"control", "own"} => m.refs[c] = RefOf(c))
  BY <1>2 DEF Mutated
<1>4. RefsRight(m)
  BY <1>1, MutateKeepsRefs
<1>5. ASSUME Differs(c, b, m) = "idle", stored # None, b.uid = births
      PROVE  Holds(c, stored, TRUE)
  <2>1. Within(b, stored)
    BY <1>5 DEF Seen
  <2>2. CASE config.does[c] = "patch"
    <3>1. m.spec = b.spec /\ m.status = b.status
      BY <1>5, <2>2 DEF Differs
    <3>2. c \in b.spec /\ c \in b.status
      BY <1>3, <2>2, <3>1
    <3> QED BY <2>1, <2>2, <3>2, Zenon DEF Holds, Within
  <2>3. CASE config.does[c] \in {"control", "own"}
    <3>1. m = b
      BY <1>5, <2>3 DEF Differs
    <3>2. c \in b.spec /\ b.refs[c] = RefOf(c) /\ RefOf(c) # "none"
      BY <1>3, <2>3, <3>1 DEF RefOf
    <3> QED BY <2>1, <2>3, <3>2, Zenon DEF Holds, Within
  <2> QED BY <2>2, <2>3, Zenon DEF Reconciles
<1>6. Differs(c, b, m) \in {"idle", "update", "patch", "statusPatch"}
  BY DEF Differs
<1>7. Differs(c, b, m) = "update" => config.does[c] \in {"control", "own"}
  BY DEF Differs, Reconciles
<1>8. Differs(c, b, m) = "patch" => config.does[c] = "patch" /\ c \notin b.spec
  BY <1>3 DEF Differs
<1>9. Differs(c, b, m) = "statusPatch" => config.does[c] = "patch" /\ c \in b.spec
  BY <1>3 DEF Differs
<1> QED BY <1>1, <1>2, <1>3, <1>4, <1>5, <1>6, <1>7, <1>8, <1>9, Zenon

\* The object is found: it is as it should be, or is to be written.
LEMMA WillWriteKeeps ==
  ASSUME IInv, NEW c \in Clients, WillWrite(c)
  PROVE  IInv' /\ FinalizersStep
<1> DEFINE b == Read
<1>1. PICK m \in mutate(c, b) :
        /\ Goes(c, Differs(c, b, m), b, m)
        /\ IF Differs(c, b, m) = "idle" THEN Succeeds(c, b.uid, TRUE) ELSE UNCHANGED settled
  BY Zenon DEF WillWrite
<1>2. Begins(c) /\ Reconciles(c) /\ b # None
      /\ UNCHANGED <<config, stored, version, births, cached, cleaned, carried>>
  BY DEF WillWrite
<1> DEFINE step == Differs(c, b, m)
<1>3. Seen(b) /\ Seen(New)
  BY <1>2, ReadSeen
<1>4. b = stored \/ config.server # "fake"
  BY DEF Read
<1> HIDE DEF b
<1>5. /\ TypeOK /\ b \in Objects /\ m \in Objects /\ Mutated(c, b, m) /\ RefsRight(m)
      /\ step \in {"idle", "update", "patch", "statusPatch"}
      /\ step = "update" => config.does[c] \in {"control", "own"}
      /\ step = "patch" => config.does[c] = "patch" /\ c \notin b.spec
      /\ step = "statusPatch" => config.does[c] = "patch" /\ c \in b.spec
      /\ step = "idle" => (stored # None /\ b.uid = births => Holds(c, stored, TRUE))
  BY <1>1, <1>2, <1>3, WriteFacts, Zenon
<1>6. Goes(c, step, b, m)
  BY <1>1
<1>7. (step = "idle" /\ Succeeds(c, b.uid, TRUE)) \/ settled' = settled
  BY <1>1, Zenon
<1> HIDE DEF step
<1>8. /\ pc' = [pc EXCEPT ![c] = step] /\ pc'[c] = step
      /\ before' \in [Clients -> Objects] /\ obj' \in [Clients -> Objects]
      /\ before'[c] = (IF step = "idle" THEN New ELSE b)
      /\ obj'[c] = (IF step = "idle" THEN New ELSE m)
      /\ \A d \in Clients \ {c} : before'[d] = before[d] /\ obj'[d] = obj[d] /\ pc'[d] = pc[d]
  BY <1>5, <1>6, GoesFacts, Zenon
<1>9. Seen(before[c])'
  <2>1. Seen(before'[c])
    BY <1>3, <1>8
  <2>2. \A x : Seen(x) => Seen(x)'
    BY <1>2, StillSeen
  <2> QED BY <2>1, <2>2
<1>10. m.uid = b.uid /\ m.spec = b.spec \cup {c} /\ m.rv = b.rv /\ m.finalizers = b.finalizers
       /\ m.deleting = b.deleting
       /\ (config.does[c] = "patch" => m.status = b.status \cup {c} /\ m.refs = b.refs)
  BY <1>5 DEF Mutated
<1>11. \A x : mutate(c, x)' = mutate(c, x)
  BY <1>2 DEF mutate, SetControllerReference, SetOwnerReference
<1>12. Working(c)'
  <2>1. CASE step = "idle"
    BY <1>8, <2>1, Zenon DEF Working
  <2>2. CASE step = "update"
    <3>1. pc'[c] = "update" /\ before'[c] = b /\ obj'[c] = m /\ config'.does[c] \in {"control", "own"}
          /\ m \in mutate(c, b)
      BY <1>1, <1>2, <1>5, <1>8, <2>2, Zenon
    <3>2. (obj[c] \in mutate(c, before[c]))'
      BY <1>11, <3>1
    <3> QED BY <3>1, <3>2, Zenon DEF Working
  <2>3. CASE step = "patch"
    <3>1. pc'[c] = "patch" /\ before'[c] = b /\ obj'[c] = m /\ config'.does[c] = "patch"
          /\ c \notin b.spec /\ m \in mutate(c, b)
      BY <1>1, <1>2, <1>5, <1>8, <2>3, Zenon
    <3>2. (obj[c] \in mutate(c, before[c]))'
      BY <1>11, <3>1
    <3> QED BY <3>1, <3>2, Zenon DEF Working
  <2>4. CASE step = "statusPatch"
    <3>1. pc'[c] = "statusPatch" /\ before'[c] = b /\ obj'[c] = m /\ config'.does[c] = "patch"
          /\ c \in b.spec
      BY <1>2, <1>5, <1>8, <2>4
    <3>2. m.spec = b.spec /\ m.status = b.status \cup {c} /\ m.uid = b.uid
      BY <1>2, <1>10, <3>1
    <3>3. b.uid <= births /\ b.uid \in Nat
          /\ (stored # None /\ b.uid = births => b.spec \subseteq stored.spec)
      BY <1>3, <1>5, Zenon DEF Seen, Within, Objects
    <3>4. RefsRight(obj[c])'
      BY <1>2, <1>5, <3>1, Zenon DEF RefsRight, RefOf
    <3>5. (/\ config.does[c] = "patch"
           /\ obj[c] \in Objects /\ RefsRight(obj[c]) /\ c \in obj[c].spec
           /\ obj[c].status = before[c].status \cup {c}
           /\ before[c].uid <= obj[c].uid /\ obj[c].uid <= births
           /\ stored # None /\ obj[c].uid = births => obj[c].spec \subseteq stored.spec)'
      <4>1. b.uid <= m.uid /\ m.uid <= births /\ c \in m.spec
            /\ (stored # None /\ m.uid = births => m.spec \subseteq stored.spec)
        <5>1. m.uid = b.uid /\ m.spec = b.spec
          BY ONLY <3>2, Zenon
        <5>2. b.uid <= b.uid
          BY ONLY <3>3
        <5>3. b.uid <= births /\ c \in b.spec
              /\ (stored # None /\ b.uid = births => b.spec \subseteq stored.spec)
          BY ONLY <3>1, <3>3, Zenon
        <5> QED BY ONLY <5>1, <5>2, <5>3, Zenon
      <4> QED BY <1>2, <1>5, <3>1, <3>2, <3>4, <4>1, Zenon
    <3> QED BY <3>1, <3>5, Zenon DEF Working
  <2> QED BY <1>5, <2>1, <2>2, <2>3, <2>4
<1>13. config.server = "fake" => Alone(c)'
  <2> SUFFICES ASSUME config.server = "fake", step # "idle"
               PROVE  Alone(c)'
    BY <1>8 DEF Alone
  <2>1. b = stored /\ before'[c] = stored' /\ obj'[c] = m /\ stored' # None
    BY <1>2, <1>4, <1>8
  <2>2. \A d \in Clients \ {c} : pc'[d] = "idle"
    BY <1>2, <1>8 DEF Begins
  <2>3. step = "statusPatch" => m = [b EXCEPT !.status = m.status]
    <3>1. step = "statusPatch" => m.spec = b.spec /\ m.refs = b.refs
      BY <1>5, <1>10
    <3> QED BY <1>5, <1>10, <3>1 DEF Objects
  <2> QED BY <1>2, <1>5, <1>8, <2>1, <2>2, <2>3 DEF Alone
<1>14. settled' \in [Clients -> [uid : Nat, status : BOOLEAN]]
       /\ (\A d \in Clients \ {c} : settled'[d] = settled[d])
       /\ settled'[c].uid <= births' /\ (Settled(c)' => Holds(c, stored, settled[c].status)')
  <2>1. b.uid \in Nat /\ b.uid <= births /\ (stored # None => stored.uid = births)
    BY <1>3, <1>5, Zenon DEF Seen, TypeOK, Objects
  <2>2. CASE settled' = settled
    BY <1>2, <1>5, <2>2, Zenon DEF IInv, TypeOK, Settled, Holds, RefOf
  <2>3. CASE step = "idle" /\ Succeeds(c, b.uid, TRUE)
    <3>1. settled' \in [Clients -> [uid : Nat, status : BOOLEAN]]
          /\ settled'[c].uid = b.uid /\ settled'[c].status = TRUE
          /\ \A d \in Clients \ {c} : settled'[d] = settled[d]
      BY <1>5, <2>1, <2>3, Zenon DEF Succeeds, TypeOK
    <3>2. Settled(c)' => Holds(c, stored, TRUE)
      BY <1>2, <1>5, <2>1, <2>3, <3>1, Zenon DEF Settled
    <3>3. Settled(c)' => Holds(c, stored, settled[c].status)'
      BY <1>2, <3>1, <3>2 DEF Holds, RefOf
    <3> QED BY <1>2, <2>1, <3>1, <3>3
  <2> QED BY <1>7, <2>2, <2>3, Zenon
<1>15. Resumes(c, step)
  BY <1>5, <1>8, <1>9, <1>12, <1>13, <1>14, Zenon DEF Resumes
<1>16. cleaned \subseteq cleaned' /\ cleaned' \subseteq Keys \X Nat
  BY <1>2, <1>5, Zenon DEF TypeOK
<1> QED BY <1>2, <1>5, <1>15, <1>16, BeginKeeps

\* Steps that neither write nor move a client.
LEMMA QuietKeeps ==
  ASSUME IInv,
         UNCHANGED <<config, stored, version, births, pc, before, obj, cleaned, carried, settled>>,
         runs' \in 0..MaxRuns, cached' \in {cached, stored}
  PROVE  IInv' /\ FinalizersStep
<1>1. TypeOK'
  BY Zenon DEF IInv, TypeOK
<1>2. (stored # None => stored.rv <= version /\ births > 0 /\ RefsRight(stored))' /\ CarriedRun'
  BY Zenon DEF IInv, RefsRight, RefOf, CarriedRun
<1>3. (cached # None => Seen(cached))'
  <2>1. (cached # None => Seen(cached)) /\ (stored # None => Seen(stored))
    BY ReadSeen, Zenon DEF IInv
  <2>2. cached' # None => Seen(cached')
    BY <2>1
  <2>3. \A x : Seen(x) => Seen(x)'
    BY StillSeen
  <2> QED BY <2>2, <2>3
<1>4. ASSUME NEW d \in Clients
      PROVE  Seen(before[d])' /\ Working(d)' /\ (config.server = "fake" => Alone(d))'
  <2>1. Seen(before[d]) /\ Working(d) /\ (config.server = "fake" => Alone(d))
    BY Zenon DEF IInv
  <2>2. Seen(before[d])'
    BY <2>1, StillSeen
  <2>3. Working(d)'
    BY <2>1, StillWorking
  <2>4. (config.server = "fake" => Alone(d))'
    BY <2>1 DEF Alone
  <2> QED BY <2>2, <2>3, <2>4
<1>5. ASSUME NEW d \in Clients
      PROVE  settled'[d].uid <= births' /\ (Settled(d)' => Holds(d, stored, settled[d].status)')
  BY Zenon DEF IInv, Settled, Holds, RefOf
<1>6. IInv'
  BY <1>1, <1>2, <1>3, <1>4, <1>5, Zenon DEF IInv
<1> QED BY <1>6 DEF FinalizersStep

\* No step breaks the invariant.
LEMMA Step ==
  ASSUME IInv, [Next]_vars
  PROVE  IInv' /\ FinalizersStep
<1>1. CASE CacheCatchesUp
  BY <1>1, QuietKeeps, Zenon DEF CacheCatchesUp, IInv, TypeOK
<1>2. ASSUME NEW c \in Clients, MutateFails(c)
      PROVE  IInv' /\ FinalizersStep
  <2>1. runs' \in 0..MaxRuns
    <3>1. runs \in 0..MaxRuns /\ MaxRuns \in Nat
      BY ConstantsAssumption, Zenon DEF IInv, TypeOK
    <3>2. runs < MaxRuns /\ runs' = runs + 1
      BY <1>2, Zenon DEF MutateFails, Begins
    <3> QED BY ONLY <3>1, <3>2
  <2> QED BY <1>2, <2>1, QuietKeeps DEF MutateFails
<1>3. ASSUME NEW c \in Clients,
             MutateFails(c) \/ WillCreate(c) \/ WillWrite(c) \/ WillFinalize(c)
             \/ Create(c) \/ Update(c) \/ Patch(c) \/ StatusPatch(c) \/ Delete(c)
      PROVE  IInv' /\ FinalizersStep
  BY <1>2, <1>3, WillCreateKeeps, WillWriteKeeps, WillFinalizeKeeps, CallsKeep, DeleteKeeps
<1>4. CASE UNCHANGED vars
  BY <1>4, QuietKeeps, Zenon DEF vars, IInv, TypeOK
<1> QED BY <1>1, <1>3, <1>4 DEF Next

\* The invariant holds in the initial states.
LEMMA Initially ==
  ASSUME Init
  PROVE  IInv
<1>1. TypeOK
  <2>1. pc \in [Clients -> {"idle", "create", "update", "patch", "statusPatch"}]
    BY DEF Init
  <2>2. before \in [Clients -> Objects] /\ obj \in [Clients -> Objects]
    BY NewFacts DEF Init
  <2>3. settled \in [Clients -> [uid : Nat, status : BOOLEAN]]
    BY DEF Init
  <2>4. config \in Configs /\ version \in Nat /\ births \in Nat /\ runs \in 0..MaxRuns
    BY ConstantsAssumption DEF Init
  <2>5. stored = None /\ cached = None /\ cleaned = {} /\ carried = {}
    BY DEF Init
  <2> QED BY <2>1, <2>2, <2>3, <2>4, <2>5, Zenon DEF TypeOK
<1>2. Seen(New)
  BY NewSeen DEF Init
<1>3. \A c \in Clients : Seen(before[c]) /\ Working(c) /\ Alone(c)
  BY <1>2, Zenon DEF Init, Working, Alone
<1>4. \A c \in Clients : settled[c].uid <= births /\ ~Settled(c)
  BY DEF Init, Settled
<1> QED BY <1>1, <1>3, <1>4, Zenon DEF Init, IInv, CarriedRun

\* The inductive invariant.
LEMMA Invariant == Spec => []IInv
<1>1. Init => IInv
  BY Initially
<1>2. IInv /\ [Next]_vars => IInv'
  BY Step
<1> QED BY <1>1, <1>2, PTL DEF Spec

-----------------------------------------------------------------------------
(* The theorems                                                             *)

\* CreateOrUpdate and CreateOrPatch lose no update, however many clients work
\* on the object, however old the copies are that they read from the cache,
\* and whichever answers are lost.
THEOREM NoLostUpdateHolds == Spec => []NoLostUpdate
<1>1. IInv => NoLostUpdate
  BY Zenon DEF IInv, NoLostUpdate, Holds
<1> QED BY <1>1, Invariant, PTL

\* SetControllerReference lets an object have one controller at most, and the
\* clients that were told that they own it or control it do.
THEOREM SoleControllerHolds == Spec => []SoleController
<1>1. ASSUME IInv
      PROVE  SoleController
  <2>1. ASSUME stored # None, NEW c \in Clients, NEW d \in Clients,
               stored.refs[c] = "controller", stored.refs[d] = "controller"
        PROVE  c = d
    BY <1>1, <2>1, Zenon DEF IInv, RefsRight
  <2>2. ASSUME NEW c \in Clients, Settled(c)
        PROVE  /\ config.does[c] = "control" => stored.refs[c] = "controller"
               /\ config.does[c] = "own" => stored.refs[c] = "owner"
    BY <1>1, <2>2, Zenon DEF IInv, Holds, RefOf
  <2> QED BY <2>1, <2>2 DEF SoleController
<1> QED BY <1>1, Invariant, PTL

\* No object goes before each finalizer it ever had has run for it, and an
\* object that is being deleted gets no new ones, whoever runs the finalizers
\* and from whichever copies.
THEOREM FinalizersRunHolds == Spec => FinalizersRun
<1>1. IInv /\ [Next]_vars => [FinalizersStep]_vars
  BY Step
<1>2. [FinalizersStep]_vars <=>
        [stored # None =>
           /\ stored' = None \/ stored'.uid # stored.uid => carried \X {stored.uid} \subseteq cleaned
           /\ stored.deleting /\ stored' # None =>
                stored'.deleting /\ stored'.finalizers \subseteq stored.finalizers]_vars
  BY DEF FinalizersStep
<1> QED BY <1>1, <1>2, Invariant, PTL DEF Spec, FinalizersRun
=============================================================================
