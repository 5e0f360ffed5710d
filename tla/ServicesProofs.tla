---------------------------- MODULE ServicesProofs ----------------------------
(***************************************************************************)
(* For every value of the constants: the manager's own servers and the     *)
(* webhook server serve what was registered, no wake-up is lost between    *)
(* the informer and the workers, and filters hide no more than they say.   *)
(***************************************************************************)
EXTENDS Watching, Services, Sequences, TLAPS

-----------------------------------------------------------------------------
(* Endpoints.                                                               *)

Up == {"added", "serving", "sending"}

\* A check that was accepted is there, and none comes in once the probe
\* server has mounted what there is.
ChecksKept ==
    /\ \A c \in Askers : Op[c] \in P!Probes /\ mgrCall[c] = "ok" => c \in checks[Op[c]]
    /\ healthzStarted => mounted = {p \in P!Probes : checks[p] # {}}
    /\ serveRun["probes"] # "none" => healthzStarted
    /\ hookOnce \in Askers => Op[hookOnce] = "webhook"

\* Handlers count as early until Start, and the metrics server copies them after.
HandlersKept ==
    /\ mgr = "built" => main["metrics"] = "none"
    /\ main["metrics"] \notin {"none", "init"} => early \subseteq served
    /\ serveRun["metrics"] # "none" => main["metrics"] \notin {"none", "init"}
    /\ \A c, d \in handlers : Op[c] = Op[d] => c = d

\* mu is held while the stop procedure waits, so that no probe server starts
\* after the runnables were seen to have ended.
ProbesKept ==
    /\ mgr = "waiting" => mgrMu = "stop"
    /\ shutdownCtx = "none" <=> mgr \in {"built", "running"}
    /\ mgr = "stopping" => shutdownCtx # "cancelled"
    /\ mgr = "waiting" /\ shutdownCtx = "cancelled" => serveRun["probes"] \notin Up
    /\ "probes" \notin left

EndpointsInv == P!TypeOK /\ ChecksKept /\ HandlersKept /\ ProbesKept

\* EndpointsRight: the checks and handlers that were accepted in time are
\* served, and a stop that waited leaves no probe server; for any callers and
\* any interleaving with Start and the stop procedure.
THEOREM EndpointsRightHolds == ASSUME EndpointsConstants PROVE P!Spec => []P!EndpointsRight
<1> USE DEF P!Servers, P!Probes, Up
<1>1. P!Init => EndpointsInv
  <2> SUFFICES ASSUME P!Init PROVE EndpointsInv
    OBVIOUS
  <2>1. P!TypeOK
    BY Zenon DEF P!Init, P!TypeOK, EndpointsConstants
  <2>2. ChecksKept
    BY Zenon DEF P!Init, ChecksKept, EndpointsConstants
  <2>3. HandlersKept /\ ProbesKept
    BY Zenon DEF P!Init, HandlersKept, ProbesKept
  <2> QED BY <2>1, <2>2, <2>3, Zenon DEF EndpointsInv
<1>2. EndpointsInv /\ [P!Next]_P!vars => EndpointsInv'
  <2> SUFFICES ASSUME EndpointsInv, [P!Next]_P!vars PROVE EndpointsInv'
    OBVIOUS
  <2> USE DEF EndpointsInv, P!TypeOK, ChecksKept, HandlersKept, ProbesKept, EndpointsConstants,
              P!mgrVars, P!addVars, P!srvVars
  <2>1. ASSUME NEW c \in Askers, P!Calls(c) \/ P!Quits(c) PROVE EndpointsInv'
    <3>1. UNCHANGED <<P!mgrVars, P!srvVars, healthzStarted, checks, mounted, handlers, early, served, hookOnce>>
      BY <2>1, Zenon DEF P!Calls, P!Quits
    <3>2. /\ mgrCall' \in [Askers -> {"idle", "waits", "ok", "refused", "panicked", "ended"}]
          /\ \A d \in Askers : mgrCall'[d] = "ok" => mgrCall[d] = "ok"
      BY <2>1 DEF P!Calls, P!Quits, P!Returns
    <3> QED BY <3>1, <3>2
  <2>2. ASSUME NEW c \in Askers, P!AddCheck(c) PROVE EndpointsInv'
    BY <2>2 DEF P!AddCheck, P!Returns
  <2>3. ASSUME NEW c \in Askers, P!AddMetricsExtraHandler(c) PROVE EndpointsInv'
    BY <2>3 DEF P!AddMetricsExtraHandler, P!Returns
  <2>4. ASSUME NEW c \in Askers, P!GetWebhookServer(c) PROVE EndpointsInv'
    BY <2>4 DEF P!GetWebhookServer, P!Returns
  <2>5. ASSUME NEW c \in Askers, P!AddWebhookServer(c) PROVE EndpointsInv'
    BY <2>5 DEF P!AddWebhookServer, P!Returns
  <2>6. CASE P!MountMetrics
    BY <2>6 DEF P!MountMetrics
  <2>6a. CASE P!RunMetrics
    BY <2>6a DEF P!RunMetrics
  <2>7. CASE P!serveHealthProbes
    <3>1. /\ UNCHANGED <<P!mgrVars, checks, handlers, early, served, hookOnce, mgrCall, busy>>
          /\ mounted' = {p \in P!Probes : checks[p] # {}}
          /\ healthzStarted' = TRUE /\ mgrMu = "free"
          /\ main'["metrics"] = main["metrics"] /\ serveRun'["metrics"] = serveRun["metrics"]
      BY <2>7, Zenon DEF P!serveHealthProbes, P!Free
    <3>2. P!TypeOK'
      BY <2>7, <3>1 DEF P!serveHealthProbes
    <3>3. ChecksKept'
      BY <3>1
    <3>4. HandlersKept' /\ ProbesKept'
      BY <3>1
    <3> QED BY <3>2, <3>3, <3>4
  <2>8. ASSUME NEW s \in P!Servers, P!Serve(s) \/ P!ServeFails(s) PROVE EndpointsInv'
    <3>1. UNCHANGED <<P!mgrVars, P!addVars, main, busy>>
      BY <2>8, Zenon DEF P!Serve, P!ServeFails
    <3>2. /\ serveRun' \in [P!Servers -> {"none", "added", "serving", "sending", "ended"}]
          /\ \A t \in P!Servers : /\ serveRun'[t] # "none" => serveRun[t] # "none"
                                  /\ serveRun'[t] \in Up => serveRun[t] \in Up
      BY <2>8 DEF P!Serve, P!ServeFails
    <3>3. /\ serveRun'["probes"] # "none" => serveRun["probes"] # "none"
          /\ serveRun'["probes"] \in Up => serveRun["probes"] \in Up
          /\ serveRun'["metrics"] # "none" => serveRun["metrics"] # "none"
      BY <3>2
    <3> QED BY <3>1, <3>2, <3>3
  <2>9. ASSUME NEW s \in P!Servers, P!Request(s) \/ P!Respond(s) PROVE EndpointsInv'
    <3>1. UNCHANGED <<P!mgrVars, P!addVars, main, serveRun>>
      BY <2>9, Zenon DEF P!Request, P!Respond
    <3>2. busy' \in [P!Servers -> BOOLEAN]
      <4>1. busy' = [busy EXCEPT ![s] = TRUE] \/ busy' = [busy EXCEPT ![s] = FALSE]
        BY <2>9, Zenon DEF P!Request, P!Respond
      <4>2. busy \in [P!Servers -> BOOLEAN]
        OBVIOUS
      <4> QED BY ONLY <4>1, <4>2
    <3> QED BY <3>1, <3>2
  <2>10. ASSUME NEW s \in P!Servers, P!Shutdown(s) PROVE EndpointsInv'
    BY <2>10 DEF P!Shutdown
  <2>11. CASE P!Start
    BY <2>11, Zenon DEF P!Start
  <2>12. CASE P!Cancelled
    BY <2>12 DEF P!Cancelled, P!Engage
  <2>13. CASE P!SelectError \/ P!Drain
    <3>1. /\ UNCHANGED <<grace, listeners, mgrMu, engaged, left, P!addVars, busy>>
          /\ mgr \in {"running", "stopping", "waiting"}
          /\ \/ mgr' = "stopping" /\ shutdownCtx' = "live"
             \/ UNCHANGED <<mgr, shutdownCtx>>
      BY <2>13, Zenon DEF P!SelectError, P!Engage, P!Drain
    <3>2. P!Received
      BY <2>13, Zenon DEF P!SelectError, P!Drain
    <3>3. /\ main' \in [P!Servers -> {"none", "init", "mounted", "wait", "shutdown", "sending", "ended"}]
          /\ serveRun' \in [P!Servers -> {"none", "added", "serving", "sending", "ended"}]
          /\ \A t \in P!Servers : /\ serveRun'[t] # "none" <=> serveRun[t] # "none"
                                  /\ serveRun'[t] \in Up => serveRun[t] \in Up
                                  /\ main'[t] \notin {"none", "init"} <=> main[t] \notin {"none", "init"}
      BY <3>2 DEF P!Received
    <3>4. /\ serveRun'["probes"] # "none" => serveRun["probes"] # "none"
          /\ serveRun'["probes"] \in Up => serveRun["probes"] \in Up
          /\ serveRun'["metrics"] # "none" => serveRun["metrics"] # "none"
          /\ main'["metrics"] \notin {"none", "init"} <=> main["metrics"] \notin {"none", "init"}
      BY <3>3
    <3>5. P!TypeOK'
      BY <3>1, <3>3
    <3>6. ChecksKept' /\ HandlersKept'
      BY <3>1, <3>3, <3>4
    <3>7. ProbesKept'
      BY <3>1, <3>3, <3>4
    <3> QED BY <3>5, <3>6, <3>7
  <2>14. CASE P!StopProcedure
    <3>1. UNCHANGED <<grace, listeners, left, P!addVars, P!srvVars>> /\ mgr = "stopping"
      BY <2>14, Zenon DEF P!StopProcedure
    <3>2. \/ mgr' = "returned" /\ shutdownCtx' = "cancelled" /\ mgrMu' = mgrMu /\ engaged' \in BOOLEAN
          \/ mgr' = "waiting" /\ mgrMu' = "stop" /\ engaged' \in BOOLEAN /\ shutdownCtx' = shutdownCtx
      BY <2>14, Zenon DEF P!StopProcedure
    <3> QED BY <3>1, <3>2
  <2>15. CASE P!AllRunnablesEnded
    BY <2>15 DEF P!AllRunnablesEnded, P!Running
  <2>16. CASE P!GraceExpires
    BY <2>16 DEF P!GraceExpires
  <2>17. CASE P!StopReturns
    <3>1. /\ UNCHANGED <<grace, listeners, engaged, shutdownCtx, P!addVars, P!srvVars>>
          /\ mgr = "waiting" /\ shutdownCtx # "live" /\ mgr' = "returned" /\ mgrMu' = P!Free
          /\ left' \subseteq {s \in P!Servers : serveRun[s] \in Up}
          /\ shutdownCtx = "expired" => left' = {}
      BY <2>17, Zenon DEF P!StopReturns
    <3>2. P!TypeOK'
      BY <3>1
    <3>3. ChecksKept' /\ HandlersKept'
      BY <3>1
    <3>4. ProbesKept'
      BY <3>1
    <3> QED BY ONLY <3>2, <3>3, <3>4 DEF EndpointsInv
  <2>18. CASE UNCHANGED P!vars
    <3>1. UNCHANGED <<P!mgrVars, P!addVars, P!srvVars>>
      BY <2>18, Zenon DEF P!vars
    <3>2. P!TypeOK'
      BY <3>1
    <3>3. ChecksKept' /\ HandlersKept'
      BY <3>1
    <3>4. ProbesKept'
      BY <3>1
    <3> QED BY ONLY <3>2, <3>3, <3>4 DEF EndpointsInv
  <2> QED BY <2>1, <2>2, <2>3, <2>4, <2>5, <2>6, <2>7, <2>8, <2>9, <2>10, <2>11, <2>12, <2>13, <2>14,
             <2>15, <2>16, <2>17, <2>18, <2>6a
          DEF P!Next, P!CallStep, P!ServerStep, P!StopStep
<1>3. EndpointsInv => P!EndpointsRight
  BY Zenon DEF EndpointsInv, ChecksKept, HandlersKept, ProbesKept, P!EndpointsRight, P!ChecksServed,
         P!HandlersServed, P!ProbesStopped, P!TypeOK
<1> QED BY <1>1, <1>2, <1>3, PTL DEF P!Spec

-----------------------------------------------------------------------------
(* HookServer.                                                              *)

\* A hook that is registered after the setter is known was handed to it, or
\* InjectFunc still comes to it: it has not begun to walk the map, or will
\* visit the hook, or has given up with an error.
HooksReached ==
    /\ inj.pc # "idle" <=> setFields
    /\ \A h \in Hooks : reg[h] \in {"handled", "done"} => h \in webhooks
    /\ \A h \in Hooks : setFields /\ reg[h] = "done"
                          => \/ h \in injected \cup failed \/ inj.pc \in {"walk", "error"}
                             \/ inj.pc = "visit" /\ h \in inj.todo

\* Nothing is served once the server has drained, and no path is taken twice.
HooksDrained ==
    /\ server \in {"drained", "returned"} => active = {}
    /\ \A g, h \in webhooks : Path[g] = Path[h] => g = h

HooksInv == H!TypeOK /\ HooksReached /\ HooksDrained

\* HooksServed: once Register and InjectFunc have returned the setter was called
\* on the hook, whichever came first, and a server that has returned serves
\* nothing; for any hooks and any number of requests.
THEOREM HooksServedHolds == ASSUME Requests \in Nat PROVE H!Spec => []H!HooksServed
<1>1. H!Init => HooksInv
  <2> SUFFICES ASSUME H!Init PROVE HooksInv
    OBVIOUS
  <2>1. H!TypeOK
    <3>1. reg \in [Hooks -> {"idle", "handled", "done", "panicked"}] /\ srvSent \in 0 .. Requests
      BY DEF H!Init
    <3> QED BY <3>1, Zenon DEF H!Init, H!TypeOK, H!Outcomes
  <2>2. HooksReached /\ HooksDrained
    BY Zenon DEF H!Init, HooksReached, HooksDrained
  <2> QED BY <2>1, <2>2, Zenon DEF HooksInv
<1>2. HooksInv /\ [H!Next]_H!vars => HooksInv'
  <2> SUFFICES ASSUME HooksInv, [H!Next]_H!vars PROVE HooksInv'
    OBVIOUS
  <2> USE DEF HooksInv, H!TypeOK, HooksReached, HooksDrained, H!Outcomes
  <2>1. ASSUME NEW h \in Hooks, H!Register(h) PROVE HooksInv'
    BY <2>1 DEF H!Register
  <2>2. ASSUME NEW h \in Hooks, H!RegisterInject(h) PROVE HooksInv'
    BY <2>2, Zenon DEF H!RegisterInject, H!Inject
  <2>3. CASE H!InjectFunc
    BY <2>3, Zenon DEF H!InjectFunc
  <2>4. CASE H!InjectBegin
    BY <2>4, Zenon DEF H!InjectBegin
  <2>5. ASSUME NEW h \in Hooks, H!InjectVisit(h) PROVE HooksInv'
    BY <2>5, Zenon DEF H!InjectVisit, H!Inject
  <2>6. CASE H!Start \/ H!Serve \/ H!ServeFails \/ H!Shutdown \/ H!Drained \/ H!Return
    <3>1. /\ UNCHANGED <<mu, webhooks, setFields, injected, failed, reg, inj, active, srvSent, srvCtxDone>>
          /\ defaulted' \in BOOLEAN
          /\ server' \in {"listen", "serving", "error", "shutdown", "drained", "returned"}
          /\ server' = "drained" => active = {}
          /\ server' = "returned" => server = "drained"
      BY <2>6, Zenon DEF H!Start, H!Serve, H!ServeFails, H!Shutdown, H!Drained, H!Return
    <3> QED BY <3>1
  <2>7. ASSUME NEW h \in Hooks, H!Request(h) PROVE HooksInv'
    BY <2>7 DEF H!Request
  <2>8. ASSUME NEW r \in active, H!Respond(r) PROVE HooksInv'
    BY <2>8, Zenon DEF H!Respond
  <2>9. CASE H!Cancel \/ UNCHANGED H!vars
    <3>1. /\ UNCHANGED <<defaulted, mu, webhooks, setFields, injected, failed, reg, inj, server, active, srvSent>>
          /\ srvCtxDone' \in BOOLEAN
      BY <2>9, Zenon DEF H!Cancel, H!vars
    <3> QED BY <3>1
  <2> QED BY <2>1, <2>2, <2>3, <2>4, <2>5, <2>6, <2>7, <2>8, <2>9
          DEF H!Next, H!Registers, H!Injects, H!Server, H!Responds
<1>3. HooksInv => H!HooksServed
  BY Zenon DEF HooksInv, HooksReached, HooksDrained, H!HooksServed, H!HooksInjected, H!NothingCutOff
<1> QED BY <1>1, <1>2, <1>3, PTL DEF H!Spec

-----------------------------------------------------------------------------
\* ServersRight: the two together.
THEOREM ServersRightHolds ==
    H!Spec /\ P!Spec => []ServersRight
<1>1. H!Spec => []H!HooksServed
  BY HooksServedHolds, ServersConstants
<1>2. P!Spec => []P!EndpointsRight
  BY EndpointsRightHolds, ServersConstants
<1> QED BY <1>1, <1>2, PTL DEF ServersRight


-----------------------------------------------------------------------------
(* Events.  What a reconcile saw stays good, by what the predicates compare, *)
(* for every later state of the cache whose notification adds no request.   *)

\* A notification leads from one state of the cache to the next.
Before(n) == CASE n.kind = "create" -> Nothing [] n.kind = "update" -> n.old [] OTHER -> n.new
After(n) == IF n.kind \in {"delete", "tombstone"} THEN Nothing ELSE n.new

\* The state of the cache after the first j of the notifications.
At(j) == IF j < Len(notes) THEN Before(notes[j + 1]) ELSE inCache

EvNote(n) ==
    /\ n.kind \in {"create", "delete"} => n.new # Nothing
    /\ n.kind = "update" =>
         /\ n.old # Nothing /\ n.new # Nothing
         /\ n.old.rv = n.new.rv => n.old = n.new

EvChain == \A i \in 1 .. Len(notes) : EvNote(notes[i]) /\ After(notes[i]) = At(i)

\* A resource version belongs to one state of the object.
EvVersions ==
    /\ object # Nothing => object.rv <= writes /\ object.gen <= writes
    /\ inCache # Nothing => inCache.rv <= writes
    /\ object # Nothing /\ inCache # Nothing /\ object.rv = inCache.rv => object = inCache

EvWorker == ~q.shuttingDown /\ (holds = Nothing => ~read)

\* What a reconcile of r saw is good for the state o of the cache.
Good(s, o, r) ==
    /\ V!Filters \subseteq {V!Watches("rv")} => s = V!ViewOf(o, r)
    /\ watching.handler = "object" /\ r = V!Self =>
         /\ \A p \in V!Filters : V!Filters = {p} /\ p.type # "selector" =>
              /\ s = Nothing <=> o = Nothing
              /\ p.type = "or" /\ o # Nothing => \A n \in 1 .. Len(p.of) : s[p.of[n]] = o[p.of[n]]
         /\ V!Filters = {[type |-> "selector"]} /\ o # Nothing /\ o.label = "in" => s = o

\* A request that waits for no worker was reconciled at a state of the cache
\* that differs from what the handler was told in nothing that matters to it.
Pending(r) == r \in q.dirty \/ r \in adding \/ (holds = r /\ ~read)

EvSeen == \A r \in V!Requests : Pending(r) \/ \E j \in 0 .. Len(notes) : Good(seen[r], At(j), r)

EvInv == V!TypeOK /\ EvChain /\ EvVersions /\ EvWorker /\ EvSeen

\* What the informer may send.
EvNotes == V!Events \cup [kind : {"tombstone"}, old : {Nothing}, new : V!Objects \cup {Nothing}]

\* The handler adds a request for the object, its owners or what it maps to.
LEMMA EvHandled ==
    ASSUME V!ConstantsAssumption, watching \in Watchings, NEW o \in V!Objects, NEW e, o \in V!Of(e),
           NEW r, V!OwnedBy(o, r)
    PROVE  r \in V!Handled(e)
<1>1. o.refs \in Seq(V!Refs) BY Zenon DEF V!ConstantsAssumption, V!Objects
<1>2. CASE watching.handler = "object" BY <1>2, Zenon DEF V!OwnedBy, V!Handled, V!EnqueueRequestForObject
<1>3. CASE watching.handler = "mapped"
  BY <1>3, Zenon DEF V!OwnedBy, V!Handled, V!EnqueueRequestsFromMapFunc
<1>4. CASE watching.handler = "owner"
  <2>1. PICK n \in 1 .. Len(o.refs) :
          /\ o.refs[n].kind = "owner" /\ V!OwnerRequest(o.refs[n]) = r
          /\ \A k \in 1 .. n : ~V!Unusable(o.refs[k])
    BY <1>4, Zenon DEF V!OwnedBy
  <2>2. V!getOwnersReferences(o) = o.refs BY <1>4, Zenon DEF V!getOwnersReferences
  <2>3. r \in V!getOwnerReconcileRequest(o) BY <2>1, <2>2, Zenon DEF V!getOwnerReconcileRequest
  <2> QED BY <2>3, <1>4, Zenon DEF V!Handled, V!EnqueueRequestForOwner
<1>5. CASE watching.handler = "controller"
  <2> DEFINE c == {k \in 1 .. Len(o.refs) :
                     o.refs[k].controller /\ \A j \in 1 .. (k - 1) : ~o.refs[j].controller}
             m == CHOOSE k \in c : TRUE
  <2>1. PICK n \in 1 .. Len(o.refs) :
          /\ o.refs[n].kind = "owner" /\ V!OwnerRequest(o.refs[n]) = r /\ ~V!Unusable(o.refs[n])
          /\ o.refs[n].controller /\ \A k \in 1 .. (n - 1) : ~o.refs[k].controller
    BY <1>5, Zenon DEF V!OwnedBy
  <2>2. n \in c BY <2>1
  <2>3. \A k \in c : k = n BY <1>1, <2>1
  <2> HIDE DEF c
  <2>4. m \in c BY <2>2
  <2>5. m = n BY <2>3, <2>4
  <2> HIDE DEF m
  <2>6. V!getOwnersReferences(o) = <<o.refs[m]>>
    BY <1>5, <2>2, Zenon DEF V!getOwnersReferences, c, m
  <2>7. V!getOwnersReferences(o) = <<o.refs[n]>> BY <2>5, <2>6
  <2>8. r \in V!getOwnerReconcileRequest(o) BY <2>1, <2>7 DEF V!getOwnerReconcileRequest
  <2> QED BY <2>8, <1>5, Zenon DEF V!Handled, V!EnqueueRequestForOwner
<1> QED BY <1>2, <1>3, <1>4, <1>5, Zenon DEF V!OwnedBy

\* An event passes all the predicates.
EvPasses(e) == \A k \in 1 .. Len(watching.predicates) : V!Passes(watching.predicates[k], e)

\* The event of a notification, and when its requests are added.
EvEvent(n) == IF n.kind = "tombstone" THEN [n EXCEPT !.kind = "delete"] ELSE n

LEMMA EvRequested ==
    ASSUME V!ConstantsAssumption, watching \in Watchings, NEW n \in EvNotes, n.new # Nothing,
           NEW r, r \notin V!Requested(n), EvPasses(EvEvent(n))
    PROVE  /\ ~V!OwnedBy(n.new, r)
           /\ n.kind = "update" /\ n.old # Nothing => ~V!OwnedBy(n.old, r)
<1> DEFINE e == EvEvent(n)
<1>1. V!Adapt(n) = {e} BY Zenon DEF V!Adapt, EvEvent
<1>2. e.new = n.new /\ e.old = n.old /\ (e.kind = "update" <=> n.kind = "update")
  BY Zenon DEF EvEvent, EvNotes, V!Events
<1> HIDE DEF e
<1>3. r \notin V!Handled(e) BY <1>1, Zenon DEF V!Requested, EvPasses, e
<1>4. n.new \in V!Of(e) /\ (n.kind = "update" => n.old \in V!Of(e)) BY <1>2, Zenon DEF V!Of
<1>5. n.new \in V!Objects /\ (n.old # Nothing => n.old \in V!Objects) BY Zenon DEF EvNotes, V!Events
<1> QED BY <1>3, <1>4, <1>5, EvHandled

\* Only updates are dropped by a predicate that compares fields.
LEMMA EvCompares ==
    ASSUME V!ConstantsAssumption, watching \in Watchings, NEW n \in EvNotes, n.kind # "update",
           NEW p \in V!Filters, p.type # "selector"
    PROVE  V!Passes(p, EvEvent(n))
<1>1. EvEvent(n).kind # "update" BY Zenon DEF EvEvent, EvNotes, V!Events
<1>2. p.type \in {"or", "and"} /\ (p.type = "or" => Len(p.of) \in Nat \ {0})
  BY Zenon DEF V!ConstantsAssumption, V!Filters
<1>3. \A f : V!Changed(f, EvEvent(n)) BY <1>1, Zenon DEF V!Changed
<1>4. CASE p.type = "or" BY <1>2, <1>3, <1>4, 1 \in 1 .. Len(p.of), Zenon DEF V!Passes, V!OrPasses
<1>5. CASE p.type = "and" BY <1>3, <1>5, Zenon DEF V!Passes, V!AndPasses
<1> QED BY <1>2, <1>4, <1>5

\* A state of the object is good for itself.
LEMMA EvGoodNow ==
    ASSUME NEW o, NEW r
    PROVE  Good(V!ViewOf(o, r), o, r)
<1>1. CASE watching.handler = "object" /\ r = V!Self
  <2>1. V!OwnedBy(o, r) BY <1>1, Zenon DEF V!OwnedBy
  <2>2. V!ViewOf(o, r) = o BY <2>1, Zenon DEF V!ViewOf
  <2> QED BY <2>2, Zenon DEF Good
<1>2. CASE ~(watching.handler = "object" /\ r = V!Self) BY <1>2, Zenon DEF Good
<1> QED BY <1>1, <1>2

\* A notification that adds no request for r changes nothing that matters to
\* its reconciler.
LEMMA EvGoodKept ==
    ASSUME V!ConstantsAssumption, watching \in Watchings, NEW n \in EvNotes, EvNote(n),
           NEW s, NEW r, r \notin V!Requested(n), Good(s, Before(n), r)
    PROVE  Good(s, After(n), r)
<1> DEFINE e == EvEvent(n)
           b == Before(n)
           a == After(n)
<1>1. CASE a = b BY <1>1
<1>2. CASE a # b
  <2>1. n.new # Nothing BY <1>2, Zenon DEF Before, After, EvNotes, EvNote, V!Events
  <2>2. n.kind \in {"create", "update", "delete", "tombstone"} BY <1>2, Zenon DEF Before, After, EvNotes, V!Events
  <2>3. n.kind = "create" => b = Nothing /\ a = n.new BY Zenon DEF Before, After
  <2>4. n.kind = "update" => b = n.old /\ a = n.new BY Zenon DEF Before, After
  <2>5. n.kind \in {"delete", "tombstone"} => b = n.new /\ a = Nothing BY Zenon DEF Before, After
  <2>6. /\ e.new = n.new /\ e.old = n.old /\ (e.kind = "update" <=> n.kind = "update")
        /\ V!Adapt(n) = {e}
    BY <2>1, Zenon DEF EvEvent, EvNotes, V!Events, V!Adapt
  <2>7. n.kind = "update" => n.old # Nothing BY Zenon DEF EvNote
  <2> HIDE DEF e, a, b
  <2>8. V!Filters \subseteq {V!Watches("rv")} => s = V!ViewOf(a, r)
    <3> SUFFICES ASSUME V!Filters \subseteq {V!Watches("rv")} PROVE s = V!ViewOf(a, r)
      OBVIOUS
    <3>1. s = V!ViewOf(b, r) BY Zenon DEF Good, b
    <3>2. \A k \in 1 .. Len(watching.predicates) : watching.predicates[k] = V!Watches("rv")
      BY Zenon DEF V!Filters
    <3>3. CASE EvPasses(e)
      <4>1. ~V!OwnedBy(n.new, r) /\ (n.kind = "update" => ~V!OwnedBy(n.old, r))
        BY <3>3, <2>1, <2>7, EvRequested, Zenon DEF e
      <4>2. V!ViewOf(a, r) = Nothing /\ V!ViewOf(b, r) = Nothing
        BY <4>1, <2>2, <2>3, <2>4, <2>5, Zenon DEF V!ViewOf
      <4> QED BY <3>1, <4>2
    <3>4. CASE ~EvPasses(e)
      <4>1. PICK k \in 1 .. Len(watching.predicates) : ~V!Passes(watching.predicates[k], e)
        BY <3>4, Zenon DEF EvPasses
      <4>2. ~V!Passes(V!Watches("rv"), e) BY <4>1, <3>2
      <4>3. ~V!Changed("rv", e) BY <4>2 DEF V!Passes, V!OrPasses, V!Watches
      <4>4. n.kind = "update" /\ n.old.rv = n.new.rv BY <4>3, <2>6, Zenon DEF V!Changed
      <4>5. n.old = n.new BY <4>4, Zenon DEF EvNote
      <4> QED BY <4>4, <4>5, <2>4, <3>1
    <3> QED BY <3>3, <3>4
  <2>9. ASSUME watching.handler = "object", r = V!Self, NEW p \in V!Filters, V!Filters = {p}
        PROVE  ~V!Passes(p, e)
    <3>1. r \in V!Handled(e) BY <2>9, Zenon DEF V!Handled, V!EnqueueRequestForObject
    <3>2. ~EvPasses(e) BY <3>1, <2>6, Zenon DEF V!Requested, EvPasses
    <3>3. \A k \in 1 .. Len(watching.predicates) : watching.predicates[k] = p
      BY <2>9, Zenon DEF V!Filters
    <3> QED BY <3>2, <3>3, Zenon DEF EvPasses
  <2>10. ASSUME watching.handler = "object", r = V!Self,
                NEW p \in V!Filters, V!Filters = {p}, p.type # "selector"
         PROVE  /\ s = Nothing <=> a = Nothing
                /\ p.type = "or" /\ a # Nothing =>
                     \A i \in 1 .. Len(p.of) : s[p.of[i]] = a[p.of[i]]
    <3>1. ~V!Passes(p, e) BY <2>9, <2>10
    <3>2. n.kind = "update" BY <3>1, <2>10, EvCompares, Zenon DEF e
    <3>3. b = n.old /\ a = n.new /\ b # Nothing /\ a # Nothing BY <3>2, <2>1, <2>4, <2>7
    <3>4. /\ s = Nothing <=> b = Nothing
          /\ p.type = "or" => \A i \in 1 .. Len(p.of) : s[p.of[i]] = b[p.of[i]]
      BY <2>10, <3>3, Zenon DEF Good, b
    <3>5. p.type = "or" => \A i \in 1 .. Len(p.of) : b[p.of[i]] = a[p.of[i]]
      BY <3>1, <3>3, <2>6, Zenon DEF V!Passes, V!OrPasses, V!Changed
    <3> QED BY <3>3, <3>4, <3>5
  <2>11. ASSUME watching.handler = "object", r = V!Self,
                V!Filters = {[type |-> "selector"]}, a # Nothing, a.label = "in"
         PROVE  FALSE
    <3>1. ~V!Passes([type |-> "selector"], e) BY <2>9, <2>11
    <3>2. a = n.new BY <2>11, <2>2, <2>3, <2>4, <2>5
    <3> QED BY <3>1, <3>2, <2>6, <2>11, Zenon DEF V!Passes, V!Selects, V!Judged
  <2>12. a = After(n) BY Zenon DEF a
  <2> QED BY <2>8, <2>10, <2>11, <2>12, Zenon DEF Good
<1> QED BY <1>1, <1>2

\* What the methods of the queue change that matters here.
LEMMA EvQueue ==
    ASSUME NEW x \in V!Queues, ~x.shuttingDown
    PROVE  /\ \A k \in Items : /\ V!Add(x, k) \in V!Queues /\ ~V!Add(x, k).shuttingDown
                               /\ V!Add(x, k).dirty = x.dirty \cup {k}
           /\ \A k \in Items : /\ V!Done(x, k) \in V!Queues /\ ~V!Done(x, k).shuttingDown
                               /\ V!Done(x, k).dirty = x.dirty
           /\ V!CanGet(x) =>
                /\ Head(x.order) \in Items /\ V!Get(x) \in V!Queues /\ ~V!Get(x).shuttingDown
                /\ V!Get(x).dirty = x.dirty \ {Head(x.order)}
<1>1. x.order \in Seq(Items) /\ x.dirty \subseteq Items /\ x.processing \subseteq Items
  BY Zenon DEF V!Queues
<1>2. ASSUME NEW k \in Items
      PROVE  /\ V!Add(x, k) \in V!Queues /\ ~V!Add(x, k).shuttingDown
             /\ V!Add(x, k).dirty = x.dirty \cup {k}
  <2>1. Append(x.order, k) \in Seq(Items) BY <1>1
  <2>2. CASE k \in x.dirty BY <2>2, Zenon DEF V!Add
  <2>3. CASE k \notin x.dirty
    <3> DEFINE o == IF k \in x.processing THEN x.order ELSE Append(x.order, k)
               d == x.dirty \cup {k}
    <3>1. o \in Seq(Items) /\ d \in SUBSET Items BY <1>1, <2>1
    <3>2. V!Add(x, k) = [x EXCEPT !.dirty = d, !.order = o] BY <2>3, Zenon DEF V!Add
    <3> HIDE DEF o, d
    <3>3. V!Add(x, k) \in V!Queues /\ ~V!Add(x, k).shuttingDown /\ V!Add(x, k).dirty = d
      BY <3>1, <3>2, Zenon DEF V!Queues
    <3> QED BY <3>3, Zenon DEF d
  <2> QED BY <2>2, <2>3
<1>3. ASSUME NEW k \in Items
      PROVE  /\ V!Done(x, k) \in V!Queues /\ ~V!Done(x, k).shuttingDown
             /\ V!Done(x, k).dirty = x.dirty
  <2> DEFINE o == IF k \in x.dirty THEN Append(x.order, k) ELSE x.order
  <2>1. o \in Seq(Items) BY <1>1
  <2>2. V!Done(x, k) = [x EXCEPT !.processing = x.processing \ {k}, !.order = o] BY Zenon DEF V!Done
  <2> HIDE DEF o
  <2> QED BY <1>1, <2>1, <2>2, Zenon DEF V!Queues
<1>4. ASSUME V!CanGet(x)
      PROVE  /\ Head(x.order) \in Items /\ V!Get(x) \in V!Queues /\ ~V!Get(x).shuttingDown
             /\ V!Get(x).dirty = x.dirty \ {Head(x.order)}
  <2> DEFINE h == Head(x.order)
             o == Tail(x.order)
  <2>1. h \in Items /\ o \in Seq(Items) BY <1>1, <1>4 DEF V!CanGet
  <2>2. V!Get(x) = [x EXCEPT !.order = o, !.processing = x.processing \cup {h},
                             !.dirty = x.dirty \ {h}]
    BY Zenon DEF V!Get
  <2> DEFINE p == x.processing \cup {h}
             d == x.dirty \ {h}
  <2>4. p \in SUBSET Items /\ d \in SUBSET Items BY <1>1, <2>1
  <2>5. V!Get(x) = [x EXCEPT !.order = o, !.processing = p, !.dirty = d] BY <2>2
  <2> HIDE DEF h, o, p, d
  <2>3. V!Get(x) \in V!Queues /\ ~V!Get(x).shuttingDown /\ V!Get(x).dirty = d
    BY <2>1, <2>4, <2>5, Zenon DEF V!Queues
  <2> QED BY <2>1, <2>3, Zenon DEF h, d
<1> QED BY <1>2, <1>3, <1>4

\* The requests of the handlers are requests.
LEMMA EvRequests ==
    ASSUME V!ConstantsAssumption, watching \in Watchings, NEW n \in EvNotes, EvNote(n)
    PROVE  V!Requested(n) \subseteq V!Requests
<1>1. CASE n.new = Nothing BY <1>1, Zenon DEF V!Requested, V!Adapt
<1>2. CASE n.new # Nothing
  <2> DEFINE e == EvEvent(n)
  <2>1. V!Adapt(n) = {e} BY <1>2, Zenon DEF V!Adapt, EvEvent
  <2>2. e.new = n.new /\ e.old = n.old /\ (e.kind = "update" <=> n.kind = "update")
    BY Zenon DEF EvEvent, EvNotes, V!Events
  <2> HIDE DEF e
  <2>3. V!Of(e) \subseteq V!Objects BY <1>2, <2>2, Zenon DEF V!Of, EvNotes, EvNote, V!Events
  <2>4. \A m \in Owners : V!Owner(m, watching.scope) \in V!Requests
    BY DEF V!ConstantsAssumption, V!Requests
  <2>5. ASSUME NEW o \in V!Objects, NEW r \in V!getOwnerReconcileRequest(o) PROVE r \in V!Requests
    <3> DEFINE refs == V!getOwnersReferences(o)
    <3>1. o.refs \in Seq(V!Refs) BY Zenon DEF V!ConstantsAssumption, V!Objects
    <3>2. refs \in Seq(V!Refs)
      <4> DEFINE c == {k \in 1 .. Len(o.refs) :
                         o.refs[k].controller /\ \A j \in 1 .. (k - 1) : ~o.refs[j].controller}
                 m == CHOOSE k \in c : TRUE
      <4>1. CASE watching.handler = "owner" \/ c = {} BY <3>1, <4>1 DEF V!getOwnersReferences
      <4>2. CASE watching.handler # "owner" /\ c # {}
        <5> HIDE DEF c
        <5>2. m \in c BY <4>2
        <5> HIDE DEF m
        <5>3. o.refs[m] \in V!Refs BY <3>1, <5>2 DEF c
        <5>4. refs = <<o.refs[m]>> BY <4>2, Zenon DEF V!getOwnersReferences, c, m
        <5> QED BY <5>3, <5>4
      <4> QED BY <4>1, <4>2
    <3> HIDE DEF refs
    <3>3. PICK k \in 1 .. Len(refs) : r = V!OwnerRequest(refs[k])
      BY Zenon DEF V!getOwnerReconcileRequest, refs
    <3>4. refs[k] \in V!Refs BY <3>2
    <3>5. refs[k].name \in Owners BY <3>4, Zenon DEF V!Refs
    <3> QED BY <3>3, <3>5, <2>4, Zenon DEF V!OwnerRequest
  <2>6. V!EnqueueRequestForOwner(e) \subseteq V!Requests
    BY <2>3, <2>5, Zenon DEF V!EnqueueRequestForOwner
  <2>7. V!EnqueueRequestsFromMapFunc(e) \subseteq V!Requests
    <3>1. \A o \in V!Of(e) : mapsTo[o.label] \subseteq Owners
      BY <2>3, Zenon DEF V!ConstantsAssumption, V!Objects
    <3> QED BY <3>1, <2>4, Zenon DEF V!EnqueueRequestsFromMapFunc
  <2>8. V!EnqueueRequestForObject(e) \subseteq V!Requests
    BY DEF V!EnqueueRequestForObject, V!Requests
  <2>9. V!Handled(e) \subseteq V!Requests
    <3>1. watching.handler \in {"object", "mapped", "owner", "controller"}
      BY Zenon DEF V!ConstantsAssumption
    <3> QED BY <2>6, <2>7, <2>8, <3>1, Zenon DEF V!Handled
  <2> QED BY <2>1, <2>9, Zenon DEF V!Requested
<1> QED BY <1>1, <1>2

\* A notification is sent: the states of the cache before it stay.
LEMMA EvNoted ==
    ASSUME notes \in Seq(EvNotes), EvChain, NEW n \in EvNotes, EvNote(n),
           Before(n) = inCache, After(n) = inCache', notes' = Append(notes, n)
    PROVE  /\ notes' \in Seq(EvNotes) /\ Len(notes') = Len(notes) + 1
           /\ EvChain' /\ \A j \in 0 .. Len(notes) : At(j)' = At(j)
<1>1. /\ notes' \in Seq(EvNotes) /\ Len(notes) \in Nat /\ Len(notes') = Len(notes) + 1
      /\ \A i \in 1 .. Len(notes) : notes'[i] = notes[i]
      /\ notes'[Len(notes) + 1] = n
  OBVIOUS
<1>2. ASSUME NEW j \in 0 .. Len(notes) PROVE At(j)' = At(j)
  <2>1. CASE j = Len(notes) BY <1>1, <2>1 DEF At
  <2>2. CASE j < Len(notes)
    <3>1. notes'[j + 1] = notes[j + 1] BY <1>1, <2>2
    <3> QED BY <1>1, <2>2, <3>1 DEF At
  <2> QED BY <1>1, <2>1, <2>2
<1>3. \A i : i = Len(notes) + 1 => At(i)' = inCache' BY <1>1 DEF At
<1>4. ASSUME NEW i \in 1 .. Len(notes') PROVE EvNote(notes'[i]) /\ After(notes'[i]) = At(i)'
  <2>1. CASE i = Len(notes) + 1
    <3>1. At(i)' = inCache' BY <1>3, <2>1
    <3>2. notes'[i] = n BY <1>1, <2>1
    <3> QED BY <3>1, <3>2
  <2>2. CASE i \in 1 .. Len(notes)
    <3>1. EvNote(notes[i]) /\ After(notes[i]) = At(i) BY <2>2, Zenon DEF EvChain
    <3> QED BY <1>1, <1>2, <2>2, <3>1
  <2> QED BY <1>1, <2>1, <2>2
<1>5. EvChain' BY <1>4, Zenon DEF EvChain, EvNote, After, At
<1> QED BY <1>1, <1>2, <1>5

\* A notification is delivered: the states after it stay.
LEMMA EvDelivered ==
    ASSUME notes \in Seq(EvNotes), EvChain, notes # <<>>, notes' = Tail(notes), inCache' = inCache
    PROVE  /\ notes' \in Seq(EvNotes) /\ Len(notes) \in Nat \ {0} /\ Len(notes') = Len(notes) - 1
           /\ Head(notes) \in EvNotes /\ EvNote(Head(notes))
           /\ Before(Head(notes)) = At(0) /\ After(Head(notes)) = At(1)
           /\ EvChain' /\ \A j \in 1 .. Len(notes) : At(j - 1)' = At(j)
<1>1. /\ notes' \in Seq(EvNotes) /\ Len(notes) \in Nat \ {0} /\ Len(notes') = Len(notes) - 1
      /\ Head(notes) \in EvNotes /\ Head(notes) = notes[1]
      /\ \A i \in 1 .. Len(notes') : notes'[i] = notes[i + 1]
  OBVIOUS
<1>2. EvNote(Head(notes)) /\ After(Head(notes)) = At(1) BY <1>1 DEF EvChain
<1>3. Before(Head(notes)) = At(0) BY <1>1 DEF At
<1>4. ASSUME NEW j \in 1 .. Len(notes) PROVE At(j - 1)' = At(j)
  <2>1. CASE j = Len(notes) BY <1>1, <2>1 DEF At
  <2>2. CASE j < Len(notes)
    <3>1. notes'[j] = notes[j + 1] /\ j - 1 < Len(notes') /\ (j - 1) + 1 = j BY <1>1, <2>2
    <3>2. At(j - 1)' = Before(notes'[j]) BY <3>1, Zenon DEF At, Before
    <3>3. At(j) = Before(notes[j + 1]) BY <2>2, Zenon DEF At
    <3> QED BY <3>1, <3>2, <3>3
  <2>3. Len(notes) \in Nat BY <1>1
  <2>4. j = Len(notes) \/ j < Len(notes) BY <2>3
  <2> QED BY <2>1, <2>2, <2>4
<1>5. ASSUME NEW i \in 1 .. Len(notes') PROVE EvNote(notes'[i]) /\ After(notes'[i]) = At(i)'
  <2>1. i + 1 \in 1 .. Len(notes) /\ (i + 1) - 1 = i BY <1>1
  <2>2. EvNote(notes[i + 1]) /\ After(notes[i + 1]) = At(i + 1) BY <2>1, Zenon DEF EvChain
  <2>3. At((i + 1) - 1)' = At(i + 1) BY <1>4, <2>1
  <2>4. At(i)' = At(i + 1) BY <2>1, <2>3
  <2> QED BY <1>1, <2>2, <2>4
<1>6. EvChain' BY <1>5, Zenon DEF EvChain, EvNote, After, At
<1> QED BY <1>1, <1>2, <1>3, <1>4, <1>6

\* What is good depends on the watch only, which does not change.
LEMMA EvStable ==
    ASSUME watching' = watching
    PROVE  \A s, o, r : Good(s, o, r)' <=> Good(s, o, r)
<1>1. ASSUME NEW o, NEW r PROVE V!OwnedBy(o, r)' <=> V!OwnedBy(o, r)
  BY Zenon DEF V!OwnedBy, V!Self, V!Owner, V!OwnerRequest, V!Unusable
<1>2. \A o, r : V!ViewOf(o, r)' = V!ViewOf(o, r) BY <1>1, Zenon DEF V!ViewOf
<1>3. V!Filters' = V!Filters BY Zenon DEF V!Filters
<1>4. ASSUME NEW s, NEW o, NEW r PROVE Good(s, o, r)' <=> Good(s, o, r)
  <2>1. V!ViewOf(o, r)' = V!ViewOf(o, r) BY <1>2
  <2> QED BY <2>1, <1>3, Zenon DEF Good
<1> QED BY <1>4

\* Only the requests in P are reconciled, with the cache as it is.
EvReconciles(S) ==
    \A r \in V!Requests :
        IF r \in S THEN Good(seen'[r], inCache, r)
        ELSE seen'[r] = seen[r] /\ (Pending(r) => Pending(r)')

\* What was seen stays good while the handler and the cache do not move.
LEMMA EvSeenSame ==
    ASSUME EvSeen, watching' = watching, notes' = notes, inCache' = inCache, notes \in Seq(EvNotes),
           NEW S, EvReconciles(S)
    PROVE  EvSeen'
<1>1. \A j : At(j)' = At(j) BY Zenon DEF At, Before
<1>2. Len(notes) \in Nat /\ At(Len(notes)) = inCache BY DEF At
<1>3. ASSUME NEW r \in V!Requests
      PROVE  Pending(r)' \/ \E j \in 0 .. Len(notes') : Good(seen'[r], At(j)', r)
  <2>1. CASE r \in S
    <3>1. Good(seen'[r], inCache, r) BY <2>1, Zenon DEF EvReconciles
    <3>2. Good(seen'[r], At(Len(notes))', r) BY <1>1, <1>2, <3>1
    <3>3. Len(notes) \in 0 .. Len(notes') BY <1>2
    <3> QED BY <3>2, <3>3
  <2>2. CASE r \notin S
    <3>1. seen'[r] = seen[r] /\ (Pending(r) => Pending(r)') BY <2>2, Zenon DEF EvReconciles
    <3>2. Pending(r) \/ \E j \in 0 .. Len(notes) : Good(seen[r], At(j), r) BY Zenon DEF EvSeen
    <3> QED BY <3>1, <3>2, <1>1
  <2> QED BY <2>1, <2>2
<1> QED BY <1>3, EvStable, Zenon DEF EvSeen

\* The API server.
LEMMA EvWrites ==
    ASSUME V!ConstantsAssumption, EvInv, V!Create \/ V!Update \/ V!Delete
    PROVE  EvInv'
<1>1. /\ UNCHANGED <<watching, inCache, notes, adding, q, holds, read, seen>>
      /\ notes \in Seq(EvNotes)
  BY Zenon DEF EvInv, V!TypeOK, EvNotes, V!Create, V!Update, V!Delete, V!Write
<1>2. /\ writes \in Nat /\ writes <= MaxWrites /\ MaxWrites \in Nat
      /\ (object # Nothing => object \in V!Objects /\ object.rv <= writes /\ object.gen <= writes)
      /\ Nothing \notin V!Objects
      /\ (inCache # Nothing => inCache \in V!Objects /\ inCache.rv <= writes)
      /\ watching.refLists \subseteq RefLists /\ watching.labels \subseteq V!Labels
      /\ watching.annotations \subseteq BOOLEAN
  BY DEF EvInv, EvVersions, V!TypeOK, V!ConstantsAssumption
<1>3. /\ object' \in V!Objects \cup {Nothing} /\ writes' \in 0 .. MaxWrites
      /\ writes <= writes'
      /\ object' # Nothing =>
           /\ object'.rv <= writes' /\ object'.gen <= writes'
           /\ object'.rv = writes + 1
  <2>1. CASE V!Create
    <3>1. PICK l \in watching.labels, r \in watching.refLists :
            V!Write([rv |-> writes + 1, gen |-> 1, label |-> l, annotation |-> FALSE, refs |-> r])
      BY <2>1, Zenon DEF V!Create
    <3>2. writes < MaxWrites BY <2>1, Zenon DEF V!Create
    <3>3. writes + 1 \in 1 .. MaxWrites /\ 1 \in 1 .. MaxWrites /\ 1 <= writes + 1
      BY <1>2, <3>2
    <3>4. object' = [rv |-> writes + 1, gen |-> 1, label |-> l, annotation |-> FALSE, refs |-> r]
      BY <3>1, Zenon DEF V!Write
    <3>5. object' \in V!Objects /\ object'.rv = writes + 1 /\ object'.gen = 1
      BY <1>2, <3>3, <3>4, Zenon DEF V!Objects
    <3>6. writes' = writes + 1 BY <3>1, Zenon DEF V!Write
    <3> QED BY <1>2, <3>3, <3>5, <3>6
  <2>2. CASE V!Update
    <3>0. writes < MaxWrites /\ object # Nothing BY <2>2, Zenon DEF V!Update
    <3>1. writes + 1 \in 1 .. MaxWrites /\ object # Nothing BY <3>0, <1>2
    <3> DEFINE o == [object EXCEPT !.rv = writes + 1]
    <3>2. /\ o \in V!Objects /\ o.rv = writes + 1 /\ o.gen = object.gen /\ o.gen \in Nat
          /\ o.gen + 1 \in 1 .. MaxWrites /\ o.gen + 1 <= writes + 1
      BY <1>2, <3>1 DEF V!Objects
    <3>3. \/ V!Write([o EXCEPT !.gen = @ + 1])
          \/ \E l \in watching.labels \ {o.label} : V!Write([o EXCEPT !.label = l])
          \/ \E a \in watching.annotations \ {o.annotation} : V!Write([o EXCEPT !.annotation = a])
          \/ \E r \in watching.refLists \ {o.refs} : V!Write([o EXCEPT !.refs = r])
      BY <2>2, Zenon DEF V!Update
    <3> HIDE DEF o
    <3>4. writes' = writes + 1 BY <3>3, Zenon DEF V!Write
    <3>5. CASE V!Write([o EXCEPT !.gen = @ + 1])
      BY <3>5, <3>1, <3>2, <3>4, <1>2 DEF V!Write, V!Objects
    <3>6. CASE \E l \in watching.labels \ {o.label} : V!Write([o EXCEPT !.label = l])
      BY <3>6, <3>1, <3>2, <3>4, <1>2 DEF V!Write, V!Objects
    <3>7. CASE \E a \in watching.annotations \ {o.annotation} : V!Write([o EXCEPT !.annotation = a])
      <4>1. PICK a \in BOOLEAN : V!Write([o EXCEPT !.annotation = a]) BY <3>7, <1>2
      <4>2. object' = [o EXCEPT !.annotation = a] BY <4>1, Zenon DEF V!Write
      <4>3. object' \in V!Objects /\ object'.rv = o.rv /\ object'.gen = o.gen
        BY <3>2, <4>2, Zenon DEF V!Objects
      <4> QED BY <4>3, <3>1, <3>2, <3>4, <1>2
    <3>8. CASE \E r \in watching.refLists \ {o.refs} : V!Write([o EXCEPT !.refs = r])
      BY <3>8, <3>1, <3>2, <3>4, <1>2 DEF V!Write, V!Objects
    <3> QED BY <3>3, <3>5, <3>6, <3>7, <3>8
  <2>3. CASE V!Delete BY <2>3, <1>2 DEF V!Delete
  <2> QED BY <2>1, <2>2, <2>3
<1>4. V!TypeOK' BY <1>1, <1>3, Zenon DEF EvInv, V!TypeOK
<1>5. EvVersions'
  <2>1. inCache # Nothing => inCache.rv \in Nat /\ inCache.rv <= writes BY <1>2 DEF V!Objects
  <2>2. writes' \in Nat BY <1>3, <1>2
  <2> QED BY <1>1, <1>2, <1>3, <2>1, <2>2 DEF EvVersions
<1>6. EvChain' /\ EvWorker'
  BY <1>1, Zenon DEF EvInv, EvChain, EvWorker, EvNote, At, Before, After
<1>7. EvSeen'
  <2>1. \A r : Pending(r)' <=> Pending(r) BY <1>1, Zenon DEF Pending
  <2>2. EvReconciles({}) BY <1>1, <2>1, Zenon DEF EvReconciles
  <2> QED BY <1>1, <2>2, EvSeenSame, Zenon DEF EvInv
<1> QED BY <1>4, <1>5, <1>6, <1>7, Zenon DEF EvInv

\* The informer.
LEMMA EvInforms ==
    ASSUME V!ConstantsAssumption, EvInv, V!InformerSees \/ V!InformerRepeats
    PROVE  EvInv'
<1>1. /\ UNCHANGED <<watching, object, writes, adding, q, holds, read, seen>>
      /\ notes \in Seq(EvNotes) /\ Len(notes) < MaxNotes
      /\ object \in V!Objects \cup {Nothing} /\ inCache \in V!Objects \cup {Nothing}
      /\ inCache' \in {object, inCache} /\ Nothing \notin V!Objects /\ MaxNotes \in Nat
  BY Zenon DEF EvInv, V!TypeOK, EvNotes, V!InformerSees, V!InformerRepeats, V!Note, V!ConstantsAssumption
<1>2. PICK n \in EvNotes :
        EvNote(n) /\ Before(n) = inCache /\ After(n) = inCache' /\ notes' = Append(notes, n)
  <2> DEFINE N(k, o, w) == [kind |-> k, old |-> o, new |-> w]
  <2>0. \A k, o, w : N(k, o, w).kind = k /\ N(k, o, w).old = o /\ N(k, o, w).new = w
    OBVIOUS
  <2>1. \A k, o, w : V!Note(k, o, w) => notes' = Append(notes, N(k, o, w)) BY Zenon DEF V!Note
  <2>2. ASSUME NEW o \in V!Objects \cup {Nothing}, NEW w \in V!Objects \cup {Nothing}
        PROVE  /\ \A k \in {"create", "update", "delete", "generic"} : N(k, o, w) \in EvNotes
               /\ N("tombstone", Nothing, w) \in EvNotes
    BY Zenon DEF EvNotes, V!Events
  <2> HIDE DEF N
  <2>3. CASE V!InformerSees
    <3>1. inCache' = object BY <2>3, Zenon DEF V!InformerSees
    <3>2. CASE inCache = Nothing
      <4>1. notes' = Append(notes, N("create", Nothing, object)) /\ object # Nothing
        BY <2>1, <2>3, <3>2, Zenon DEF V!InformerSees
      <4> QED BY <1>1, <2>0, <2>2, <3>1, <3>2, <4>1 DEF EvNote, Before, After
    <3>3. CASE inCache # Nothing /\ object = Nothing
      <4>1. PICK k \in {"delete", "tombstone"} : notes' = Append(notes, N(k, Nothing, inCache))
        BY <2>1, <2>3, <3>3, Zenon DEF V!InformerSees
      <4> QED BY <1>1, <2>0, <2>2, <3>1, <3>3, <4>1 DEF EvNote, Before, After
    <3>4. CASE inCache # Nothing /\ object # Nothing
      <4>1. notes' = Append(notes, N("update", inCache, object))
        BY <2>1, <2>3, <3>4, Zenon DEF V!InformerSees
      <4>2. inCache.rv = object.rv => inCache = object BY <3>4, Zenon DEF EvInv, EvVersions
      <4> QED BY <1>1, <2>0, <2>2, <3>1, <3>4, <4>1, <4>2 DEF EvNote, Before, After
    <3> QED BY <3>2, <3>3, <3>4
  <2>4. CASE V!InformerRepeats
    <3>1. inCache' = inCache BY <2>4, Zenon DEF V!InformerRepeats
    <3>2. CASE inCache # Nothing /\ V!Note("update", inCache, inCache)
      BY <1>1, <2>0, <2>1, <2>2, <3>1, <3>2 DEF EvNote, Before, After
    <3>3. CASE inCache # Nothing /\ V!Note("generic", Nothing, inCache)
      BY <1>1, <2>0, <2>1, <2>2, <3>1, <3>3 DEF EvNote, Before, After
    <3>4. CASE inCache = Nothing /\ V!Note("tombstone", Nothing, Nothing)
      BY <1>1, <2>0, <2>1, <2>2, <3>1, <3>4 DEF EvNote, Before, After
    <3> QED BY <2>4, <3>2, <3>3, <3>4, Zenon DEF V!InformerRepeats
  <2> QED BY <2>3, <2>4
<1>3. /\ notes' \in Seq(EvNotes) /\ Len(notes') = Len(notes) + 1 /\ Len(notes) \in Nat
      /\ EvChain' /\ \A j \in 0 .. Len(notes) : At(j)' = At(j)
  BY <1>1, <1>2, EvNoted DEF EvInv
<1>4. V!TypeOK' BY <1>1, <1>3 DEF EvInv, V!TypeOK, EvNotes
<1>5. EvVersions' BY <1>1, Zenon DEF EvInv, EvVersions
<1>6. EvWorker' BY <1>1, Zenon DEF EvInv, EvWorker
<1>7. EvSeen'
  <2>1. \A r : Pending(r)' <=> Pending(r) BY <1>1, Zenon DEF Pending
  <2>2. ASSUME NEW r \in V!Requests
        PROVE  Pending(r)' \/ \E j \in 0 .. Len(notes') : Good(seen'[r], At(j)', r)
    <3>1. CASE Pending(r) BY <2>1, <3>1
    <3>2. CASE ~Pending(r)
      <4>1. PICK j \in 0 .. Len(notes) : Good(seen[r], At(j), r) BY <3>2, Zenon DEF EvInv, EvSeen
      <4>2. j \in 0 .. Len(notes') BY <1>3
      <4>3. Good(seen'[r], At(j)', r) BY <1>1, <1>3, <4>1
      <4> QED BY <4>2, <4>3
    <3> QED BY <3>1, <3>2
  <2> QED BY <1>1, <2>2, EvStable, Zenon DEF EvSeen
<1> QED BY <1>3, <1>4, <1>5, <1>6, <1>7, Zenon DEF EvInv

\* The adapter and the handler.
LEMMA EvDelivers ==
    ASSUME V!ConstantsAssumption, EvInv, V!Deliver
    PROVE  EvInv'
<1> DEFINE h == Head(notes)
<1>1. /\ UNCHANGED <<watching, object, writes, inCache, q, holds, read, seen>>
      /\ notes # <<>> /\ adding = {} /\ notes' = Tail(notes) /\ adding' = V!Requested(h)
      /\ notes \in Seq(EvNotes) /\ watching \in Watchings
  BY Zenon DEF EvInv, V!TypeOK, EvNotes, V!Deliver
<1>2. /\ notes' \in Seq(EvNotes) /\ Len(notes) \in Nat \ {0} /\ Len(notes') = Len(notes) - 1
      /\ h \in EvNotes /\ EvNote(h) /\ Before(h) = At(0) /\ After(h) = At(1)
      /\ EvChain' /\ \A j \in 1 .. Len(notes) : At(j - 1)' = At(j)
  BY <1>1, EvDelivered, Zenon DEF EvInv
<1> HIDE DEF h
<1>3. V!Requested(h) \subseteq V!Requests BY <1>1, <1>2, EvRequests
<1>4. Len(notes') <= MaxNotes
  <2>1. Len(notes) <= MaxNotes /\ MaxNotes \in Nat BY Zenon DEF EvInv, V!TypeOK, V!ConstantsAssumption
  <2> QED BY <1>2, <2>1
<1>5. V!TypeOK' BY <1>1, <1>2, <1>3, <1>4, Zenon DEF EvInv, V!TypeOK, EvNotes
<1>6. EvVersions' BY <1>1, Zenon DEF EvInv, EvVersions
<1>7. EvWorker' BY <1>1, Zenon DEF EvInv, EvWorker
<1>8. EvSeen'
  <2>1. \A r : Pending(r)' <=> Pending(r) \/ r \in V!Requested(h) BY <1>1, Zenon DEF Pending
  <2>2. ASSUME NEW r \in V!Requests
        PROVE  Pending(r)' \/ \E j \in 0 .. Len(notes') : Good(seen'[r], At(j)', r)
    <3>1. CASE Pending(r) \/ r \in V!Requested(h) BY <2>1, <3>1
    <3>2. CASE ~Pending(r) /\ r \notin V!Requested(h)
      <4>1. PICK j \in 0 .. Len(notes) : Good(seen[r], At(j), r) BY <3>2, Zenon DEF EvInv, EvSeen
      <4>2. \E i \in 1 .. Len(notes) : Good(seen[r], At(i), r)
        <5>1. CASE j = 0
          <6>1. Good(seen[r], Before(h), r) BY <1>2, <4>1, <5>1
          <6>2. Good(seen[r], After(h), r) BY <1>1, <1>2, <3>2, <6>1, EvGoodKept
          <6> QED BY <1>2, <6>2, 1 \in 1 .. Len(notes)
        <5>2. CASE j # 0
          <6>1. j \in 1 .. Len(notes) BY <1>2, <5>2
          <6> QED BY <4>1, <6>1
        <5> QED BY <5>1, <5>2
      <4>3. PICK i \in 1 .. Len(notes) : Good(seen[r], At(i), r) BY <4>2
      <4>4. Good(seen'[r], At(i - 1)', r) BY <1>1, <1>2, <4>3
      <4>5. i - 1 \in 0 .. Len(notes') BY <1>2
      <4> QED BY <4>4, <4>5
    <3> QED BY <3>1, <3>2
  <2> QED BY <1>1, <2>2, EvStable, Zenon DEF EvSeen
<1> QED BY <1>2, <1>5, <1>6, <1>7, <1>8, Zenon DEF EvInv

\* A step that leaves the object, the informer and its notifications alone.
LEMMA EvRest ==
    ASSUME EvInv, UNCHANGED <<watching, object, writes, inCache, notes>>,
           adding' \subseteq V!Requests, q' \in V!Queues, ~q'.shuttingDown,
           holds' \in V!Requests \cup {Nothing}, read' \in BOOLEAN, holds' = Nothing => ~read',
           seen' \in [V!Requests -> V!Objects \cup {Nothing}]
    PROVE  V!TypeOK' /\ EvVersions' /\ EvWorker' /\ EvChain'
<1>1. V!TypeOK' BY Zenon DEF EvInv, V!TypeOK
<1>2. EvVersions' BY Zenon DEF EvInv, EvVersions
<1>3. EvWorker' BY Zenon DEF EvWorker
<1>4. EvChain' BY Zenon DEF EvInv, EvChain, EvNote, At, Before, After
<1> QED BY <1>1, <1>2, <1>3, <1>4

\* The queue and the worker.
LEMMA EvWorks ==
    ASSUME V!ConstantsAssumption, EvInv,
           (\E r \in V!Requests : V!Enqueue(r)) \/ V!WorkerGets \/ V!Reconcile \/ V!ReconcileDone
    PROVE  EvInv'
<1>1. /\ UNCHANGED <<watching, object, writes, inCache, notes>>
      /\ adding \subseteq V!Requests /\ q \in V!Queues /\ ~q.shuttingDown
      /\ holds \in V!Requests \cup {Nothing} /\ read \in BOOLEAN
      /\ holds = Nothing => ~read
      /\ seen \in [V!Requests -> V!Objects \cup {Nothing}]
      /\ Items = V!Requests /\ Nothing \notin V!Requests
      /\ inCache \in V!Objects \cup {Nothing} /\ EvSeen /\ notes \in Seq(EvNotes)
  BY Zenon DEF EvInv, EvWorker, V!TypeOK, EvNotes, V!ConstantsAssumption, V!Enqueue, V!WorkerGets,
         V!Reconcile, V!ReconcileDone
<1>2. ASSUME NEW r \in V!Requests, V!Enqueue(r) PROVE EvInv'
  <2>1. UNCHANGED <<holds, read, seen>> /\ q' = V!Add(q, r) /\ adding' = adding \ {r}
    BY <1>2, Zenon DEF V!Enqueue
  <2>2. q' \in V!Queues /\ ~q'.shuttingDown /\ q'.dirty = q.dirty \cup {r}
    BY <1>1, <2>1, EvQueue
  <2>3. V!TypeOK' /\ EvVersions' /\ EvWorker' /\ EvChain' BY <1>1, <2>1, <2>2, EvRest
  <2>4. \A k \in V!Requests : seen'[k] = seen[k] /\ (Pending(k) => Pending(k)')
    BY <2>1, <2>2, Zenon DEF Pending
  <2>5. EvReconciles({}) BY <2>4, Zenon DEF EvReconciles
  <2>6. EvSeen' BY <1>1, <2>5, EvSeenSame
  <2> QED BY <2>3, <2>6, Zenon DEF EvInv
<1>3. CASE V!WorkerGets
  <2> DEFINE h == Head(q.order)
  <2>1. /\ UNCHANGED <<adding, read, seen>> /\ q' = V!Get(q) /\ holds' = h /\ holds = Nothing
        /\ V!CanGet(q)
    BY <1>3, Zenon DEF V!WorkerGets
  <2>2. q' \in V!Queues /\ ~q'.shuttingDown /\ q'.dirty = q.dirty \ {h} /\ h \in Items
    BY <1>1, <2>1, EvQueue
  <2> HIDE DEF h
  <2>3. V!TypeOK' /\ EvVersions' /\ EvWorker' /\ EvChain' BY <1>1, <2>1, <2>2, EvRest
  <2>4. \A k \in V!Requests : seen'[k] = seen[k] /\ (Pending(k) => Pending(k)')
    BY <1>1, <2>1, <2>2, Zenon DEF Pending
  <2>5. EvReconciles({}) BY <2>4, Zenon DEF EvReconciles
  <2>6. EvSeen' BY <1>1, <2>5, EvSeenSame
  <2> QED BY <2>3, <2>6, Zenon DEF EvInv
<1>4. CASE V!Reconcile
  <2>1. /\ UNCHANGED <<adding, q, holds>> /\ holds \in V!Requests /\ ~read /\ read' = TRUE
        /\ seen' = [seen EXCEPT ![holds] = V!ViewOf(inCache, holds)]
    BY <1>1, <1>4, Zenon DEF V!Reconcile
  <2>2. V!ViewOf(inCache, holds) \in V!Objects \cup {Nothing} BY <1>1, Zenon DEF V!ViewOf
  <2>3. /\ seen' \in [V!Requests -> V!Objects \cup {Nothing}]
        /\ seen'[holds] = V!ViewOf(inCache, holds)
        /\ \A k \in V!Requests : k # holds => seen'[k] = seen[k]
    BY <1>1, <2>1, <2>2
  <2>4. V!TypeOK' /\ EvVersions' /\ EvWorker' /\ EvChain' BY <1>1, <2>1, <2>3, EvRest
  <2>5. \A k \in V!Requests \ {holds} : Pending(k) => Pending(k)' BY <2>1, Zenon DEF Pending
  <2>6. EvReconciles({holds}) BY <2>3, <2>5, EvGoodNow, Zenon DEF EvReconciles
  <2>7. EvSeen' BY <1>1, <2>1, <2>6, EvSeenSame
  <2> QED BY <2>4, <2>7, Zenon DEF EvInv
<1>5. CASE V!ReconcileDone
  <2>1. /\ UNCHANGED <<adding, seen>> /\ q' = V!Done(q, holds) /\ holds' = Nothing /\ read' = FALSE
        /\ read /\ holds \in V!Requests
    BY <1>1, <1>5, Zenon DEF V!ReconcileDone
  <2>2. q' \in V!Queues /\ ~q'.shuttingDown /\ q'.dirty = q.dirty BY <1>1, <2>1, EvQueue
  <2>3. V!TypeOK' /\ EvVersions' /\ EvWorker' /\ EvChain' BY <1>1, <2>1, <2>2, EvRest
  <2>4. \A k \in V!Requests : seen'[k] = seen[k] /\ (Pending(k) => Pending(k)')
    BY <2>1, <2>2, Zenon DEF Pending
  <2>5. EvReconciles({}) BY <2>4, Zenon DEF EvReconciles
  <2>6. EvSeen' BY <1>1, <2>5, EvSeenSame
  <2> QED BY <2>3, <2>6, Zenon DEF EvInv
<1> QED BY <1>2, <1>3, <1>4, <1>5

\* What the invariant says of the reconcilers.
LEMMA EvMeans == ASSUME EvInv PROVE OwnersCurrent /\ FilteredCurrent
<1>1. ASSUME NEW r \in V!Requests, V!Settled(r) PROVE Good(seen[r], inCache, r)
  <2>1. ~Pending(r) /\ notes = <<>> BY <1>1, Zenon DEF V!Settled, Pending
  <2>2. PICK j \in 0 .. Len(notes) : Good(seen[r], At(j), r) BY <2>1, Zenon DEF EvInv, EvSeen
  <2>3. At(j) = inCache BY <2>1 DEF At
  <2> QED BY <2>2, <2>3
<1>2. V!OwnersCurrent BY <1>1, Zenon DEF V!OwnersCurrent, Good
<1>3. V!Self \in V!Requests BY DEF V!Requests
<1>4. V!FieldsCurrent
  <2> SUFFICES ASSUME NEW p \in V!Filters, V!Filters = {p}, p.type # "selector",
                      watching.handler = "object", V!Settled(V!Self)
               PROVE  /\ seen[V!Self] = Nothing <=> inCache = Nothing
                      /\ p.type = "or" /\ inCache # Nothing =>
                           \A n \in 1 .. Len(p.of) : seen[V!Self][p.of[n]] = inCache[p.of[n]]
    BY Zenon DEF V!FieldsCurrent
  <2>1. Good(seen[V!Self], inCache, V!Self) BY <1>1, <1>3
  <2> QED BY <2>1, Zenon DEF Good
<1>5. V!SelectedCurrent BY <1>1, <1>3, Zenon DEF V!SelectedCurrent, Good
<1> QED BY <1>2, <1>4, <1>5, Zenon DEF OwnersCurrent, FilteredCurrent, V!FilteredCurrent, EvInv

\* Nothing was seen, and there is nothing to see.
LEMMA EvStarts == ASSUME V!ConstantsAssumption, V!Init PROVE EvInv
<1>1. notes = <<>> /\ inCache = Nothing /\ MaxNotes \in Nat /\ MaxWrites \in Nat
  BY Zenon DEF V!Init, V!ConstantsAssumption
<1>2. V!TypeOK
  <2>1. q \in V!Queues
    <3>1. q = V!NewQueue BY Zenon DEF V!Init
    <3>2. <<>> \in Seq(Items) /\ {} \subseteq Items OBVIOUS
    <3>3. V!NewQueue \in V!Queues BY ONLY <3>2 DEF V!Queues, V!NewQueue
    <3> QED BY <3>1, <3>3
  <2>2. notes \in Seq(EvNotes) /\ Len(notes) <= MaxNotes BY <1>1
  <2>3. seen \in [V!Requests -> V!Objects \cup {Nothing}] BY Zenon DEF V!Init
  <2>4. writes \in 0 .. MaxWrites BY <1>1 DEF V!Init
  <2>5. /\ watching \in Watchings /\ object = Nothing /\ inCache = Nothing /\ adding = {} /\ holds = Nothing
        /\ read \in BOOLEAN
    BY Zenon DEF V!Init
  <2> QED BY <2>1, <2>2, <2>3, <2>4, <2>5, Zenon DEF V!TypeOK, EvNotes
<1>3. EvChain /\ EvVersions BY <1>1 DEF V!Init, EvChain, EvVersions
<1>4. EvWorker BY Zenon DEF V!Init, EvWorker, V!NewQueue
<1>5. EvSeen
  <2>1. ASSUME NEW r \in V!Requests PROVE Good(seen[r], At(0), r)
    <3>1. seen[r] = Nothing /\ At(0) = Nothing BY <1>1 DEF V!Init, At
    <3>2. V!ViewOf(Nothing, r) = Nothing BY Zenon DEF V!ViewOf
    <3>3. Good(V!ViewOf(Nothing, r), Nothing, r) BY EvGoodNow
    <3> QED BY <3>1, <3>2, <3>3
  <2>2. 0 \in 0 .. Len(notes) BY <1>1
  <2> QED BY <2>1, <2>2, Zenon DEF EvSeen
<1> QED BY <1>2, <1>3, <1>4, <1>5, Zenon DEF EvInv

\* Every step preserves the invariant.
LEMMA EvSteps == ASSUME V!ConstantsAssumption, EvInv, [V!Next]_V!vars PROVE EvInv'
<1>1. CASE UNCHANGED V!vars
  <2>1. UNCHANGED <<watching, object, writes, inCache, notes, adding, q, holds, read, seen>>
    BY <1>1, Zenon DEF V!vars
  <2>2. /\ adding' \subseteq V!Requests /\ q' \in V!Queues /\ ~q'.shuttingDown
        /\ holds' \in V!Requests \cup {Nothing} /\ read' \in BOOLEAN
        /\ holds' = Nothing => ~read'
        /\ seen' \in [V!Requests -> V!Objects \cup {Nothing}] /\ notes \in Seq(EvNotes)
    BY <2>1, Zenon DEF EvInv, V!TypeOK, EvWorker, EvNotes
  <2>3. V!TypeOK' /\ EvVersions' /\ EvWorker' /\ EvChain' BY <2>1, <2>2, EvRest
  <2>4. \A k \in V!Requests : seen'[k] = seen[k] /\ (Pending(k) => Pending(k)')
    BY <2>1, Zenon DEF Pending
  <2>5. EvReconciles({}) BY <2>4, Zenon DEF EvReconciles
  <2>6. EvSeen' BY <2>1, <2>2, <2>5, EvSeenSame, Zenon DEF EvInv
  <2> QED BY <2>3, <2>6, Zenon DEF EvInv
<1>2. CASE V!Next BY <1>2, EvWrites, EvInforms, EvDelivers, EvWorks, Zenon DEF V!Next
<1> QED BY <1>1, <1>2

\* No wake-up is lost (OwnersCurrent): for any handler, scope, owners and
\* number of writes, with no predicate or the one on resource versions, a
\* reconciler with nothing on its way to it has seen the object as the cache
\* holds it, and a former owner has seen that it is theirs no more.
THEOREM OwnersCurrentHolds == V!Spec => []OwnersCurrent
<1>1. V!Init => EvInv BY EvStarts, EventsConstants
<1>2. EvInv /\ [V!Next]_V!vars => EvInv' BY EvSteps, EventsConstants
<1>3. EvInv => OwnersCurrent BY EvMeans
<1> QED BY <1>1, <1>2, <1>3, PTL DEF V!Spec

\* Filters hide no more than they say (FilteredCurrent): for any predicates of
\* the kinds modelled, a reconciler with nothing on its way to it knows whether
\* the object is there, the fields the predicates compare, and a selected
\* object as the cache holds it.
THEOREM FilteredCurrentHolds == V!Spec => []FilteredCurrent
<1>1. V!Init => EvInv BY EvStarts, EventsConstants
<1>2. EvInv /\ [V!Next]_V!vars => EvInv' BY EvSteps, EventsConstants
<1>3. EvInv => FilteredCurrent BY EvMeans
<1> QED BY <1>1, <1>2, <1>3, PTL DEF V!Spec

=============================================================================
