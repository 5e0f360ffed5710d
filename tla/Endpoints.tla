------------------------------ MODULE Endpoints ------------------------------
(***************************************************************************)
(* pkg/manager/internal.go: the manager's own servers.  Goroutines add     *)
(* health and ready checks and metrics handlers and ask for the webhook    *)
(* server while Start launches the metrics and the probe server, requests  *)
(* come in and the stop procedure ends everything.  Some of the goroutines *)
(* are runnables, which the stop procedure waits for with mu held.         *)
(***************************************************************************)
EXTENDS Naturals, FiniteSets

CONSTANTS Callers,   \* goroutines that make one call each
          Op,        \* their calls: "healthz", "readyz", "webhook" or a metrics path
          Inside,    \* the callers that are runnables of the manager
          Scenarios  \* pairs of the servers that are configured and the callers there are

Servers == {"metrics", "probes"}
Probes == {"healthz", "readyz"}
defaultMetricsEndpoint == "/metrics"
Free == "free"
Done == "done"

VARIABLES
    grace,           \* gracefulShutdownTimeout: "zero", "finite" or "infinite"
    listeners,       \* the servers that have a listener
    mgr,             \* where Start is
    mu,              \* Free, or "stop": only the stop procedure holds it across a wait
    engaged,         \* stopProcedureEngaged
    shutdownCtx,
    healthzStarted,
    checks,          \* the callers whose checks each handler has; none: the handler is nil
    mounted,         \* the probes the mux serves
    handlers,        \* metricsExtraHandlers, as the callers that added them
    early,           \* history: those added before Start
    served,          \* the ones the metrics mux serves
    once,            \* webhookServerOnce: Free, the caller that is in it, or Done
    call,            \* where each caller is
    main,            \* serveMetrics and serveHealthProbes
    run,             \* the runnables that call server.Serve
    active,          \* whether a server answers a request
    left             \* history: servers still running when a graceful stop returned

vars == <<grace, listeners, mgr, mu, engaged, shutdownCtx, healthzStarted, checks, mounted,
          handlers, early, served, once, call, main, run, active, left>>
mgrVars == <<grace, listeners, mgr, mu, engaged, shutdownCtx, left>>
addVars == <<healthzStarted, checks, mounted, handlers, early, served, once, call>>
srvVars == <<main, run, active>>

TypeOK ==
    /\ grace \in {"zero", "finite", "infinite"} /\ listeners \subseteq Servers
    /\ mgr \in {"built", "running", "stopping", "waiting", "returned"}
    /\ mu \in {Free, "stop"} /\ engaged \in BOOLEAN
    /\ shutdownCtx \in {"none", "live", "cancelled", "expired"}
    /\ healthzStarted \in BOOLEAN /\ checks \in [Probes -> SUBSET Callers]
    /\ mounted \subseteq Probes /\ early \subseteq handlers /\ served \subseteq handlers
    /\ handlers \subseteq Callers /\ once \in Callers \cup {Free, Done}
    /\ call \in [Callers -> {"idle", "waits", "ok", "refused", "panicked", "ended"}]
    /\ main \in [Servers -> {"none", "init", "mounted", "wait", "shutdown", "sending", "ended"}]
    /\ run \in [Servers -> {"none", "added", "serving", "sending", "ended"}]
    /\ active \in [Servers -> BOOLEAN] /\ left \subseteq Servers

Init ==
    /\ grace \in {"zero", "finite", "infinite"}
    /\ mgr = "built" /\ mu = Free /\ engaged = FALSE /\ shutdownCtx = "none"
    /\ healthzStarted = FALSE /\ checks = [p \in Probes |-> {}] /\ mounted = {}
    /\ handlers = {} /\ early = {} /\ served = {} /\ once = Free
    /\ \E s \in Scenarios :
          /\ listeners = s[1]
          /\ call = [c \in Callers |-> IF c \notin s[2] THEN "ended"
                                       ELSE IF c \in Inside THEN "idle" ELSE "waits"]
    /\ main = [s \in Servers |-> "none"] /\ run = [s \in Servers |-> "none"]
    /\ active = [s \in Servers |-> FALSE] /\ left = {}

Returns(c, with) == call' = [call EXCEPT ![c] = with]

-----------------------------------------------------------------------------
(* The calls.                                                               *)

\* A runnable runs once Start has been called; the other callers may call at
\* any time.
Calls(c) ==
    /\ call[c] = "idle" /\ mgr # "built"
    /\ Returns(c, "waits")
    /\ UNCHANGED <<mgrVars, srvVars, healthzStarted, checks, mounted, handlers, early, served, once>>

\* AddHealthzCheck and AddReadyzCheck.
AddCheck(c) ==
    /\ Op[c] \in Probes /\ call[c] = "waits" /\ mu = Free
    /\ IF engaged \/ healthzStarted
       THEN Returns(c, "refused") /\ UNCHANGED checks
       ELSE Returns(c, "ok") /\ checks' = [checks EXCEPT ![Op[c]] = @ \cup {c}]
    /\ UNCHANGED <<mgrVars, srvVars, healthzStarted, mounted, handlers, early, served, once>>

\* Neither the stop procedure nor the start of the server refuses a handler.
AddMetricsExtraHandler(c) ==
    /\ Op[c] \notin Probes \cup {"webhook"} /\ call[c] = "waits"
    /\ mu = Free \/ Op[c] = defaultMetricsEndpoint
    /\ IF Op[c] \in {defaultMetricsEndpoint} \cup {Op[d] : d \in handlers}
       THEN Returns(c, "refused") /\ UNCHANGED <<handlers, early>>
       ELSE /\ Returns(c, "ok")
            /\ handlers' = handlers \cup {c}
            /\ early' = IF mgr = "built" THEN early \cup {c} ELSE early
    /\ UNCHANGED <<mgrVars, srvVars, healthzStarted, checks, mounted, served, once>>

\* GetWebhookServer: the first caller adds the server, the others wait for it.
GetWebhookServer(c) ==
    /\ Op[c] = "webhook" /\ call[c] = "waits"
    /\ \/ once = Free /\ once' = c /\ UNCHANGED call
       \/ once = Done /\ Returns(c, "ok") /\ UNCHANGED once
    /\ UNCHANGED <<mgrVars, srvVars, healthzStarted, checks, mounted, handlers, early, served>>

\* Add takes mu; its error makes GetWebhookServer panic, which ends the Once.
AddWebhookServer(c) ==
    /\ once = c /\ mu = Free
    /\ once' = Done
    /\ Returns(c, IF engaged THEN "panicked" ELSE "ok")
    /\ UNCHANGED <<mgrVars, srvVars, healthzStarted, checks, mounted, handlers, early, served>>

\* A runnable that calls nothing ends when its context is done.
Quits(c) ==
    /\ c \in Inside /\ call[c] = "idle" /\ shutdownCtx # "none"
    /\ Returns(c, "ended")
    /\ UNCHANGED <<mgrVars, srvVars, healthzStarted, checks, mounted, handlers, early, served, once>>

-----------------------------------------------------------------------------
(* The servers.                                                             *)

\* serveMetrics: the handlers are copied under mu, the runnable is started
\* without it.
MountMetrics ==
    /\ main["metrics"] = "init" /\ mu = Free
    /\ served' = handlers
    /\ main' = [main EXCEPT !["metrics"] = "mounted"]
    /\ UNCHANGED <<mgrVars, healthzStarted, checks, mounted, handlers, early, once, call, run, active>>

RunMetrics ==
    /\ main["metrics"] = "mounted"
    /\ main' = [main EXCEPT !["metrics"] = "wait"]
    /\ run' = [run EXCEPT !["metrics"] = "added"]
    /\ UNCHANGED <<mgrVars, addVars, active>>

\* serveHealthProbes up to its wait: all of it under mu.
serveHealthProbes ==
    /\ main["probes"] = "init" /\ mu = Free
    /\ mounted' = {p \in Probes : checks[p] # {}}
    /\ healthzStarted' = TRUE
    /\ main' = [main EXCEPT !["probes"] = "wait"]
    /\ run' = [run EXCEPT !["probes"] = "added"]
    /\ UNCHANGED <<mgrVars, checks, handlers, early, served, once, call, active>>

Closed(s) == main[s] \in {"shutdown", "sending", "ended"}

\* server.Serve: refused by a server that was shut down before, fails, or
\* returns ErrServerClosed when Shutdown has closed the listener, without
\* waiting for the requests that are being answered.
Serve(s) ==
    /\ \/ run[s] = "added" /\ ~Closed(s) /\ run' = [run EXCEPT ![s] = "serving"]
       \/ run[s] \in {"added", "serving"} /\ Closed(s) /\ run' = [run EXCEPT ![s] = "ended"]
    /\ UNCHANGED <<mgrVars, addVars, main, active>>

ServeFails(s) ==
    /\ run[s] = "serving" /\ ~Closed(s)
    /\ run' = [run EXCEPT ![s] = "sending"]
    /\ UNCHANGED <<mgrVars, addVars, main, active>>

Request(s) ==
    /\ run[s] = "serving" /\ ~Closed(s) /\ ~active[s]
    /\ active' = [active EXCEPT ![s] = TRUE]
    /\ UNCHANGED <<mgrVars, addVars, main, run>>

Respond(s) ==
    /\ active[s]
    /\ active' = [active EXCEPT ![s] = FALSE]
    /\ UNCHANGED <<mgrVars, addVars, main, run>>

\* The goroutine of the server: internalProceduresStop is closed, and Shutdown
\* waits for requests as long as shutdownCtx lasts.
Shutdown(s) ==
    /\ \/ /\ main[s] = "wait" /\ shutdownCtx # "none"
          /\ main' = [main EXCEPT ![s] = "shutdown"]
       \/ /\ main[s] = "shutdown" /\ ~active[s]
          /\ main' = [main EXCEPT ![s] = "ended"]
       \/ /\ main[s] = "shutdown" /\ active[s] /\ shutdownCtx # "live"
          /\ main' = [main EXCEPT ![s] = "sending"]
    /\ UNCHANGED <<mgrVars, addVars, run, active>>

-----------------------------------------------------------------------------
(* Start and the stop procedure.                                            *)

Start ==
    /\ mgr = "built"
    /\ mgr' = "running"
    /\ main' = [s \in Servers |-> IF s \in listeners THEN "init" ELSE "none"]
    /\ UNCHANGED <<grace, listeners, mu, engaged, shutdownCtx, left, addVars, run, active>>

\* A receive from errChan: by the select of Start, or by the goroutine that
\* drains it until Start returns.
Received ==
    \E s \in Servers :
        \/ main[s] = "sending" /\ main' = [main EXCEPT ![s] = "ended"] /\ UNCHANGED run
        \/ run[s] = "sending" /\ run' = [run EXCEPT ![s] = "ended"] /\ UNCHANGED main

Engage ==
    /\ mgr = "running"
    /\ mgr' = "stopping"
    /\ shutdownCtx' = "live"
    /\ UNCHANGED <<grace, listeners, mu, engaged, left, addVars, active>>

Cancelled == Engage /\ UNCHANGED <<main, run>>
SelectError == Engage /\ Received

Drain ==
    /\ mgr \in {"stopping", "waiting"} /\ Received
    /\ UNCHANGED <<mgrVars, addVars, active>>

\* A zero timeout ends Start at once, otherwise mu is taken and kept.
StopProcedure ==
    /\ mgr = "stopping"
    /\ \/ /\ grace = "zero"
          /\ mgr' = "returned" /\ shutdownCtx' = "cancelled"
          /\ UNCHANGED <<mu, engaged>>
       \/ /\ grace # "zero" /\ mu = Free
          /\ mgr' = "waiting" /\ mu' = "stop" /\ engaged' = TRUE
          /\ UNCHANGED shutdownCtx
    /\ UNCHANGED <<grace, listeners, left, addVars, srvVars>>

\* What waitForRunnable counts.
Running ==
    \/ \E c \in Inside : call[c] \in {"idle", "waits"}
    \/ \E s \in Servers : run[s] \in {"added", "serving", "sending"}

AllRunnablesEnded ==
    /\ mgr = "waiting" /\ shutdownCtx = "live" /\ ~Running
    /\ shutdownCtx' = "cancelled"
    /\ UNCHANGED <<grace, listeners, mgr, mu, engaged, left, addVars, srvVars>>

GraceExpires ==
    /\ grace = "finite" /\ shutdownCtx = "live"
    /\ shutdownCtx' = "expired"
    /\ UNCHANGED <<grace, listeners, mgr, mu, engaged, left, addVars, srvVars>>

StopReturns ==
    /\ mgr = "waiting" /\ shutdownCtx # "live"
    /\ mgr' = "returned" /\ mu' = Free
    /\ left' = IF shutdownCtx = "expired" THEN {}
               ELSE {s \in Servers : run[s] \in {"added", "serving", "sending"}}
    /\ UNCHANGED <<grace, listeners, engaged, shutdownCtx, addVars, srvVars>>

-----------------------------------------------------------------------------
CallStep(c) == AddCheck(c) \/ AddMetricsExtraHandler(c) \/ GetWebhookServer(c) \/ AddWebhookServer(c)
ServerStep(s) ==
    \/ Shutdown(s)
    \/ s = "metrics" /\ (MountMetrics \/ RunMetrics)
    \/ s = "probes" /\ serveHealthProbes
StopStep == StopProcedure \/ AllRunnablesEnded \/ GraceExpires \/ StopReturns

Next ==
    \/ Start \/ Cancelled \/ SelectError \/ Drain \/ StopStep
    \/ \E c \in Callers : Calls(c) \/ CallStep(c) \/ Quits(c)
    \/ \E s \in Servers : ServerStep(s) \/ Serve(s) \/ ServeFails(s) \/ Request(s) \/ Respond(s)

\* Goroutines that can go on do, runnables end when told to, and a timer runs
\* out.
Fairness ==
    /\ \A c \in Inside : WF_vars(CallStep(c)) /\ WF_vars(Quits(c))
    /\ \A s \in Servers : WF_vars(Serve(s)) /\ WF_vars(ServerStep(s))
    /\ WF_vars(Drain) /\ WF_vars(StopStep) /\ WF_vars(GraceExpires)

Spec == Init /\ [][Next]_vars /\ Fairness

-----------------------------------------------------------------------------
\* However the calls and the start of the probe server interleave, a check
\* that was accepted is answered for once the server is there: its endpoint was
\* mounted (AddHealthzCheck, AddReadyzCheck, serveHealthProbes).
ChecksServed ==
    healthzStarted \/ run["probes"] # "none"
        => \A c \in Callers : Op[c] \in Probes /\ call[c] = "ok" => Op[c] \in mounted

\* A metrics handler that was added before Start is served, and no path has
\* two handlers (AddMetricsExtraHandler, serveMetrics).
HandlersServed ==
    /\ run["metrics"] # "none" => early \subseteq served
    /\ \A c, d \in handlers : Op[c] = Op[d] => c = d

\* A stop that waited for the runnables leaves no probe server behind: it was
\* launched under mu, or not before Start returned.  The metrics server is
\* launched without mu and can be left (serveHealthProbes, engageStopProcedure).
ProbesStopped == "probes" \notin left

\* The three together.
EndpointsRight == TypeOK /\ ChecksServed /\ HandlersServed /\ ProbesStopped

\* A runnable waits for mu, which the stop procedure holds while it waits for
\* the runnable, and no timeout ends it.
Stuck == grace = "infinite" /\ mu = "stop" /\ \E c \in Inside : call[c] = "waits"

\* Start returns: the servers close, their errors are received and the calls of
\* runnables end, unless one is stuck (Start, engageStopProcedure).
StartEnds == (mgr = "stopping") ~> (mgr = "returned" \/ Stuck)
=============================================================================
