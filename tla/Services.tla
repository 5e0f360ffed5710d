------------------------------- MODULE Services -------------------------------
(* The servers a manager runs, side by side. *)
EXTENDS Naturals

CONSTANTS Askers, Op, Inside, Scenarios,   \* Endpoints
          Hooks, Path, Requests, BadHooks   \* HookServer

VARIABLES grace, listeners, mgr, mgrMu, engaged, shutdownCtx, healthzStarted, checks, mounted,
          handlers, early, served, hookOnce, mgrCall, main, serveRun, busy, left

P == INSTANCE Endpoints
    WITH Callers <- Askers, mu <- mgrMu, once <- hookOnce, call <- mgrCall, run <- serveRun,
         active <- busy

VARIABLES defaulted, mu, webhooks, setFields, injected, failed, reg, inj, server, active,
          srvSent, srvCtxDone

H == INSTANCE HookServer
    WITH sent <- srvSent, ctxDone <- srvCtxDone

\* A lock is free or held by a caller; the scenarios listen on servers there are.
EndpointsConstants ==
    /\ P!Free \notin Askers /\ P!Done \notin Askers
    /\ \A s \in Scenarios : s[1] \subseteq P!Servers

ASSUME ServersConstants == Requests \in Nat /\ EndpointsConstants

\* Webhooks are injected and their answers are not cut off (HookServer.tla); the
\* manager serves the checks and handlers it accepted (Endpoints.tla).
ServersRight == H!HooksServed /\ P!EndpointsRight

===============================================================================
