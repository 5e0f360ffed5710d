----------------------------- MODULE MCServices -----------------------------
(* Instances of the smaller services, each a part of one run. *)
EXTENDS Channel, Services, Recording

CONSTANTS c1, c2

\* Two controllers on one channel: one takes every event, the other skips the
\* first.
MCAccepts == [c \in Starters |-> IF c = c1 THEN Events ELSE Events \ {1}]

\* Three webhooks, two of them for one path; injection fails for the first.
MCPath == [h \in Hooks |-> IF h = "h1" THEN "/a" ELSE "/b"]

\* Calls on a manager: a health check, two metrics handlers for one path, and the
\* webhook server, asked for twice.
MCOp == [c \in Askers |->
            CASE c = "h" -> "healthz" [] c \in {"x", "y"} -> "/x" [] OTHER -> "webhook"]

\* Metrics alone, and probes alone, with the webhook server asked for in both.
MCScenarios == {<<{"metrics"}, {"x", "y", "v"}>>, <<{"probes"}, {"h", "w", "v"}>>}

\* The part a behaviour is about; the variables of the others do not change.
VARIABLES part, issued, disk, watched, events, cw, current, certCtxDone, unseen, lazy, mapServer,
          static, loaded, mapOnce, mapWriter, resources, cacheLock, call, tokens, calls, refills,
          installs, failures, envPc, result, existing, config, starts, tries, conf, state, proc,
          certs, authn, orphans, dirs, errs, serving, crd, shown, hook, todo, read, conflicts,
          other, deleted, crashes

W == INSTANCE CertWatcher
    WITH MaxVersion <- 3, MaxEvents <- 2, ctxDone <- certCtxDone

M == INSTANCE Mapper
    WITH Callers <- {"p1", "p2"}, Kinds <- {"k1"}, Ambiguous <- {}, MaxCalls <- 2, LimitSize <- 1,
         MaxRefills <- 1, MaxInstalls <- 1, MaxFailures <- 1, server <- mapServer,
         once <- mapOnce, writer <- mapWriter

E == INSTANCE TestEnv
    WITH CRDs <- {"c"}, Existing <- BOOLEAN, CleanUpAfterUse <- TRUE, MaxTries <- 2,
         MaxConflicts <- 2, MaxStarts <- 1, MaxOther <- 1, MaxCrashes <- 1, pc <- envPc

wVars == <<issued, disk, watched, events, cw, current, certCtxDone, unseen>>
hVars == <<defaulted, mu, webhooks, setFields, injected, failed, reg, inj, server, active,
           srvSent, srvCtxDone>>
rVars == <<broadcaster, stopIt, recOnce, readers, writer, recStopped, rec, recPc, recSent, stopCall,
           recCtxDone>>
mVars == <<lazy, mapServer, static, loaded, mapOnce, mapWriter, resources, cacheLock, call,
           tokens, calls, refills, installs, failures>>
eVars == <<envPc, result, existing, config, starts, tries, conf, state, proc, certs, authn,
           orphans, dirs, errs, serving, crd, shown, hook, todo, read, conflicts, other, deleted, crashes>>
pVars == <<grace, listeners, mgr, mgrMu, engaged, shutdownCtx, healthzStarted, checks, mounted,
           handlers, early, served, hookOnce, mgrCall, main, serveRun, busy, left>>

AllVars == <<part, vars, wVars, hVars, rVars, mVars, eVars, pVars>>
Parts == {"channel", "certificates", "webhooks", "recorder", "mapper", "environment", "endpoints"}

SumInit ==
    /\ part \in Parts
    /\ Init
    /\ W!Init
    /\ H!Init
    /\ R!Init
    /\ M!Init /\ (part # "mapper" => ~lazy /\ mapServer = {})
    /\ E!Init /\ (part # "environment" => ~existing)
    /\ P!Init /\ (part # "endpoints" => grace = "zero" /\ listeners = {"probes"})

SumNext ==
    /\ UNCHANGED part
    /\ \/ /\ part = "channel" /\ Next
          /\ UNCHANGED <<wVars, hVars, rVars, mVars, eVars, pVars>>
       \/ /\ part = "certificates" /\ W!Next
          /\ UNCHANGED <<vars, hVars, rVars, mVars, eVars, pVars>>
       \/ /\ part = "webhooks" /\ H!Next
          /\ UNCHANGED <<vars, wVars, rVars, mVars, eVars, pVars>>
       \/ /\ part = "recorder" /\ R!Next
          /\ UNCHANGED <<vars, wVars, hVars, mVars, eVars, pVars>>
       \/ /\ part = "mapper" /\ M!Next
          /\ UNCHANGED <<vars, wVars, hVars, rVars, eVars, pVars>>
       \/ /\ part = "environment" /\ E!Next
          /\ UNCHANGED <<vars, wVars, hVars, rVars, mVars, pVars>>
       \/ /\ part = "endpoints" /\ P!Next
          /\ UNCHANGED <<vars, wVars, hVars, rVars, mVars, eVars>>

\* Every module's own fairness, in the behaviours that are about it.
SumSpec ==
    /\ SumInit /\ [][SumNext]_AllVars
    /\ WF_vars(part = "channel" /\ LoopStep)
    /\ \A c \in Starters : /\ SF_vars(part = "channel" /\ StartStep(c))
                           /\ WF_vars(part = "channel" /\ ReaderStep(c))
    /\ WF_wVars(part = "certificates" /\ W!Watcher)
    /\ WF_hVars(part = "webhooks" /\ H!Server) /\ WF_hVars(part = "webhooks" /\ H!Responds)
    /\ \A e \in Emitters : WF_rVars(part = "recorder" /\ R!Emitting(e))
    /\ WF_rVars(part = "recorder" /\ R!Stopping) /\ WF_rVars(part = "recorder" /\ R!StopReturns)
    /\ \A p \in {"p1", "p2"} : WF_mVars(part = "mapper" /\ M!Step(p))
    /\ WF_eVars(part = "environment" /\ E!Caller)
    /\ WF_pVars(part = "endpoints" /\ P!CallStep("v"))
    /\ WF_pVars(part = "endpoints" /\ P!Quits("v"))
    /\ \A s \in P!Servers : /\ WF_pVars(part = "endpoints" /\ P!Serve(s))
                            /\ WF_pVars(part = "endpoints" /\ P!ServerStep(s))
    /\ WF_pVars(part = "endpoints" /\ P!Drain)
    /\ WF_pVars(part = "endpoints" /\ P!StopStep)
    /\ WF_pVars(part = "endpoints" /\ P!GraceExpires)

----------------------------------------------------------------------------
(* The properties of the modules that are not extended.                     *)

\* Once both files are of the newest version it is served (CertWatcher.tla).
NewCertServed == part = "certificates" => []W!TypeOK /\ W!NewCertServed

\* Nothing hangs: no Start of a channel source waits for ever and its
\* goroutines end with it, the webhook server stops when told, Stop of the
\* recorder and every emitter end, every lookup of a REST mapping ends,
\* Start and Stop of a test environment return, and so does Start of a manager
\* with servers and callers, unless a runnable waits for mu.
ServicesEnd ==
    /\ part = "channel" => StartNotBlocked /\ ReadersEnd
    /\ part = "webhooks" => H!StartReturns
    /\ part = "recorder" => R!AllEnd
    /\ part = "mapper" => M!LookupsEnd
    /\ part = "environment" => E!CallsReturn
    /\ part = "endpoints" => P!StartEnds
==============================================================================
