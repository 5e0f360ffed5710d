----------------------------- MODULE HookServer ------------------------------
(***************************************************************************)
(* pkg/webhook/server.go: goroutines register webhooks while the manager   *)
(* injects its fields into the server and starts it, requests arrive, and  *)
(* the context ends.  Register holds the server's mutex, InjectFunc does   *)
(* not.                                                                    *)
(***************************************************************************)
EXTENDS Naturals, FiniteSets

CONSTANTS Hooks,       \* registrations: each goroutine registers one webhook
          Path,        \* the path of each registration
          Requests,    \* bound: requests that arrive
          BadHooks     \* hooks whose injection returns an error

VARIABLES
    defaulted,   \* defaultingOnce has run
    mu,          \* the registration that holds mu, or Free
    webhooks,    \* the map: registrations under their paths
    setFields,   \* whether the setter is known
    injected,    \* hooks the setter was called on without an error
    failed,      \* hooks it returned an error for
    reg,         \* where each registration is
    inj,         \* InjectFunc: where it is, and the hooks it still visits
    server,      \* Start
    active,      \* requests being served, by which hook
    sent,
    ctxDone

vars == <<defaulted, mu, webhooks, setFields, injected, failed, reg, inj, server, active, sent, ctxDone>>

Free == "free"
Outcomes == {"idle", "ok", "error"}

TypeOK ==
    /\ defaulted \in BOOLEAN /\ setFields \in BOOLEAN /\ ctxDone \in BOOLEAN
    /\ mu \in Hooks \cup {Free} /\ webhooks \subseteq Hooks
    /\ injected \subseteq Hooks /\ failed \subseteq Hooks
    /\ reg \in [Hooks -> {"idle", "handled", "done", "panicked"}]
    /\ inj \in [pc : Outcomes \cup {"walk", "visit"}, todo : SUBSET Hooks]
    /\ server \in {"idle", "listen", "serving", "shutdown", "drained", "returned", "error"}
    /\ active \subseteq Hooks \X (1 .. Requests) /\ sent \in 0 .. Requests

Init ==
    /\ defaulted = FALSE /\ mu = Free /\ webhooks = {} /\ setFields = FALSE
    /\ injected = {} /\ failed = {} /\ reg = [h \in Hooks |-> "idle"]
    /\ inj = [pc |-> "idle", todo |-> {}]
    /\ server = "idle" /\ active = {} /\ sent = 0 /\ ctxDone = FALSE

\* Register up to the look at setFields: the path may be taken only once, and
\* the mux serves the hook from here on.  The panic unlocks the mutex.
Register(h) ==
    /\ reg[h] = "idle" /\ mu = Free
    /\ defaulted' = TRUE
    /\ IF \E g \in webhooks : Path[g] = Path[h]
       THEN reg' = [reg EXCEPT ![h] = "panicked"] /\ UNCHANGED <<mu, webhooks>>
       ELSE /\ webhooks' = webhooks \cup {h}
            /\ mu' = h
            /\ reg' = [reg EXCEPT ![h] = "handled"]
    /\ UNCHANGED <<setFields, injected, failed, inj, server, active, sent, ctxDone>>

Inject(h) ==
    /\ injected' = IF h \in BadHooks THEN injected ELSE injected \cup {h}
    /\ failed' = IF h \in BadHooks THEN failed \cup {h} ELSE failed

\* The rest of Register: an error of the setter is only logged.
RegisterInject(h) ==
    /\ reg[h] = "handled"
    /\ IF setFields THEN Inject(h) ELSE UNCHANGED <<injected, failed>>
    /\ mu' = Free
    /\ reg' = [reg EXCEPT ![h] = "done"]
    /\ UNCHANGED <<defaulted, webhooks, setFields, inj, server, active, sent, ctxDone>>

\* Slip: the setter is not kept for later registrations.
InjectFuncForgets ==
    /\ inj.pc = "idle"
    /\ inj' = [pc |-> "walk", todo |-> {}]
    /\ UNCHANGED <<defaulted, mu, webhooks, setFields, injected, failed, reg, server, active, sent, ctxDone>>

\* InjectFunc: the setter is stored, then the map is walked.  The map may grow
\* meanwhile: a hook that comes in is visited or not.
\* Nothing guards the two accesses, but both sides take a lock of the logger or
\* the mux between theirs, which keeps them in order; a runtime that notices the
\* write during the walk ends the process, and with it the behaviour.
InjectFunc ==
    /\ inj.pc = "idle"
    /\ setFields' = TRUE
    /\ inj' = [pc |-> "walk", todo |-> {}]
    /\ UNCHANGED <<defaulted, mu, webhooks, injected, failed, reg, server, active, sent, ctxDone>>

InjectBegin ==
    /\ inj.pc = "walk" /\ inj.todo = {}
    /\ inj' = [pc |-> IF webhooks = {} THEN "ok" ELSE "visit", todo |-> webhooks]
    /\ UNCHANGED <<defaulted, mu, webhooks, setFields, injected, failed, reg, server, active, sent, ctxDone>>

InjectVisit(h) ==
    /\ inj.pc = "visit" /\ h \in webhooks
    /\ h \in inj.todo \/ h \notin injected \cup failed
    /\ Inject(h)
    /\ inj' = IF h \in BadHooks THEN [inj EXCEPT !.pc = "error"]
              ELSE [pc |-> IF inj.todo \subseteq {h} THEN "ok" ELSE "visit", todo |-> inj.todo \ {h}]
    /\ UNCHANGED <<defaulted, mu, webhooks, setFields, reg, server, active, sent, ctxDone>>

-----------------------------------------------------------------------------
\* Start up to the listener: the certificate, the TLS version, the client CA and
\* the port are fine or end it with an error.  StartStandalone injects first and starts only if
\* that returned no error, as the manager does.
Start ==
    /\ server = "idle" /\ inj.pc = "ok"
    /\ defaulted' = TRUE
    /\ server' \in {"listen", "error"}
    /\ UNCHANGED <<mu, webhooks, setFields, injected, failed, reg, inj, active, sent, ctxDone>>

Serve ==
    /\ server = "listen"
    /\ server' = "serving"
    /\ UNCHANGED <<defaulted, mu, webhooks, setFields, injected, failed, reg, inj, active, sent, ctxDone>>

\* The listener breaks: Start returns the error and leaves what is running.
ServeFails ==
    /\ server = "serving"
    /\ server' = "error"
    /\ UNCHANGED <<defaulted, mu, webhooks, setFields, injected, failed, reg, inj, active, sent, ctxDone>>

Request(h) ==
    /\ server = "serving" /\ h \in webhooks /\ sent < Requests
    /\ sent' = sent + 1
    /\ active' = active \cup {<<h, sent + 1>>}
    /\ UNCHANGED <<defaulted, mu, webhooks, setFields, injected, failed, reg, inj, server, ctxDone>>

Respond(r) ==
    /\ r \in active
    /\ active' = active \ {r}
    /\ UNCHANGED <<defaulted, mu, webhooks, setFields, injected, failed, reg, inj, server, sent, ctxDone>>

\* srv.Shutdown with a context that never ends: no new requests, and it waits
\* for those that are being served; only then idleConnsClosed is closed.
Shutdown ==
    /\ ctxDone /\ server = "serving"
    /\ server' = "shutdown"
    /\ UNCHANGED <<defaulted, mu, webhooks, setFields, injected, failed, reg, inj, active, sent, ctxDone>>

Drained ==
    /\ server = "shutdown" /\ active = {}
    /\ server' = "drained"
    /\ UNCHANGED <<defaulted, mu, webhooks, setFields, injected, failed, reg, inj, active, sent, ctxDone>>

Return ==
    /\ server = "drained"
    /\ server' = "returned"
    /\ UNCHANGED <<defaulted, mu, webhooks, setFields, injected, failed, reg, inj, active, sent, ctxDone>>

Cancel ==
    /\ ~ctxDone /\ ctxDone' = TRUE
    /\ UNCHANGED <<defaulted, mu, webhooks, setFields, injected, failed, reg, inj, server, active, sent>>

Responds == \E r \in active : Respond(r)
Server == Start \/ Serve \/ Shutdown \/ Drained \/ Return
Registers == \E h \in Hooks : Register(h) \/ RegisterInject(h)
Injects == InjectFunc \/ InjectBegin \/ \E h \in Hooks : InjectVisit(h)

Next ==
    \/ Registers \/ Injects \/ Server \/ ServeFails \/ Cancel \/ Responds
    \/ \E h \in Hooks : Request(h)

\* Handlers answer; the server's own goroutines run.
Spec == Init /\ [][Next]_vars /\ WF_vars(Server) /\ WF_vars(Responds)

-----------------------------------------------------------------------------
\* Once Register and InjectFunc have both returned, in whatever order their
\* steps ran, the setter was called on the hook: the one that came second saw
\* what the first had done.  Only an error of an earlier hook ends InjectFunc
\* before it got there (Register, InjectFunc).
HooksInjected ==
    \A h \in Hooks :
        reg[h] = "done" /\ inj.pc = "ok" => h \in injected \cup failed

\* No path has two hooks, and a hook is served only under the mutex's rules:
\* when Start has returned without an error nothing is being served any more
\* (Register, Start).
NothingCutOff ==
    /\ server = "returned" => active = {}
    /\ \A g, h \in webhooks : Path[g] = Path[h] => g = h

\* Both together: each webhook is injected and none is cut off; and the types
\* are kept.
HooksServed == TypeOK /\ HooksInjected /\ NothingCutOff

\* A server that is told to stop returns, if the handlers answer: Shutdown has
\* no timeout of its own (Start).
StartReturns ==
    (ctxDone /\ server = "serving") ~> (server \in {"returned", "error"})

=============================================================================
