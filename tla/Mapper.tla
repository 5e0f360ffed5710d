------------------------------- MODULE Mapper -------------------------------
(***************************************************************************)
(* The dynamic REST mapper (pkg/client/apiutil/dynamicrestmapper.go), which *)
(* rereads what the server serves when a lookup fails, and the cache of     *)
(* REST clients in front of it (pkg/client/client_cache.go).  Concurrent    *)
(* callers look kinds up while kinds come and go at the server.             *)
(***************************************************************************)
EXTENDS Naturals, FiniteSets

CONSTANTS Callers, Kinds,
          Ambiguous,    \* kinds whose lookup fails with another error than NoMatch
          MaxCalls,     \* calls the program makes in all
          LimitSize,    \* tokens of the limiter's full bucket
          MaxRefills,   \* tokens that come back
          MaxInstalls,  \* kinds that come or go
          MaxFailures   \* discoveries that fail

VARIABLES lazy,       \* WithLazyDiscovery was given
          server,     \* the kinds the server serves
          static,     \* staticMapper: the kinds of the last discovery
          loaded,     \* staticMapper is not nil
          once,       \* initOnce: "no", "running", "done"
          writer,     \* who holds drm.mu for writing
          resources,  \* the client cache's resourceByType
          cacheLock,  \* who holds clientCache.mu
          call,       \* each caller's pc, kind, result, and what it could not see
          tokens, calls, refills, installs, failures

vars == <<lazy, server, static, loaded, once, writer, resources, cacheLock, call,
          tokens, calls, refills, installs, failures>>
counters == <<calls, refills, installs, failures>>

None == "none"
Idle == [pc |-> "idle", kind |-> None, client |-> FALSE, result |-> None, missed |-> FALSE]

Init ==
    /\ lazy \in BOOLEAN
    /\ server \in SUBSET Kinds
    /\ loaded = ~lazy
    /\ static = IF lazy THEN {} ELSE server     \* NewDynamicRESTMapper's discovery
    /\ once = "no"
    /\ writer = None /\ cacheLock = None
    /\ resources = {}
    /\ call = [p \in Callers |-> Idle]
    /\ tokens = LimitSize
    /\ calls = 0 /\ refills = 0 /\ installs = 0 /\ failures = 0

Goto(p, pc) == call' = [call EXCEPT ![p].pc = pc]
End(p, result) == call' = [call EXCEPT ![p].pc = "return", ![p].result = result]
Lookup(k, known) ==
    IF k \notin known THEN "nomatch" ELSE IF k \in Ambiguous THEN "ambiguous" ELSE "ok"

\* A lookup: through a client (getResource) or of the mapper itself.
Call(p, k, client) ==
    /\ call[p].pc = "idle"
    /\ calls < MaxCalls
    /\ calls' = calls + 1
    /\ call' = [call EXCEPT ![p] = [Idle EXCEPT !.pc = IF client THEN "cached" ELSE "init",
                                               !.kind = k, !.client = client,
                                               !.missed = k \notin server]]
    /\ UNCHANGED <<lazy, server, static, loaded, once, writer, resources, cacheLock, tokens,
                   refills, installs, failures>>

\* clientCache.getResource under the read lock
getResource(p) ==
    /\ call[p].pc = "cached"
    /\ cacheLock = None
    /\ IF call[p].kind \in resources THEN End(p, "ok") ELSE Goto(p, "lock cache")
    /\ UNCHANGED <<lazy, server, static, loaded, once, writer, resources, cacheLock, tokens, counters>>

\* ... and under the lock, calling newResource
newResource(p) ==
    /\ call[p].pc = "lock cache"
    /\ cacheLock = None
    /\ cacheLock' = p
    /\ Goto(p, "init")
    /\ UNCHANGED <<lazy, server, static, loaded, once, writer, resources, tokens, counters>>

\* init: the first caller of a lazy mapper discovers, the others wait for it.
init(p) ==
    /\ call[p].pc = "init"
    /\ \/ /\ once = "no" /\ lazy
          /\ once' = "running"
          /\ Goto(p, "discover")
       \/ /\ once = "done" \/ (once = "no" /\ ~lazy)
          /\ once' = "done"
          /\ Goto(p, "check")
    /\ UNCHANGED <<lazy, server, static, loaded, writer, resources, cacheLock, tokens, counters>>

\* setStaticMapper: newMapper asks the server, and may fail.
setStaticMapper ==
    /\ static' = server
    /\ loaded' = TRUE
    /\ UNCHANGED failures
discoveryFails ==
    /\ failures < MaxFailures
    /\ failures' = failures + 1
    /\ UNCHANGED <<static, loaded>>

initDiscovers(p) ==
    /\ call[p].pc = "discover"
    /\ once' = "done"
    /\ \/ setStaticMapper /\ Goto(p, "check")
       \/ discoveryFails /\ End(p, "failed")
    /\ UNCHANGED <<lazy, server, writer, resources, cacheLock, tokens, calls, refills, installs>>

\* checkAndReload, first under the read lock.  A lazy mapper whose one
\* discovery failed has a nil staticMapper.
check(p) ==
    /\ call[p].pc = "check"
    /\ writer = None
    /\ CASE ~loaded -> End(p, "panic")
         [] loaded /\ Lookup(call[p].kind, static) = "ok" -> End(p, "ok")
         [] OTHER -> Goto(p, "lock")
    /\ UNCHANGED <<lazy, server, static, loaded, once, writer, resources, cacheLock, tokens, counters>>

\* Slip: the lookup is not repeated under the lock.
checkOnce(p) ==
    /\ call[p].pc = "lock"
    /\ writer = None
    /\ \/ tokens = 0 /\ End(p, "limited") /\ UNCHANGED <<writer, tokens>>
       \/ /\ tokens > 0
          /\ tokens' = tokens - 1
          /\ writer' = p
          /\ Goto(p, "reload")
    /\ UNCHANGED <<lazy, server, static, loaded, once, resources, cacheLock, counters>>

\* ... then under the lock.  errors.As finds every error assignable to error,
\* so any error of the lookup asks for a reload.
checkAgain(p) ==
    LET found == Lookup(call[p].kind, static)
    IN  /\ call[p].pc = "lock"
        /\ writer = None
        /\ \/ found = "ok" /\ End(p, "ok") /\ UNCHANGED <<writer, tokens>>
           \/ found # "ok" /\ tokens = 0 /\ End(p, "limited") /\ UNCHANGED <<writer, tokens>>
           \/ /\ found # "ok" /\ tokens > 0
              /\ tokens' = tokens - 1
              /\ writer' = p
              /\ Goto(p, "reload")
        /\ UNCHANGED <<lazy, server, static, loaded, once, resources, cacheLock, counters>>

reload(p) ==
    /\ call[p].pc = "reload"
    /\ writer' = None
    /\ \/ setStaticMapper /\ End(p, Lookup(call[p].kind, server))
       \/ discoveryFails /\ End(p, "failed")
    /\ UNCHANGED <<lazy, server, once, resources, cacheLock, tokens, calls, refills, installs>>

\* The lookup returns; newResource caches what it made.
Return(p) ==
    /\ call[p].pc = "return"
    /\ resources' = IF call[p].client /\ call[p].result = "ok"
                    THEN resources \cup {call[p].kind} ELSE resources
    /\ cacheLock' = IF cacheLock = p THEN None ELSE cacheLock
    /\ call' = [call EXCEPT ![p] = Idle]
    /\ UNCHANGED <<lazy, server, static, loaded, once, writer, tokens, counters>>

-----------------------------------------------------------------------------
(* The environment.                                                         *)

\* A kind is installed at the server, or removed from it.
Install(k) ==
    /\ installs < MaxInstalls
    /\ installs' = installs + 1
    /\ server' = IF k \in server THEN server \ {k} ELSE server \cup {k}
    /\ call' = [p \in Callers |->
                   [call[p] EXCEPT !.missed = @ \/ (call[p].kind = k /\ k \in server)]]
    /\ UNCHANGED <<lazy, static, loaded, once, writer, resources, cacheLock, tokens,
                   calls, refills, failures>>

\* The limiter's bucket fills.
Refill ==
    /\ tokens < LimitSize /\ refills < MaxRefills
    /\ tokens' = tokens + 1
    /\ refills' = refills + 1
    /\ UNCHANGED <<lazy, server, static, loaded, once, writer, resources, cacheLock, call,
                   calls, installs, failures>>

Step(p) ==
    \/ getResource(p) \/ newResource(p) \/ init(p) \/ initDiscovers(p)
    \/ check(p) \/ checkAgain(p) \/ reload(p) \/ Return(p)

Next ==
    \/ \E p \in Callers : Step(p) \/ \E k \in Kinds, client \in BOOLEAN : Call(p, k, client)
    \/ \E k \in Kinds : Install(k)
    \/ Refill

Fairness == \A p \in Callers : WF_vars(Step(p))

Spec == Init /\ [][Next]_vars /\ Fairness

-----------------------------------------------------------------------------
\* A kind the server serves during the whole lookup is not reported missing by
\* a lookup that read the server: the caller gets NoMatch from such a lookup
\* only for a kind that was away at some moment of the call.
FoundIfServed == \A p \in Callers : call[p].result = "nomatch" => call[p].missed

\* No token is spent and no discovery made for a kind another caller's reload
\* has found meanwhile (dynamicrestmapper.go:143 "ensuring that ... extraneous
\* calls aren't made").
NoWastedReload ==
    \A p \in Callers : call[p].pc = "reload" => Lookup(call[p].kind, static) # "ok"

\* Both together: lookups find what is served and reload only for a reason.
LookupsRight == FoundIfServed /\ NoWastedReload

\* Every lookup ends: the two locks and the once are never held forever.
LookupsEnd == \A p \in Callers : (call[p].pc # "idle") ~> (call[p].pc = "idle")
=============================================================================
