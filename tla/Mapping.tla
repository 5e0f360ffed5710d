------------------------------- MODULE Mapping -------------------------------
(* The REST mapper. *)
EXTENDS Naturals

CONSTANTS Threads, Kinds, Ambiguous, MaxCalls, LimitSize, MaxRefills, MaxInstalls,
          MaxFailures

VARIABLES lazy, mapServer, static, loaded, mapOnce, mapWriter, resources, cacheLock, lookup,
          tokens, calls, refills, installs, failures

M == INSTANCE Mapper
    WITH Callers <- Threads, server <- mapServer, once <- mapOnce, writer <- mapWriter,
         call <- lookup

ASSUME MapperConstants == M!None \notin Threads

\* The REST mapper finds what is served and reloads only for a reason
\* (Mapper.tla).
LookupsRight == M!LookupsRight

==============================================================================
