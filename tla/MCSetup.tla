------------------------------ MODULE MCSetup ------------------------------
(* Instances for TLC of what is set up or answered step by step, the parts of one run. *)
EXTENDS Loggers, Setup, Mapping, SequencesExt, FiniteSets

(* EnvFiles: CRDs and webhook configurations in files, paths and lists.      *)
fDoc(kind, names, api, name, preserve, served) ==
    [kind |-> kind, names |-> names, api |-> api, name |-> name, preserve |-> preserve, ca |-> 0,
     served |-> served, hasWebhooks |-> FALSE, webhooks |-> <<>>]
fWebhook(config, service) ==
    [config |-> config, service |-> service, url |-> (service = "none"), ca |-> 0]
fHook(kind, api, name, webhooks) ==
    [fDoc(kind, "unset", api, name, "unset", {}) EXCEPT !.hasWebhooks = TRUE, !.webhooks = webhooks]
fC1 == fDoc("CRD", "set", "v1", "a", "unset", {"v1"})
fC2 == fDoc("CRD", "set", "v1beta1", "a", "unset", {"v2"})
fC3 == fDoc("CRD", "set", "v1", "a", "yes", {"v1", "v2"})
fC4 == fDoc("CRD", "set", "v1beta1", "a", "no", {"v1"})
fC5 == fDoc("CRD", "set", "v1", "b", "unset", {"v1"})
fC6 == fDoc("CRD", "set", "v1beta1", "a", "wrong", {"v1"})
fC7 == fDoc("CRD", "set", "v1", "a", "wrong", {"v1"})
fNoCRD == fDoc("CRD", "unset", "v1", "b", "unset", {})
fOther == fDoc("other", "wrong", "v1", "b", "unset", {})
fH1 == fHook("Mutating", "v1", "m", <<fWebhook(TRUE, "path"), fWebhook(TRUE, "none")>>)
fH2 == fHook("Validating", "v1beta1", "n", <<fWebhook(TRUE, "none")>>)
fH3 == fHook("Validating", "v9", "o", <<fWebhook(TRUE, "bare")>>)
fH4 == fHook("Validating", "v1", "q", <<fWebhook(TRUE, "bare")>>)
fH5 == fHook("Mutating", "v1", "r", <<fWebhook(TRUE, "path"), fWebhook(FALSE, "none")>>)
fH6 == fHook("Mutating", "v1", "s", <<>>)
fH7 == [fH6 EXCEPT !.hasWebhooks = FALSE]
fFile(ext, bad, docs) == [ext |-> ext, bad |-> bad, docs |-> docs]
fPath(files) == [missing |-> FALSE, files |-> files]
fMissing == [missing |-> TRUE, files |-> <<>>]
fCRDFiles == {fFile(".yaml", FALSE, <<fC1, fC3>>), fFile(".yml", FALSE, <<fC2, fC5>>),
              fFile(".json", FALSE, <<fC4, fH1, fNoCRD>>), fFile(".txt", FALSE, <<fC1>>),
              fFile(".yaml", TRUE, <<>>), fFile(".yaml", FALSE, <<fOther>>),
              fFile(".yaml", FALSE, <<fC6, fC7>>)}
fHookFiles == {fFile(".yaml", FALSE, <<fH1, fC1>>), fFile(".yml", FALSE, <<fH2, fH4>>),
               fFile(".json", FALSE, <<fH3>>), fFile(".txt", TRUE, <<fH1>>),
               fFile(".yaml", FALSE, <<fH6, fH5>>)}
fPaths(files) == {fMissing} \cup {fPath(<<f>>) : f \in files} \cup {fPath(<<f, g>>) : f, g \in files}
fHookPaths == {<<>>} \cup {<<p>> : p \in fPaths(fHookFiles)}
fCRDPaths == {<<>>} \cup {<<p>> : p \in fPaths(fCRDFiles)} \cup
             {<<fPath(<<fFile(".yaml", FALSE, <<fC1>>)>>), p>> : p \in fPaths(fCRDFiles)}
\* The webhooks with every mix of CRDs, and the CRDs with every mix of lists.
fInputs == [hookPaths : fHookPaths, ignoreMissing : BOOLEAN, hooks : {<<>>, <<fH2>>, <<fH5>>, <<fH7>>},
            paths : {<<>>, <<fMissing>>, <<fPath(<<fFile(".yaml", FALSE, <<fC1, fC3>>)>>)>>},
            errorIfMissing : BOOLEAN, option : {<<fC2>>}, env : {<<>>, <<fC4>>}]
           \cup
           [hookPaths : {<<>>, <<fPath(<<fFile(".yaml", FALSE, <<fH1, fC1>>)>>)>>},
            ignoreMissing : {TRUE}, hooks : {<<>>}, paths : fCRDPaths, errorIfMissing : BOOLEAN,
            option : {<<>>, <<fC3, fC5>>, <<fC2>>, <<fC7>>}, env : {<<>>, <<fC4>>}]

(* EnvtestTool: every form of version selector, over stores and a bucket     *)
(* with two platforms.                                                      *)
tExpr(s, x, y, z, l) == [sel |-> s, major |-> x, minor |-> y, patch |-> z, latest |-> l]
tExprs == {tExpr("latest", 0, 0, 0, FALSE), tExpr("latest-on-disk", 0, 0, 0, FALSE),
           tExpr("", 1, 0, -1, TRUE), tExpr("", 1, 0, 1, FALSE), tExpr("~", 1, 0, 1, FALSE),
           tExpr("<=", 1, 1, -1, FALSE), tExpr("<", 1, 0, 1, FALSE)}
tFlag(n, f, v) == [noDownload |-> n, force |-> f, verify |-> v]
tFlags == {tFlag(FALSE, FALSE, TRUE), tFlag(TRUE, FALSE, TRUE),
           tFlag(FALSE, TRUE, FALSE)}
tItem(x, y, z, p) == [ver |-> [major |-> x, minor |-> y, patch |-> z], plat |-> p]
tRemote == {tItem(1, 0, 0, "linux"), tItem(1, 0, 1, "linux"), tItem(1, 0, 1, "darwin")}
tHashed == tRemote \ {tItem(1, 0, 0, "linux")}
tStores == {{}, {tItem(1, 0, 0, "linux"), tItem(1, 1, 0, "darwin")}}

(* Arguments: flags with defaults, from templates and without.               *)
gFlag(f, v) == [flag |-> f, val |-> v]
gTemplates == {<<>>, <<gFlag("a", 3)>>, <<gFlag("m", 3), gFlag("--", 0), gFlag("b", 4)>>,
               <<gFlag("", 5), gFlag("b", 3), gFlag("b", 4)>>, <<gFlag("a", 3), gFlag("{{", 0)>>}
gDefaults == [f \in {"a", "m", "ip"} |-> IF f = "a" THEN <<8>> ELSE IF f = "m" THEN <<9>> ELSE <<7>>]
gMinimal == [f \in {"m"} |-> <<9>>]

gAddr(h, p) == [host |-> h, port |-> p]
gListen(url, insec, insecure, port, secure) ==
    [url |-> url, insec |-> insec, insecure |-> insecure, securePort |-> port, secure |-> secure]
gNone == gAddr("", 0)
gUnset == gListen(gNone, FALSE, gNone, 0, gNone)
gListens == {gUnset, gListen(gNone, TRUE, gNone, 0, gNone),
             gListen(gAddr("h", 50), FALSE, gNone, 51, gNone),
             gListen(gNone, TRUE, gAddr("h", 50), 0, gAddr("", 51)),
             gListen(gNone, TRUE, gAddr("", 50), 51, gAddr("k", 52)),
             gListen(gNone, FALSE, gNone, 0, gAddr("k", 52))}

(* Reviews: admission with one or two handlers of every kind, token reviews, *)
(* conversions between up to three versions, and health checks.             *)
vResponse(a, c, p, t) ==
    [allowed |-> a, code |-> c, patches |-> p, patch |-> <<>>, ptype |-> t, uid |-> "none"]
vFunc(r) == [kind |-> "func", resp |-> r]
vHandlers ==
    {vFunc(vResponse(TRUE, 200, <<>>, "none")), vFunc(vResponse(TRUE, 0, <<1>>, "none")),
     vFunc(vResponse(FALSE, 403, <<>>, "none")), vFunc(vResponse(TRUE, 200, <<2>>, "other")),
     [kind |-> "validator", err |-> "none"], [kind |-> "validator", err |-> "plain"],
     [kind |-> "validator", err |-> "status", code |-> 422],
     [kind |-> "defaulter", patches |-> <<>>], [kind |-> "defaulter", patches |-> <<3, 4>>]}
vRaw == {"none", "bad", "good"}
vOps == {"create", "update", "delete", "connect"}
vAdmission(bodies, json, gvks, marshals, ops, raws, multis, n) ==
    [to : {"admission"}, body : bodies, json : json, gvk : gvks, uid : {"u"}, marshals : marshals,
     op : ops, object : raws, oldObject : raws, multi : multis, handlers : [1..n -> vHandlers]]
vAdmissions ==
    vAdmission({"good"}, {TRUE}, {"v1beta1"}, {TRUE}, vOps, vRaw, {"mutating", "validating"}, 2)
    \cup vAdmission({"good"}, {TRUE}, {"none"}, BOOLEAN, vOps, vRaw,
                    {"mutating", "validating", "no"}, 1)
    \cup vAdmission({"nil", "unreadable", "undecodable", "good"}, BOOLEAN, {"v1"}, {TRUE},
                    {"create"}, {"good"}, {"no"}, 1)
vTokens ==
    [to : {"token"}, body : {"nil", "undecodable", "good"}, json : BOOLEAN, gvk : {"none", "v1"},
     uid : {"u"}, token : {"", "t"},
     resp : {[authenticated |-> t, user |-> "x", error |-> ~t, uid |-> "none"] : t \in BOOLEAN}]
vVersions == {"v1", "v2", "v3"}
\* Version w1 is of another group.
vGroup(v) == IF v = "w1" THEN "w" ELSE "v"
vKinds == {"hub", "spoke", "both", "none"}
vAnyVersion == vVersions \cup {"w1"}
vConversions ==
    [to : {"conversion"}, body : {"good"}, uid : {"u"},
     scheme : UNION {[V -> vKinds] : V \in {{"v1"}, {"v1", "v2"}, vVersions, {"v1", "v2", "w1"}}},
     fails : {{}, {"v2"}}, desired : vAnyVersion,
     objects : {<<>>, <<[ver |-> "v1", data |-> 1]>>} \cup
               {<<[ver |-> v, data |-> 1], [ver |-> w, data |-> 2]>> : v, w \in vAnyVersion}]
    \cup [to : {"conversion"}, body : {"bad", "empty"}, uid : {"u"},
          scheme : {[v \in vVersions |-> "none"]}, fails : {{}}, desired : {"v1"}, objects : {<<>>}]
vHealth ==
    [to : {"health"}, checks : UNION {[C -> BOOLEAN] : C \in {{}, {"a"}, {"a", "b"}}},
     exclude : SUBSET {"a", "b", "z"}, path : {"/", "ping", "a", "b"}, verbose : BOOLEAN]
vRequests == vAdmissions \cup vTokens \cup vConversions \cup vHealth

(* Zap: up to two flags and up to two options.                               *)
zLevels == {[name |-> "debug", num |-> 0], [name |-> "error", num |-> 0]} \cup
           [name : {""}, num : {0, 1, 3, 128, 200}]
zFlag == {<<"zap-devel", TRUE>>, <<"zap-devel", FALSE>>, <<"zap-encoder", "console">>,
          <<"zap-encoder", "xml">>, <<"zap-stacktrace-level", "panic">>} \cup
         {<<"zap-log-level", l>> : l \in zLevels}
zFlags == {<<>>} \cup {<<f>> : f \in zFlag} \cup {<<f, g>> : f, g \in zFlag}
zOpts == {<<"UseDevMode", TRUE>>, <<"UseDevMode", FALSE>>,
          <<"WriteTo", "file">>, <<"DestWritter", "old">>, <<"JSONEncoder", 0>>,
          <<"ConsoleEncoder", 0>>, <<"Level", -3>>,
          <<"StacktraceLevel", 0>>, <<"RawZapOpts", "hooks">>,
          <<"UseFlagOptions", 0>>}
zOptSeqs == {<<>>} \cup {<<a>> : a \in zOpts} \cup {<<a, b>> : a, b \in zOpts}

(* Builder and Construct.                                                   *)
bConcurrency == [t \in {"t1", "t2"} |-> IF t = "t1" THEN 3 ELSE 0]
\* Types t1 and t3 are of groups a.b and a-b: their paths are the same.
bPath(kind, t) == IF kind = "convert" THEN kind ELSE kind \o (IF t = "t3" THEN "t1" ELSE t)
oBlank == [x \in {"elect", "lock", "lockNamespace", "id", "lease", "sync", "namespace", "metrics",
                  "health", "readiness", "port", "concurrency", "grace"} |-> ""]
oPrograms == {[scheme |-> s, set |-> [oBlank EXCEPT !["elect"] = e[1], !["id"] = e[2], !["metrics"] = m,
                                                    !["health"] = h[1], !["readiness"] = h[2]]] :
                 s \in BOOLEAN, e \in {<<"", "">>, <<"true", "">>, <<"true", "mine">>, <<"false", "mine">>},
                 m \in {"", "0", ":9"}, h \in {<<"", "">>, <<":9", "/r">>}}
oFiles == {[ok |-> FALSE], [ok |-> TRUE, election |-> FALSE, set |-> oBlank]} \cup
          {[ok |-> TRUE, election |-> TRUE,
            set |-> [oBlank EXCEPT !["elect"] = e, !["id"] = "f", !["lockNamespace"] = n, !["lock"] = "leases",
                                   !["health"] = ":7", !["readiness"] = "/f", !["lease"] = "1s",
                                   !["grace"] = "2s", !["port"] = "1"]] :
                 e \in {"", "true", "false"}, n \in {"", "ns"}}

\* The part a behaviour is about; the variables of the others do not change.
VARIABLES part, fiInput, fiOutput, values, args, listen, template, addrAsked, known,
          history, attempts, rendered, revInput, revOutput, flags, options, zapLogger, derived,
          entry, heap, blder, added, mux, completed, steps, file, edits, loader, first, opts,
          conGiven, listening, mgr, pc, result, existing, config, starts, tries, conf, state,
          envProc, certs, authn, orphans, dirs, errs, serving, crd, shown, hook, envTodo, read,
          conflicts, other, deleted, crashes

F == INSTANCE EnvFiles
    WITH Inputs <- fInputs, Convertible <- {"a"}, CA <- 7, input <- fiInput, output <- fiOutput

G == INSTANCE Arguments
    WITH Keys <- {"a", "b", "m", "ca", "ip"}, Values <- {1}, Templates <- gTemplates, Listens <- gListens,
         Defaults <- gDefaults, MinimalDefaults <- gMinimal, CAFile <- "ca", InsecurePort <- "ip",
         MaxOps <- 2, MaxAttempts <- 2, asked <- addrAsked

V == INSTANCE Reviews
    WITH Requests <- vRequests, Group <- vGroup, input <- revInput, output <- revOutput

Z == INSTANCE ZapOptions
    WITH FlagSeqs <- zFlags, OptSeqs <- zOptSeqs, MaxDerived <- 1, logger <- zapLogger

B == INSTANCE Builder
    WITH Predicates <- {"p", "q"}, Types <- {"t1"}, HookTypes <- {"t1", "t3"},
         Concurrency <- bConcurrency, Path <- bPath, Defaulters <- {"t1", "t3"},
         Validators <- {"t1"}, Convertible <- {"t1", "t3"}, MaxSteps <- 6, MaxBuilds <- 2,
         MaxWatches <- 1

N == INSTANCE Construct
    WITH Programs <- oPrograms, Files <- oFiles, MaxEdits <- 1, given <- conGiven

E == INSTANCE TestEnv
    WITH CRDs <- {"c1", "c2"}, Existing <- BOOLEAN, CleanUpAfterUse <- TRUE, MaxTries <- 2,
         MaxConflicts <- 2, MaxStarts <- 2, MaxOther <- 2, MaxCrashes <- 1, proc <- envProc,
         todo <- envTodo

sVars == <<now, ports, asked, given>>
fVars == <<fiInput, fiOutput>>
tVars == <<store, proc, runs, kills, broken>>
gVars == <<values, args, listen, template, addrAsked, known, history, attempts, rendered>>
vVars == <<revInput, revOutput>>
zVars == <<flags, options, zapLogger, derived, entry>>
bVars == <<heap, blder, added, mux, completed, steps>>
nVars == <<file, edits, loader, first, opts, conGiven, listening, mgr>>
eVars == <<pc, result, existing, config, starts, tries, conf, state, envProc, certs, authn,
           orphans, dirs, errs, serving, crd, shown, hook, envTodo, read, conflicts, other, deleted,
           crashes>>
mVars == <<lazy, mapServer, static, loaded, mapOnce, mapWriter, resources, cacheLock, lookup,
           tokens, calls, refills, installs, failures>>

AllVars == <<part, sVars, fVars, tVars, gVars, vVars, vars, zVars, bVars, nVars, eVars, mVars>>
Parts == {"ports", "files", "tool", "arguments", "reviews", "loggers", "zap", "builder",
          "construct", "environment", "mapper"}

Off == "off"

SumInit ==
    /\ part \in Parts
    /\ Init
    /\ S!Init
    /\ T!Init /\ (part # "tool" => T!OnDisk = {})
    /\ M!Init /\ (part # "mapper" => ~lazy /\ mapServer = {})
    /\ IF part = "files" THEN F!Init
       ELSE fiInput = Off /\ fiOutput = Off
    /\ IF part = "arguments" THEN G!Init /\ (template = <<>> \/ addrAsked = gUnset)
       ELSE values = Off /\ args = Off /\ listen = Off /\ template = Off /\ addrAsked = Off /\
            known = Off /\ history = Off /\ attempts = Off /\ rendered = Off
    /\ IF part = "reviews" THEN V!Init
       ELSE revInput = Off /\ revOutput = Off
    /\ IF part = "zap" THEN Z!Init
       ELSE flags = Off /\ options = Off /\ zapLogger = Off /\ derived = Off /\ entry = Off
    /\ IF part = "builder" THEN B!Init
       ELSE heap = Off /\ blder = Off /\ added = Off /\ mux = Off /\ completed = Off /\
            steps = Off
    /\ IF part = "construct" THEN N!Init
       ELSE file = Off /\ edits = Off /\ loader = Off /\ first = Off /\ opts = Off /\
            conGiven = Off /\ listening = Off /\ mgr = Off
    /\ IF part = "environment" THEN E!Init
       ELSE pc = Off /\ result = Off /\ existing = Off /\ config = Off /\ starts = Off /\
            tries = Off /\ conf = Off /\ state = Off /\ envProc = Off /\ certs = Off /\ authn = Off /\
            orphans = Off /\ dirs = Off /\ errs = Off /\ serving = Off /\ crd = Off /\
            shown = Off /\ hook = Off /\ envTodo = Off /\ read = Off /\ conflicts = Off /\
            other = Off /\ deleted = Off /\ crashes = Off

SumNext ==
    /\ UNCHANGED part
    /\ \/ /\ part = "ports" /\ S!Next
          /\ UNCHANGED <<fVars, tVars, gVars, vVars, vars, zVars, bVars, nVars, eVars, mVars>>
       \/ /\ part = "files" /\ F!Next
          /\ UNCHANGED <<sVars, tVars, gVars, vVars, vars, zVars, bVars, nVars, eVars, mVars>>
       \/ /\ part = "tool" /\ T!Next
          /\ UNCHANGED <<sVars, fVars, gVars, vVars, vars, zVars, bVars, nVars, eVars, mVars>>
       \/ /\ part = "arguments" /\ G!Next
          /\ UNCHANGED <<sVars, fVars, tVars, vVars, vars, zVars, bVars, nVars, eVars, mVars>>
       \/ /\ part = "reviews" /\ V!Next
          /\ UNCHANGED <<sVars, fVars, tVars, gVars, vars, zVars, bVars, nVars, eVars, mVars>>
       \/ /\ part = "loggers" /\ Next
          /\ UNCHANGED <<sVars, fVars, tVars, gVars, vVars, zVars, bVars, nVars, eVars, mVars>>
       \/ /\ part = "zap" /\ Z!Next
          /\ UNCHANGED <<sVars, fVars, tVars, gVars, vVars, vars, bVars, nVars, eVars, mVars>>
       \/ /\ part = "builder" /\ B!Next
          /\ UNCHANGED <<sVars, fVars, tVars, gVars, vVars, vars, zVars, nVars, eVars, mVars>>
       \/ /\ part = "construct" /\ N!Next
          /\ UNCHANGED <<sVars, fVars, tVars, gVars, vVars, vars, zVars, bVars, eVars, mVars>>
       \/ /\ part = "environment" /\ E!Next
          /\ UNCHANGED <<sVars, fVars, tVars, gVars, vVars, vars, zVars, bVars, nVars, mVars>>
       \/ /\ part = "mapper" /\ M!Next
          /\ UNCHANGED <<sVars, fVars, tVars, gVars, vVars, vars, zVars, bVars, nVars, eVars>>

SumSpec == SumInit /\ [][SumNext]_AllVars

----------------------------------------------------------------------------
(* The properties of the modules that are not extended.                     *)

\* What envtest installs is what the files and lists say (EnvFiles.tla).
FilesRight == part = "files" => F!FilesRight

\* Admission, token, conversion and health requests are answered as their
\* handlers say (Reviews.tla).
ReviewsRight == part = "reviews" => V!ReviewsRight


\* A started environment is installed, a stopped one has ended (TestEnv.tla).
EnvironmentKept == part = "environment" => E!EnvironmentKept
=============================================================================
