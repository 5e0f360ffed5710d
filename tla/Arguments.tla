------------------------------ MODULE Arguments ------------------------------
(***************************************************************************)
(* pkg/internal/testing/process/arguments.go and its use by the API server *)
(* and etcd: the flags a user configures, then the addresses and the       *)
(* command line that setProcessState settles for each attempt to start.  A *)
(* value is a number, a flag's values a sequence of them.                  *)
(***************************************************************************)
EXTENDS Integers, Sequences, SequencesExt, FiniteSets

CONSTANTS
    Keys,             \* flags
    Values,
    Templates,        \* the values of the deprecated Args field
    Listens,          \* the URL, SecurePort and serving fields a user sets
    Defaults,         \* defaultArgs: from some flags to their values
    MinimalDefaults,  \* TemplateDefaults.MinimalDefaults
    CAFile,           \* the flag the authenticator sets
    InsecurePort,     \* the flag discoverFlags looks for
    MaxOps,           \* bound: calls that configure flags
    MaxAttempts       \* bound: attempts to start

VARIABLES
    values, args,            \* the configured flags, the Args field
    listen,                  \* URL, InsecureServing, SecurePort and SecureServing
    template, asked, known,  \* Args and listen as the user set them; whether
                             \* the binary has the insecure-port flag
    history,                 \* the calls that configured flags
    attempts, rendered       \* what each attempt made of listen, and the
                             \* command lines of those that had one

vars == <<values, args, listen, template, asked, known, history, attempts, rendered>>

\* The kinds of Arg.
userArg(vs) == [kind |-> "user", vals |-> vs]
defaultedArg(vs) == [kind |-> "defaulted", vals |-> vs]
DontPass == [kind |-> "dontPass", vals |-> <<>>]
PassAsName == [kind |-> "passAsName", vals |-> <<>>]
FuncArg(vs) == [kind |-> "func", vals |-> vs]

ArgAppend(a, vs) ==
    CASE a.kind = "user" -> userArg(a.vals \o vs)
      [] a.kind = "defaulted" -> defaultedArg(a.vals \o vs)
      [] a.kind = "dontPass" -> userArg(vs)
      [] a.kind \in {"passAsName", "func"} -> a

ArgGet(a, defaults) ==
    CASE a.kind \in {"user", "func"} -> [pass |-> TRUE, vals |-> a.vals]
      [] a.kind = "defaulted" -> [pass |-> defaults \o a.vals # <<>>, vals |-> defaults \o a.vals]
      [] a.kind = "dontPass" -> [pass |-> FALSE, vals |-> <<>>]
      [] a.kind = "passAsName" -> [pass |-> TRUE, vals |-> <<>>]

EmptyArguments == [k \in {} |-> DontPass]

Put(vals, k, a) == [x \in DOMAIN vals \cup {k} |-> IF x = k THEN a ELSE vals[x]]
Get(vals, k) == IF k \in DOMAIN vals THEN vals[k] ELSE defaultedArg(<<>>)

Enable(vals, k) == Put(vals, k, PassAsName)
Disable(vals, k) == Put(vals, k, DontPass)
Append_(vals, k, vs) ==
    Put(vals, k, ArgAppend(IF k \in DOMAIN vals THEN vals[k] ELSE defaultedArg(<<>>), vs))
AppendNoDefaults(vals, k, vs) ==
    Put(vals, k, ArgAppend(IF k \in DOMAIN vals THEN vals[k] ELSE userArg(<<>>), vs))
Set(vals, k, vs) == Put(vals, k, userArg(vs))
SetRaw(vals, k, a) == Put(vals, k, a)

\* AsStrings: of each flag that is passed, its values; the order of the flags
\* is the alphabetical one and says nothing.
AsStrings(vals, defaults) ==
    LET default(k) == IF k \in DOMAIN defaults THEN defaults[k] ELSE <<>>
        got(k) == ArgGet(Get(vals, k), default(k))
        passed == {k \in DOMAIN vals \cup DOMAIN defaults : got(k).pass}
    IN  [k \in passed |-> got(k).vals]

\* SliceToArguments: [flag, value] is "--flag=value", anything else has no
\* flag; nothing after a "--" is a flag.
IsDashes(x) == x.flag = "--"
UpToDashes(templ) ==
    IF \E i \in DOMAIN templ : IsDashes(templ[i])
    THEN SelectInSeq(templ, IsDashes) - 1 ELSE Len(templ)
IsFlag(x) == x.flag \in Keys
SliceToArguments(templ, vals) ==
    LET head == SubSeq(templ, 1, UpToDashes(templ))
        tail == SubSeq(templ, UpToDashes(templ) + 1, Len(templ))
        step(acc, x) == IF IsFlag(x) THEN AppendNoDefaults(acc, x.flag, <<x.val>>) ELSE acc
    IN  [values |-> FoldLeft(step, vals, head),
         rest |-> SelectSeq(head, LAMBDA x : ~IsFlag(x)) \o tail]

\* RenderTemplates fails on a template that does not parse.
RenderFails(templ) == \E i \in DOMAIN templ : templ[i].flag = "{{"

TemplateAndArguments(templ, vals) ==
    IF templ = <<>>
    THEN [err |-> FALSE, values |-> vals, rest |-> <<>>, out |-> AsStrings(vals, Defaults)]
    ELSE IF RenderFails(templ)
    THEN [err |-> TRUE, values |-> vals, rest |-> <<>>, out |-> EmptyArguments]
    ELSE LET split == SliceToArguments(templ, vals)
         IN  [err |-> FALSE, values |-> split.values, rest |-> split.rest,
              out |-> AsStrings(split.values, MinimalDefaults)]

-----------------------------------------------------------------------------
(* The addresses.  An empty host or port 0 is one that is not set; a URL     *)
(* that is nil is NoAddr, and insec says whether InsecureServing is not nil. *)

NoAddr == [host |-> "", port |-> 0]
Incomplete(a) == a.host = "" \/ a.port = 0

\* addr.Suggest: a port nobody uses, here one that no attempt had yet.
Suggest(n) == [host |-> "127.0.0.1", port |-> n]
InsecureSuggestion == Suggest(2 * Len(attempts) + 1)
SecureSuggestion == Suggest(2 * Len(attempts) + 2)

\* The deprecated URL wins; an address of which one half is missing is
\* replaced as a whole.
SuggestsInsecure(l) == l.url = NoAddr /\ l.insec /\ Incomplete(l.insecure)
configureInsecure(l) ==
    CASE l.url # NoAddr -> [l EXCEPT !.insec = TRUE, !.insecure = l.url]
      [] SuggestsInsecure(l) ->
           [l EXCEPT !.insecure = InsecureSuggestion, !.url = InsecureSuggestion]
      [] OTHER -> [l EXCEPT !.url = IF l.insec THEN l.insecure ELSE NoAddr]

SuggestsSecure(l) == l.securePort = 0 /\ Incomplete(l.secure)
configureSecure(l) ==
    LET host == IF l.secure.host # "" THEN l.secure.host
                ELSE IF l.insec THEN l.insecure.host ELSE "127.0.0.1"
    IN  CASE l.securePort # 0 ->
               [l EXCEPT !.secure = [host |-> host, port |-> l.securePort]]
          [] SuggestsSecure(l) ->
               [l EXCEPT !.secure = SecureSuggestion, !.securePort = SecureSuggestion.port]
          [] OTHER -> l

\* configurePorts; a Suggest that fails, of the insecure or the secure port,
\* leaves what was done before it.
configurePorts(l, fails) ==
    CASE fails = "insecure" -> l
      [] fails = "secure" -> configureInsecure(l)
      [] OTHER -> configureSecure(configureInsecure(l))

-----------------------------------------------------------------------------
TypeOK ==
    /\ DOMAIN values \subseteq Keys /\ Len(history) <= MaxOps
    /\ Len(rendered) <= Len(attempts) /\ Len(attempts) <= MaxAttempts
    /\ listen.securePort \in Nat /\ known \in BOOLEAN

Init ==
    /\ values = EmptyArguments /\ history = <<>> /\ rendered = <<>> /\ attempts = <<>>
    /\ template \in Templates /\ args = template
    /\ asked \in Listens /\ listen = asked
    /\ known \in BOOLEAN

Ops == {"enable", "disable", "append", "appendNoDefaults", "set", "func"}

Apply(vals, op, k, vs) ==
    CASE op = "enable" -> Enable(vals, k)
      [] op = "disable" -> Disable(vals, k)
      [] op = "append" -> Append_(vals, k, vs)
      [] op = "appendNoDefaults" -> AppendNoDefaults(vals, k, vs)
      [] op = "set" -> Set(vals, k, vs)
      [] op = "func" -> SetRaw(vals, k, FuncArg(vs))

Configure(op, k, v) ==
    /\ attempts = <<>> /\ Len(history) < MaxOps
    /\ values' = Apply(values, op, k, <<v>>)
    /\ history' = Append(history, [op |-> op, key |-> k, vals |-> <<v>>])
    /\ UNCHANGED <<args, listen, template, asked, known, attempts, rendered>>

\* discoverFlags runs the binary with the flag to see whether it knows it.
discoverFlags(vals) == IF known THEN vals ELSE Disable(vals, InsecurePort)

\* The calls of setProcessState that may fail: Init (or there is no EtcdURL),
\* the two of Suggest, the certificates and the authenticator, discoverFlags.
Failures == {"init", "insecure", "secure", "certs", "discover"}

setProcessStateFails(at) ==
    /\ Len(attempts) < MaxAttempts
    /\ at = "insecure" => SuggestsInsecure(listen)
    /\ at = "secure" => SuggestsSecure(configureInsecure(listen))
    /\ listen' = IF at = "init" THEN listen ELSE configurePorts(listen, at)
    /\ attempts' = Append(attempts, listen')
    /\ values' = IF at = "discover" THEN Set(values, CAFile, <<0>>) ELSE values
    /\ UNCHANGED <<args, template, asked, known, history, rendered>>

\* setProcessState of the API server, once per attempt.  Args is assigned what
\* TemplateAndArguments returns, also with an error: the template is gone then.
setProcessState ==
    LET configured == discoverFlags(Set(values, CAFile, <<0>>))
        done == TemplateAndArguments(args, configured)
    IN  /\ Len(attempts) < MaxAttempts
        /\ listen' = configurePorts(listen, "none")
        /\ attempts' = Append(attempts, listen')
        /\ values' = done.values
        /\ args' = done.rest
        /\ rendered' = IF done.err THEN rendered
                       ELSE Append(rendered, [flags |-> done.out, rest |-> done.rest,
                                              listen |-> listen'])
        /\ UNCHANGED <<template, asked, known, history>>

Next ==
    \/ \E op \in Ops, k \in Keys, v \in Values : Configure(op, k, v)
    \/ \E at \in Failures : setProcessStateFails(at)
    \/ setProcessState

Spec == Init /\ [][Next]_vars

-----------------------------------------------------------------------------
\* What the comments of the methods promise of one flag, over the calls made
\* for it: Enable, Disable, Set and SetRaw start afresh; Append adds to what
\* there is, or to the defaults if there is nothing; AppendNoDefaults adds to
\* what there is, or to nothing; an enabled flag and a function ignore both.
Promised(k, ops, defaults) ==
    LET mine == SelectSeq(ops, LAMBDA h : h.key = k)
        resets == {i \in DOMAIN mine : mine[i].op \in {"enable", "disable", "set", "func"}}
        from == IF resets = {} THEN 0 ELSE CHOOSE i \in resets : \A j \in resets : j <= i
        added == FlattenSeq([i \in 1 .. Len(mine) - from |-> mine[from + i].vals])
        default == IF k \in DOMAIN defaults THEN defaults[k] ELSE <<>>
    IN  IF mine = <<>> THEN [pass |-> default # <<>>, vals |-> default]
        ELSE IF from = 0 THEN [pass |-> TRUE,
                              vals |-> IF mine[1].op = "append" THEN default \o added ELSE added]
        ELSE CASE mine[from].op = "enable" -> [pass |-> TRUE, vals |-> <<>>]
               [] mine[from].op = "disable" -> [pass |-> added # <<>>, vals |-> added]
               [] mine[from].op = "set" -> [pass |-> TRUE, vals |-> mine[from].vals \o added]
               [] mine[from].op = "func" -> [pass |-> TRUE, vals |-> mine[from].vals]

\* The first command line passes each flag as the calls that configured it
\* promise.  A retry passes every flag of the first
\* again, save the two that setProcessState itself sets each time; since the
\* first attempt used the template up, it may add defaults that the first left
\* out, and nothing else; a template that does not parse costs an attempt and
\* is left out of the next (AsStrings, TemplateAndArguments, setProcessState).
FlagsAsConfigured ==
    LET auto == <<[op |-> "set", key |-> CAFile, vals |-> <<0>>]>>
                \o (IF known THEN <<>>
                    ELSE <<[op |-> "disable", key |-> InsecurePort, vals |-> <<>>]>>)
        used == IF RenderFails(template) THEN <<>> ELSE template
        flags == SelectSeq(SubSeq(used, 1, UpToDashes(used)), IsFlag)
        fromTemplate == [i \in DOMAIN flags |-> [op |-> "appendNoDefaults", key |-> flags[i].flag,
                                                 vals |-> <<flags[i].val>>]]
        ops == history \o auto \o fromTemplate
        promised(k) == Promised(k, ops, IF used = <<>> THEN Defaults ELSE MinimalDefaults)
        default(k) == IF k \in DOMAIN Defaults THEN Defaults[k] ELSE <<>>
        first == rendered[1].flags
    IN  /\ rendered # <<>> =>
             \A k \in Keys : /\ promised(k).pass <=> k \in DOMAIN first
                             /\ k \in DOMAIN first => first[k] = promised(k).vals
        /\ \A n \in DOMAIN rendered :
             LET this == rendered[n].flags
             IN  \A k \in Keys \ {CAFile, InsecurePort} :
                   /\ k \in DOMAIN first =>
                        k \in DOMAIN this /\ this[k] \in {first[k], default(k) \o first[k]}
                   /\ k \in DOMAIN this \ DOMAIN first => this[k] = default(k)

\* An attempt that gets as far as a command line listens where the user said,
\* wherever the user said it in full: the URL, the SecurePort, or an address
\* with both its halves.  It listens on an insecure port only if the user asked
\* for one, and not twice on one port unless the user said so.  What one attempt
\* has settled the later ones keep, though it failed (configurePorts).
ListensWhereAsked ==
    LET insecure == IF asked.url # NoAddr THEN asked.url ELSE asked.insecure
        saidInsecure == asked.url # NoAddr \/ (asked.insec /\ ~Incomplete(asked.insecure))
        saidSecure == asked.securePort # 0 \/ ~Incomplete(asked.secure)
    IN  /\ \A n \in DOMAIN rendered :
             LET l == rendered[n].listen
             IN  /\ ~Incomplete(l.secure)
                 /\ l.url # NoAddr <=> asked.url # NoAddr \/ asked.insec
                 /\ l.url = l.insecure
                 /\ saidInsecure => l.url = insecure
                 /\ asked.securePort # 0 => l.secure.port = asked.securePort
                 /\ asked.securePort = 0 /\ saidSecure => l.secure = asked.secure
                 /\ l.secure.port = l.url.port => saidInsecure /\ saidSecure
        /\ \A i, j \in DOMAIN attempts : i <= j =>
             /\ attempts[i].url # NoAddr => attempts[j].url = attempts[i].url
             /\ attempts[i].securePort # 0 => attempts[j].securePort = attempts[i].securePort

=============================================================================
