----------------------------- MODULE ZapOptions -----------------------------
(***************************************************************************)
(* The zap logger (pkg/log/zap): options from the program and from flags,   *)
(* the defaults of NewRaw, and the KubeAwareEncoder, which shortens objects *)
(* in log entries.                                                          *)
(***************************************************************************)
EXTENDS Integers, Sequences, SequencesExt

CONSTANTS FlagSeqs,     \* the flags a program may be started with, in their order
          OptSeqs,      \* the options it may pass, in their order
          MaxDerived

VARIABLES flags, options, logger, derived, entry

vars == <<flags, options, logger, derived, entry>>

Debug == -1
Info == 0
Warn == 1
Error == 2
Panic == 4
NoLevel == 1000
NoEntry == [level |-> NoLevel]
NoLogger == [level |-> NoLevel]

Blank == [devel |-> FALSE, encoder |-> "", newEncoder |-> "", dest |-> "", destWritter |-> "",
          level |-> NoLevel, stack |-> NoLevel, zapOpts |-> <<>>]

-----------------------------------------------------------------------------
(* flags.go: Set changes the options or refuses the value.                  *)

int8(n) == ((n + 128) % 256) - 128

levelStrings == [debug |-> Debug, info |-> Info, error |-> Error]
stackLevelStrings == [info |-> Info, error |-> Error, panic |-> Panic]

Taken(o) == [err |-> FALSE, o |-> o]
Refused(o) == [err |-> TRUE, o |-> o]

levelFlagSet(o, f) ==
    CASE f.name \in DOMAIN levelStrings -> Taken([o EXCEPT !.level = levelStrings[f.name]])
      [] f.name \notin DOMAIN levelStrings /\ f.num > 0 ->
            Taken([o EXCEPT !.level = int8(-1 * f.num)])
      [] OTHER -> Refused(o)
stackTraceFlagSet(o, f) ==
    IF f \in DOMAIN stackLevelStrings THEN Taken([o EXCEPT !.stack = stackLevelStrings[f]])
    ELSE Refused(o)
encoderFlagSet(o, f) ==
    IF f \in {"json", "console"} THEN Taken([o EXCEPT !.newEncoder = f]) ELSE Refused(o)

BindFlags(o, f) ==
    CASE f[1] = "zap-devel" -> Taken([o EXCEPT !.devel = f[2]])
      [] f[1] = "zap-encoder" -> encoderFlagSet(o, f[2])
      [] f[1] = "zap-log-level" -> levelFlagSet(o, f[2])
      [] f[1] = "zap-stacktrace-level" -> stackTraceFlagSet(o, f[2])

\* External: flag.FlagSet.Parse stops at the first flag that is refused.  The
\* program ends there, or goes on with what was set before.
Parse(o, fs) ==
    FoldLeft(LAMBDA acc, f : IF acc.err THEN acc ELSE BindFlags(acc.o, f), Taken(o), fs).o

-----------------------------------------------------------------------------
(* zap.go.                                                                  *)

UseDevMode(o, on) == [o EXCEPT !.devel = on]
WriteTo(o, out) == [o EXCEPT !.dest = out]
JSONEncoder(o) == [o EXCEPT !.encoder = "json"]
ConsoleEncoder(o) == [o EXCEPT !.encoder = "console"]
Level(o, l) == [o EXCEPT !.level = l]
StacktraceLevel(o, l) == [o EXCEPT !.stack = l]
RawZapOpts(o, z) == [o EXCEPT !.zapOpts = Append(@, z)]
UseFlagOptions(o, in) == in
\* An option of the program's own, for the field that has no other.
DestWritter(o, out) == [o EXCEPT !.destWritter = out]

ApplyOpt(o, opt, in) ==
    CASE opt[1] = "UseDevMode" -> UseDevMode(o, opt[2])
      [] opt[1] = "WriteTo" -> WriteTo(o, opt[2])
      [] opt[1] = "DestWritter" -> DestWritter(o, opt[2])
      [] opt[1] = "JSONEncoder" -> JSONEncoder(o)
      [] opt[1] = "ConsoleEncoder" -> ConsoleEncoder(o)
      [] opt[1] = "Level" -> Level(o, opt[2])
      [] opt[1] = "StacktraceLevel" -> StacktraceLevel(o, opt[2])
      [] opt[1] = "RawZapOpts" -> RawZapOpts(o, opt[2])
      [] opt[1] = "UseFlagOptions" -> UseFlagOptions(o, in)

Enabled(level, l) == l >= level

orElse(v, unset, default) == IF v = unset THEN default ELSE v

addDefaults(o) ==
    LET level == orElse(o.level, NoLevel, IF o.devel THEN Debug ELSE Info)
        newEncoder == orElse(o.newEncoder, "", IF o.devel THEN "console" ELSE "json")
    IN  [o EXCEPT !.dest = orElse(@, "", orElse(o.destWritter, "", "stderr")),
                  !.newEncoder = newEncoder,
                  !.encoder = orElse(@, "", newEncoder),
                  !.level = level,
                  !.stack = orElse(@, NoLevel, IF o.devel THEN Warn ELSE Error),
                  !.zapOpts = @ \o (CASE o.devel -> <<"development">>
                                      [] ~o.devel /\ ~Enabled(level, -2) -> <<"sampler">>
                                      [] OTHER -> <<>>) \o <<"stacktrace">>]

NewRaw(opts, in) ==
    LET o == addDefaults(FoldLeft(LAMBDA acc, opt : ApplyOpt(acc, opt, in), Blank, opts))
    IN  [level |-> o.level, stack |-> o.stack, encoder |-> o.encoder, dest |-> o.dest,
         verbose |-> o.devel, core |-> o.zapOpts]

-----------------------------------------------------------------------------
(* kube_helpers.go.                                                         *)

Clone(k) == [k EXCEPT !.verbose = FALSE]

\* What becomes of a field that holds an object: its text, or its name only.
EncodeEntry(k) == IF k.verbose THEN "full" ELSE "name"

-----------------------------------------------------------------------------
Init ==
    /\ flags \in FlagSeqs
    /\ options \in OptSeqs
    /\ logger = NoLogger
    /\ derived = 0
    /\ entry = NoEntry

New ==
    /\ logger = NoLogger
    /\ logger' = NewRaw(options, Parse(Blank, flags))
    /\ UNCHANGED <<flags, options, derived, entry>>

\* External: zap clones the encoder for a logger with more values.
WithValues ==
    /\ logger # NoLogger /\ derived < MaxDerived
    /\ derived' = derived + 1
    /\ logger' = Clone(logger)
    /\ UNCHANGED <<flags, options, entry>>

\* External: zap's check and write of one entry, logr verbosity v being level -v.
Log(v) ==
    /\ logger # NoLogger
    /\ entry' = IF Enabled(logger.level, -v)
                THEN [level |-> -v, dest |-> logger.dest, encoder |-> logger.encoder,
                      sampled |-> "sampler" \in Range(logger.core), object |-> EncodeEntry(logger)]
                ELSE NoEntry
    /\ UNCHANGED <<flags, options, logger, derived>>

Next == New \/ WithValues \/ \E v \in 0..4 : Log(v)

Spec == Init /\ [][Next]_vars

-----------------------------------------------------------------------------
\* Sampling is only ever done on entries the sampler has a counter for, levels
\* no lower than Debug, whatever mix of flags and options made the logger
\* (zap.go:206 "Otherwise, this will cause index out of bounds errors").
SamplerInBounds == entry # NoEntry /\ entry.sampled => entry.level >= Debug

(* What the flags and options ask for, in words: the last setting counts,   *)
(* an option for the flags discards all before it and says what the flags   *)
(* say; of these, only the ones before the first that makes no sense count. *)
LastOne(S) == CHOOSE i \in S : \A j \in S : j <= i
Verbosity(l) == CASE l.name = "debug" -> 1
                  [] l.name = "info" -> 0
                  [] l.name = "error" -> -2
                  [] OTHER -> IF l.num > 0 THEN l.num ELSE NoLevel
Sensible(f) == CASE f[1] = "zap-devel" -> TRUE
                 [] f[1] = "zap-encoder" -> f[2] \in {"json", "console"}
                 [] f[1] = "zap-log-level" -> Verbosity(f[2]) # NoLevel
                 [] f[1] = "zap-stacktrace-level" -> f[2] \in {"info", "error", "panic"}
FlagOf(name, unset) ==
    LET at == {i \in DOMAIN flags : flags[i][1] = name /\ \A j \in 1..i : Sensible(flags[j])}
    IN  IF at = {} THEN unset ELSE flags[LastOne(at)][2]

LastFlags == LET at == {i \in DOMAIN options : options[i][1] = "UseFlagOptions"}
             IN  IF at = {} THEN 0 ELSE LastOne(at)
LastOf(op, fromFlags, unset) ==
    LET at == {i \in DOMAIN options : options[i][1] = op /\ i > LastFlags}
    IN  IF at # {} THEN options[LastOne(at)][2]
        ELSE IF LastFlags > 0 THEN fromFlags ELSE unset
FlagVerbosity == Verbosity(FlagOf("zap-log-level", [name |-> "", num |-> 0]))
AskedDevel == LastOf("UseDevMode", FlagOf("zap-devel", FALSE), FALSE)
AskedLevel ==
    LET l == LastOf("Level", IF FlagVerbosity = NoLevel THEN NoLevel ELSE -FlagVerbosity, NoLevel)
    IN  IF l = NoLevel THEN (IF AskedDevel THEN Debug ELSE Info) ELSE l
AskedDest == LET dest == LastOf("WriteTo", "", "")
                 writter == LastOf("DestWritter", "", "")
             IN  IF dest # "" THEN dest ELSE IF writter # "" THEN writter ELSE "stderr"

\* The logger that New makes logs the verbosities asked for and no others,
\* writes where it was told, and prints whole objects only in development mode
\* (zap.go, NewRaw and BindFlags); verbosities over 128 wrap and are left out.
LogsAsAsked ==
    logger # NoLogger /\ (FlagVerbosity \in {NoLevel} \cup -2..128 \/ LastFlags = 0) =>
        /\ logger.level = AskedLevel
        /\ logger.dest = AskedDest
        /\ logger.verbose => AskedDevel
        /\ derived = 0 => logger.verbose = AskedDevel
=============================================================================
