-------------------------------- MODULE Setup --------------------------------
(* The ports a test is given, and setup-envtest, side by side. *)
EXTENDS Integers

CONSTANTS Callers, PortNumbers, ReserveTime, Retries, MaxTime, \* Ports
          Invocations, Exprs, Flags, Platforms, Remote, Hashed, Stores, Files, MaxRuns,
          MaxKills                                             \* EnvtestTool

VARIABLES now, ports, asked, given

S == INSTANCE Ports
    WITH call <- asked

ASSUME PortsConstants == S!PortsAssumption

VARIABLES store, proc, runs, kills, broken

T == INSTANCE EnvtestTool
    WITH Procs <- Invocations

ASSUME ToolConstants == T!ToolAssumption

\* A port is not given out twice within its reserve time (Ports.tla).
NotGivenTwice == S!NotGivenTwice

\* setup-envtest uses the newest version that matches, and a whole one
\* (EnvtestTool.tla).
VersionsRight == T!VersionsRight

==============================================================================
