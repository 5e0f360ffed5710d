----------------------------- MODULE EnvtestTool -----------------------------
(***************************************************************************)
(* tools/setup-envtest: invocations of the command line tool that share    *)
(* one store on disk.  An invocation picks a version for a selector and a  *)
(* platform, downloads it if it must, checks its sum and unpacks it into   *)
(* the store; others clean the store up or sideload an archive.  Several   *)
(* invocations may run at once, each may fail at every step, and each may  *)
(* be killed.                                                              *)
(***************************************************************************)
EXTENDS Integers

CONSTANTS
    Procs,      \* invocations that may run at once
    Exprs,      \* version arguments: what the regular expression matched
    Flags,      \* the values of -i (NoDownload), -f (ForceDownload), --verify
    Platforms,  \* the values of --os and --arch, "*" for a wildcard
    Remote,     \* the items the bucket holds
    Hashed,     \* those whose sum the bucket knows
    Stores,     \* the sets of items the store may hold at first
    Files,      \* the binaries in an archive
    MaxRuns,    \* bound: invocations
    MaxKills    \* bound: invocations that are killed

AnyPoint == -1

VARIABLES
    store,   \* the directories of the store
    proc,    \* the invocations
    runs, kills,
    broken   \* history: items that a kill, two invocations at once or a failed
             \* clean-up may have left incomplete

vars == <<store, proc, runs, kills, broken>>

-----------------------------------------------------------------------------
(* Versions and selectors.                                                  *)

Ver(major, minor, patch) == [major |-> major, minor |-> minor, patch |-> patch]

NewerThan(c, other) ==
    \/ c.major > other.major
    \/ c.major = other.major /\ c.minor > other.minor
    \/ c.major = other.major /\ c.minor = other.minor /\ c.patch > other.patch

PointMatches(p, other) == p = AnyPoint \/ p = other

PatchMatches(s, v) ==
    s.major = v.major /\ s.minor = v.minor /\ PointMatches(s.patch, v.patch)

TildeMatches(s, v) ==
    s = v \/ (v.major = s.major /\ v.minor = s.minor /\ v.patch >= s.patch)

LessThanMatches(s, v, orEquals) ==
    IF s.major # v.major THEN s.major > v.major
    ELSE IF s.minor # v.minor THEN s.minor > v.minor
    ELSE IF ~PointMatches(s.patch, v.patch) THEN s.patch > v.patch
    ELSE orEquals

\* Spec.Matches, by the kind of its selector.
Matches(spec, v) ==
    CASE spec.kind = "any" -> TRUE
      [] spec.kind = "patch" -> PatchMatches(spec.ver, v)
      [] spec.kind = "tilde" -> TildeMatches(spec.ver, v)
      [] spec.kind = "less" -> LessThanMatches(spec.ver, v, spec.orEquals)

Spec_(kind, ver, orEquals, latest) ==
    [kind |-> kind, ver |-> ver, orEquals |-> orEquals, latest |-> latest]

\* AsConcrete is nil for anything but a patch selector without a wildcard.
IsConcrete(spec) == spec.kind = "patch" /\ spec.ver.patch # AnyPoint
MakeConcrete(v) == Spec_("patch", v, FALSE, FALSE)

\* FromExpr on the groups of the match, and the words setupEnv takes itself.
FromExpr(e) ==
    LET ver == Ver(e.major, e.minor, e.patch)
        base == Ver(e.major, e.minor, IF e.patch = AnyPoint THEN 0 ELSE e.patch)
    IN  CASE e.sel = "" -> Spec_("patch", ver, FALSE, e.latest)
          [] e.sel \in {"<", "<="} -> Spec_("less", ver, e.sel = "<=", e.latest)
          [] e.sel = "~" -> Spec_("tilde", base, FALSE, e.latest)
          [] e.sel = "latest" -> Spec_("any", Ver(0, 0, 0), FALSE, TRUE)
          [] e.sel = "latest-on-disk" -> Spec_("any", Ver(0, 0, 0), FALSE, FALSE)

PlatformMatches(p, other) == p = other \/ p = "*" \/ other = "*"

\* Filter.Matches, and the newest of the items it lets through: List and
\* ListVersions sort by version, newest first.
FilterMatches(spec, plat, item) == Matches(spec, item.ver) /\ PlatformMatches(plat, item.plat)
Newest(items) == {i \in items : \A j \in items : ~NewerThan(j.ver, i.ver)}

-----------------------------------------------------------------------------
Items == (UNION Stores) \cup Remote
None == [ver |-> Ver(0, 0, 0), plat |-> "none"]
Absent == [on |-> FALSE, files |-> {}, good |-> TRUE]
Idle == [pc |-> "idle", spec |-> MakeConcrete(Ver(0, 0, 0)), plat |-> "*",
         noDownload |-> FALSE, force |-> FALSE, verify |-> TRUE, item |-> None, good |-> TRUE,
         seen |-> {}]

\* Versions are of three numbers, below 100 as Num below takes them to be.
ToolAssumption ==
    /\ Items \subseteq [ver : [major : 0 .. 99, minor : 0 .. 99, patch : 0 .. 99],
                       plat : {i.plat : i \in Items}]
    /\ Exprs \subseteq [sel : {"", "<", "<=", "~", "latest", "latest-on-disk"},
                       major : 0 .. 99, minor : 0 .. 99, patch : AnyPoint .. 99, latest : BOOLEAN]
    /\ Flags \subseteq [noDownload : BOOLEAN, force : BOOLEAN, verify : BOOLEAN]
    /\ MaxRuns \in Nat /\ MaxKills \in Nat

OnDisk == {i \in DOMAIN store : store[i].on}
Adding(i) == {p \in Procs : proc[p].item = i /\ proc[p].pc \in {"unpack", "chmod"}}

TypeOK ==
    /\ \A i \in DOMAIN store : store[i].files \subseteq Files /\ store[i].good \in BOOLEAN
    /\ DOMAIN proc = Procs /\ runs \in 0 .. MaxRuns /\ kills \in 0 .. MaxKills
    /\ broken \subseteq DOMAIN store

Init ==
    /\ \E s \in Stores :
         store = [i \in Items |-> [on |-> i \in s, good |-> TRUE,
                                   files |-> IF i \in s THEN Files ELSE {}]]
    /\ proc = [p \in Procs |-> Idle]
    /\ runs = 0 /\ kills = 0 /\ broken = {}

Goto(p, pc) == proc' = [proc EXCEPT ![p].pc = pc]
End(p) == proc' = [proc EXCEPT ![p] = Idle]

CheckCoherence(env) == ~(env.noDownload /\ env.force)

\* "use": setupEnv takes the flags; an incoherent set of them exits.
Use(p, e, f, plat) ==
    LET env == [Idle EXCEPT !.pc = "select", !.spec = FromExpr(e), !.plat = plat,
                            !.force = f.force, !.verify = f.verify,
                            !.noDownload = f.noDownload \/ e.sel = "latest-on-disk"]
    IN  /\ proc[p].pc = "idle" /\ runs < MaxRuns /\ runs' = runs + 1
        /\ proc' = [proc EXCEPT ![p] = IF CheckCoherence(env) THEN env ELSE Idle]
        /\ UNCHANGED <<store, kills, broken>>

\* PathMatches: with -u, a path that names a version or holds the binaries is
\* printed as it is, whatever the selector; the store is not looked at.
PathMatches(p) ==
    /\ proc[p].pc = "idle" /\ runs < MaxRuns /\ runs' = runs + 1
    /\ Goto(p, "print")
    /\ UNCHANGED <<store, kills, broken>>

\* LatestVersion: the newest version of the bucket for the selector and the
\* platform.
LatestVersion(j) == Newest({i \in Remote : FilterMatches(j.spec, j.plat, i)})

\* EnsureVersionIsSet.  The store is read once, here.
EnsureVersionIsSet(p) ==
    LET j == proc[p]
        local == Newest({i \in OnDisk : FilterMatches(j.spec, j.plat, i)})
        pick(i) == [j EXCEPT !.pc = "check", !.item = i, !.seen = OnDisk]
        given == [ver |-> j.spec.ver, plat |-> j.plat]
    IN  /\ j.pc = "select"
        /\ \/ /\ IsConcrete(j.spec)
              /\ proc' = [proc EXCEPT ![p] = pick(given)]
           \/ /\ ~IsConcrete(j.spec)
              /\ IF (j.noDownload \/ ~j.spec.latest) /\ local # {}
                 THEN \E i \in local : proc' = [proc EXCEPT ![p] = pick(i)]
                 ELSE /\ ~j.noDownload
                      /\ \E r \in LatestVersion(j) :
                           \/ \E i \in local : ~j.force /\ NewerThan(i.ver, r.ver)
                                               /\ proc' = [proc EXCEPT ![p] = pick(i)]
                           \/ /\ \A i \in local : j.force \/ ~NewerThan(i.ver, r.ver)
                              /\ proc' = [proc EXCEPT ![p] = pick(r)]
        /\ UNCHANGED <<store, runs, kills, broken>>

\* ExistsAndValid: a directory in the store is enough, and -f ignores it.
ExistsAndValid(p) ==
    LET j == proc[p]
    IN  /\ j.pc = "check"
        /\ \/ /\ ~j.force /\ j.item.plat # "*" /\ j.item \in OnDisk
              /\ Goto(p, "print")
           \/ /\ j.force \/ (j.item.plat # "*" /\ j.item \notin OnDisk)
              /\ ~j.noDownload
              /\ Goto(p, "fetch")
        /\ UNCHANGED <<store, runs, kills, broken>>

\* Fetch up to Store.Add: FetchSum if the sum is not known, GetVersion into a
\* temporary file.  What arrives may be damaged, and then the sums differ, if
\* they are compared: with --verify, and only if the bucket knows the sum.
Verified(j) == j.verify /\ j.item \in Hashed
ChecksumMatches(j, good) == Verified(j) => good
Fetch(p) ==
    LET j == proc[p]
    IN  /\ j.pc = "fetch" /\ j.item \in Remote
        /\ \E good \in BOOLEAN :
             /\ ChecksumMatches(j, good)
             /\ proc' = [proc EXCEPT ![p].pc = "add", ![p].good = good]
             /\ broken' = IF good THEN broken ELSE broken \cup {j.item}
        /\ UNCHANGED <<store, runs, kills>>

\* "sideload" puts an archive from stdin into the store.
Sideload(p, i) ==
    /\ proc[p].pc = "idle" /\ runs < MaxRuns /\ runs' = runs + 1
    /\ proc' = [proc EXCEPT ![p] = [Idle EXCEPT !.pc = "add", !.item = i]]
    /\ UNCHANGED <<store, kills, broken>>

\* Two invocations work on the item at the same time.
Race(i, p) == IF Adding(i) \ {p} # {} THEN broken \cup {i} ELSE broken

\* Store.Add: an old directory is removed and a new one made, the files are
\* unpacked one by one, and the directory becomes read-only.
AddClean(p) ==
    LET i == proc[p].item
    IN  /\ proc[p].pc = "add"
        /\ store' = [store EXCEPT ![i] = [on |-> TRUE, files |-> {}, good |-> proc[p].good]]
        /\ proc' = [proc EXCEPT ![p] = [Idle EXCEPT !.pc = "unpack", !.item = i,
                                                 !.good = proc[p].good]]
        /\ broken' = Race(i, p)
        /\ UNCHANGED <<runs, kills>>

AddUnpack(p) ==
    LET i == proc[p].item
    IN  /\ proc[p].pc = "unpack" /\ store[i].on
        /\ \E f \in Files \ store[i].files :
             /\ store' = [store EXCEPT ![i].files = @ \cup {f},
                                       ![i].good = @ /\ proc[p].good]
             /\ IF store[i].files \cup {f} = Files THEN Goto(p, "chmod") ELSE UNCHANGED proc
        /\ UNCHANGED <<runs, kills, broken>>

\* Another invocation unpacked the same files first: they are written again.
AddAgain(p) ==
    LET i == proc[p].item
    IN  /\ proc[p].pc = "unpack" /\ store[i].files = Files
        /\ Goto(p, "chmod")
        /\ UNCHANGED <<store, runs, kills, broken>>

AddChmod(p) ==
    /\ proc[p].pc = "chmod"
    /\ Goto(p, "print")
    /\ UNCHANGED <<store, runs, kills, broken>>

\* Slip: what a failed Add has unpacked stays.
keepItem(i) == store

removeItem(i) == [store EXCEPT ![i] = Absent]

\* The deferred clean-up of Store.Add: whatever failed, the directory goes,
\* unless that fails, too, and leaves some of the files.
AddFails(p) ==
    LET i == proc[p].item
    IN  /\ proc[p].pc \in {"unpack", "add"}
        /\ \/ store' = removeItem(i) /\ broken' = Race(i, p)
           \/ \E left \in SUBSET store[i].files :
                store' = [store EXCEPT ![i].files = left] /\ broken' = broken \cup {i}
        /\ End(p)
        /\ UNCHANGED <<runs, kills>>

\* PrintInfo prints the path of the version in the store.
PrintInfo(p) ==
    /\ proc[p].pc = "print"
    /\ End(p)
    /\ UNCHANGED <<store, runs, kills, broken>>

\* "cleanup": Store.Remove takes every match away, one by one; what it could
\* not remove stays, or some of it.
Cleanup(p, e, plat) ==
    /\ proc[p].pc = "idle" /\ runs < MaxRuns /\ runs' = runs + 1
    /\ LET match == {i \in OnDisk : FilterMatches(FromExpr(e), plat, i)}
       IN  \E stuck \in {{}} \cup {{i} : i \in match}, left \in SUBSET Files :
             /\ store' = [i \in DOMAIN store |->
                            IF i \in stuck THEN [store[i] EXCEPT !.files = @ \cap left]
                            ELSE IF i \in match THEN Absent ELSE store[i]]
             /\ broken' = broken \cup stuck \cup {i \in match : Adding(i) # {}}
    /\ UNCHANGED <<proc, kills>>

\* Exit and ExitCause before anything was added: no match, no network, a sum
\* that differs, a platform that is no platform.
Exits(p) ==
    /\ proc[p].pc \in {"select", "check", "fetch"}
    /\ End(p)
    /\ UNCHANGED <<store, runs, kills, broken>>

\* The invocation is killed: no deferred function runs.
Killed(p) ==
    /\ proc[p].pc # "idle" /\ kills < MaxKills /\ kills' = kills + 1
    /\ broken' = IF proc[p].pc = "unpack" THEN broken \cup {proc[p].item} ELSE broken
    /\ End(p)
    /\ UNCHANGED <<store, runs>>

Next ==
    \E p \in Procs :
      \/ \E e \in Exprs, f \in Flags, plat \in Platforms : Use(p, e, f, plat)
      \/ \E e \in Exprs, plat \in Platforms : Cleanup(p, e, plat)
      \/ \E i \in Remote : Sideload(p, i)
      \/ PathMatches(p) \/ EnsureVersionIsSet(p) \/ ExistsAndValid(p) \/ Fetch(p)
      \/ AddClean(p) \/ AddUnpack(p) \/ AddAgain(p) \/ AddChmod(p) \/ AddFails(p)
      \/ PrintInfo(p) \/ Exits(p) \/ Killed(p)

Spec == Init /\ [][Next]_vars

-----------------------------------------------------------------------------
\* What the documentation of FromExpr says of a selector, on versions as
\* numbers: X.Y.Z is itself, X.Y any X.Y.*, ~X.Y.Z the range [X.Y.Z, X.Y+1.0),
\* < everything older and <= everything not newer.
Num(v) == v.major * 10000 + v.minor * 100 + v.patch
Documented(spec, v) ==
    LET s == spec.ver
        low == Num(Ver(s.major, s.minor, 0))
        high == low + 99
        wild == s.patch = AnyPoint
    IN  CASE spec.kind = "any" -> TRUE
          [] spec.kind = "patch" -> IF wild THEN Num(v) \in low .. high ELSE Num(v) = Num(s)
          [] spec.kind = "tilde" -> Num(v) \in Num(s) .. high
          [] spec.kind = "less" /\ wild -> Num(v) < low \/ (spec.orEquals /\ Num(v) <= high)
          [] spec.kind = "less" /\ ~wild -> Num(v) < Num(s) \/ (spec.orEquals /\ Num(v) = Num(s))

\* The version "use" settles on matches what was asked for, and is the newest
\* there is: of the store if the bucket need not be asked, and otherwise of
\* the store and the bucket together, or of the bucket with -f
\* (EnsureVersionIsSet, LatestVersion, Spec.Matches).
UsesNewest ==
    \A p \in Procs :
        LET j == proc[p]
            ok(i) == Documented(j.spec, i.ver) /\ (i.plat = j.plat \/ i.plat = "*" \/ j.plat = "*")
            local == {i \in j.seen : ok(i)}
            remote == {i \in Remote : ok(i)}
            pool == IF (j.noDownload \/ ~j.spec.latest) /\ local # {} THEN local
                    ELSE IF j.force THEN remote ELSE local \cup remote
        IN  j.pc \in {"check", "fetch"} /\ ~IsConcrete(j.spec) =>
              /\ ok(j.item)
              /\ \A i \in pool : Num(i.ver) <= Num(j.item.ver)

\* A directory of the store that no invocation is filling holds all the
\* binaries, of an undamaged archive, whatever step failed on the way; only a
\* kill, two invocations on the same item at once, a clean-up that fails, and
\* damage that no sum was compared for, can leave a version that later
\* invocations wrongly take for whole (Store.Add, Fetch, GetVersion).
StoreIsWhole ==
    \A i \in OnDisk :
        Adding(i) # {} \/ i \in broken \/ (store[i].files = Files /\ store[i].good)

\* Both: the version chosen is the newest that matches, and what the store has
\* of it is whole; and the types are kept.
VersionsRight == TypeOK /\ UsesNewest /\ StoreIsWhole
=============================================================================
