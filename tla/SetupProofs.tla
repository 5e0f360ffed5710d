----------------------------- MODULE SetupProofs -----------------------------
(***************************************************************************)
(* For every value of the constants: setup-envtest uses the newest version *)
(* that matches, and a whole one; and the ports that servers of a test are *)
(* given are not given twice.                                              *)
(***************************************************************************)
EXTENDS Setup, Sequences, TLAPS, WellFoundedInduction

-----------------------------------------------------------------------------
(* setup-envtest.  VersionsRight is not inductive alone: what an invocation *)
(* is unpacking must be sound, and no two may fill one directory, unless it *)
(* is known to be broken.                                                   *)

ToolVersions == [major : 0 .. 99, minor : 0 .. 99, patch : 0 .. 99]
ToolPlatforms == Platforms \cup {i.plat : i \in T!Items} \cup {"*", "none"}
ToolItems ==
    [ver : [major : 0 .. 99, minor : 0 .. 99, patch : -1 .. 99], plat : ToolPlatforms]
ToolSpecs ==
    {s \in [kind : {"any", "patch", "tilde", "less"}, orEquals : BOOLEAN, latest : BOOLEAN,
            ver : [major : 0 .. 99, minor : 0 .. 99, patch : -1 .. 99]] :
        s.kind = "tilde" => s.ver.patch >= 0}
ToolJobs ==
    [pc : {"idle", "select", "check", "fetch", "add", "unpack", "chmod", "print"},
     spec : ToolSpecs, plat : ToolPlatforms, noDownload : BOOLEAN, force : BOOLEAN, verify : BOOLEAN,
     item : ToolItems, good : BOOLEAN, seen : SUBSET T!Items]

ToolTypes ==
    /\ store \in [T!Items -> [on : BOOLEAN, files : SUBSET Files, good : BOOLEAN]]
    /\ proc \in [Invocations -> ToolJobs]
    /\ runs \in 0 .. MaxRuns /\ kills \in 0 .. MaxKills
    /\ broken \subseteq T!Items

\* What UsesNewest says of one invocation.
ToolAsked(j, i) ==
    T!Documented(j.spec, i.ver) /\ (i.plat = j.plat \/ i.plat = "*" \/ j.plat = "*")
ToolLocal(j) == {i \in j.seen : ToolAsked(j, i)}
ToolRemote(j) == {i \in Remote : ToolAsked(j, i)}
ToolPool(j) ==
    IF (j.noDownload \/ ~j.spec.latest) /\ ToolLocal(j) # {} THEN ToolLocal(j)
    ELSE IF j.force THEN ToolRemote(j) ELSE ToolLocal(j) \cup ToolRemote(j)
ToolNewest(j) ==
    j.pc \in {"check", "fetch"} /\ ~T!IsConcrete(j.spec) =>
        /\ ToolAsked(j, j.item)
        /\ \A i \in ToolPool(j) : T!Num(i.ver) <= T!Num(j.item.ver)

\* What an invocation adds is from the bucket, and sound or known to be broken.
ToolAdds(j) ==
    j.pc \in {"add", "unpack", "chmod"} =>
        /\ j.item \in Remote
        /\ j.item \notin broken => j.good
        /\ j.pc # "add" /\ j.item \notin broken =>
             store[j.item].good /\ (j.pc = "chmod" => store[j.item].files = Files)

ToolFills(j, i) == j.item = i /\ j.pc \in {"unpack", "chmod"}

\* A directory that nobody fills is whole, and only one invocation fills it,
\* unless it is known to be broken.
ToolWhole(i) ==
    i \in broken \/
    /\ \A p, q \in Invocations : ToolFills(proc[p], i) /\ ToolFills(proc[q], i) => p = q
    /\ \/ ~store[i].on
       \/ \E p \in Invocations : ToolFills(proc[p], i)
       \/ store[i].files = Files /\ store[i].good

ToolInv ==
    /\ ToolTypes
    /\ \A p \in Invocations : ToolNewest(proc[p]) /\ ToolAdds(proc[p])
    /\ \A i \in T!Items : ToolWhole(i)

-----------------------------------------------------------------------------
\* The number of X.Y, and one that no version reaches.
ToolTens(x, y) == x * 10000 + y * 100
ToolTop == ToolTens(100, 100)

\* The numbers of X.Y and all its patches are in range.
LEMMA ToolTensBound ==
  ASSUME NEW x \in 0 .. 99, NEW y \in 0 .. 99
  PROVE  ToolTens(x, y) \in Nat /\ ToolTop \in Nat /\ ToolTens(x, y) + 99 <= ToolTop
  BY SMT DEF ToolTens, ToolTop

\* X.Y and all its patches have numbers below those of a later X.Y.
LEMMA ToolTensOrder ==
  ASSUME NEW x \in 0 .. 99, NEW y \in 0 .. 99, NEW z \in 0 .. 99, NEW w \in 0 .. 99
  PROVE  /\ x > z => ToolTens(x, y) > ToolTens(z, w) + 99
         /\ y > w => ToolTens(x, y) > ToolTens(x, w) + 99
  BY SMT DEF ToolTens

\* The number of a version is that of its X.Y and its patch (Concrete).
LEMMA ToolNum ==
  /\ \A v : T!Num(v) = ToolTens(v.major, v.minor) + v.patch
  /\ \A x, y \in 0 .. 99 : T!Num(T!Ver(x, y, 0)) = ToolTens(x, y)
<1>1. ASSUME NEW v PROVE T!Num(v) = ToolTens(v.major, v.minor) + v.patch
  BY SMT DEF T!Num, ToolTens
<1>2. ASSUME NEW x \in 0 .. 99, NEW y \in 0 .. 99 PROVE T!Num(T!Ver(x, y, 0)) = ToolTens(x, y)
  <2>1. T!Ver(x, y, 0).major = x /\ T!Ver(x, y, 0).minor = y /\ T!Ver(x, y, 0).patch = 0
    BY SMT DEF T!Ver
  <2>2. T!Num(T!Ver(x, y, 0)) = ToolTens(x, y) + 0
    BY <1>1, <2>1
  <2>3. ToolTens(x, y) \in Nat
    BY ToolTensBound
  <2> QED BY <2>2, <2>3
<1> QED BY <1>1, <1>2

\* How the number a of x.y.p is to the number b of z.w.r, and to l, that of z.w.
ToolCompared(x, y, p, z, w, r, a, b, l) ==
    /\ r # -1 => (a > b <=> x > z \/ (x = z /\ y > w) \/ (x = z /\ y = w /\ p > r))
    /\ r # -1 => (a < b <=> z > x \/ (x = z /\ w > y) \/ (x = z /\ y = w /\ r > p))
    /\ r # -1 => (a = b <=> x = z /\ y = w /\ p = r)
    /\ r # -1 => (a \in b .. l + 99 <=> x = z /\ y = w /\ p >= r)
    /\ a \in l .. l + 99 <=> x = z /\ y = w
    /\ a < l <=> z > x \/ (x = z /\ w > y)
    /\ a <= l + 99 <=> z > x \/ (x = z /\ w > y) \/ (x = z /\ y = w)

\* Versions compare by major, minor and patch as their numbers do
\* (Concrete.NewerThan, Spec.Matches).
LEMMA ToolCompares ==
  ASSUME NEW x \in 0 .. 99, NEW y \in 0 .. 99, NEW p \in 0 .. 99,
         NEW z \in 0 .. 99, NEW w \in 0 .. 99, NEW r \in -1 .. 99,
         NEW a, NEW b, NEW l, a = ToolTens(x, y) + p, b = ToolTens(z, w) + r, l = ToolTens(z, w)
  PROVE  ToolCompared(x, y, p, z, w, r, a, b, l)
<1>1. ToolTens(x, y) \in Nat /\ ToolTens(z, w) \in Nat
  BY ToolTensBound
<1>2. CASE x > z
  <2>1. ToolTens(x, y) > ToolTens(z, w) + 99
    BY <1>2, ToolTensOrder
  <2> QED BY <1>1, <1>2, <2>1, SMT DEF ToolCompared
<1>3. CASE z > x
  <2>1. ToolTens(z, w) > ToolTens(x, y) + 99
    BY <1>3, ToolTensOrder
  <2> QED BY <1>1, <1>3, <2>1, SMT DEF ToolCompared
<1>4. CASE x = z /\ y > w
  <2>1. ToolTens(x, y) > ToolTens(z, w) + 99
    BY <1>4, ToolTensOrder
  <2> QED BY <1>1, <1>4, <2>1, SMT DEF ToolCompared
<1>5. CASE x = z /\ w > y
  <2>1. ToolTens(z, w) > ToolTens(x, y) + 99
    BY <1>5, ToolTensOrder
  <2> QED BY <1>1, <1>5, <2>1, SMT DEF ToolCompared
<1>6. CASE x = z /\ y = w
  BY <1>1, <1>6, SMT DEF ToolCompared
<1> QED BY <1>2, <1>3, <1>4, <1>5, <1>6

\* NewerThan orders versions as their numbers are ordered (Concrete.NewerThan).
LEMMA ToolOrder ==
  ASSUME NEW v \in ToolVersions, NEW w \in ToolVersions
  PROVE  T!NewerThan(v, w) <=> T!Num(v) > T!Num(w)
<1>1. /\ v.major \in 0 .. 99 /\ v.minor \in 0 .. 99 /\ v.patch \in 0 .. 99
      /\ w.major \in 0 .. 99 /\ w.minor \in 0 .. 99 /\ w.patch \in -1 .. 99 /\ w.patch # -1
  BY DEF ToolVersions
<1>2. T!Num(v) = ToolTens(v.major, v.minor) + v.patch /\ T!Num(w) = ToolTens(w.major, w.minor) + w.patch
  BY ToolNum, Zenon
<1>3. ToolCompared(v.major, v.minor, v.patch, w.major, w.minor, w.patch, T!Num(v), T!Num(w),
                   ToolTens(w.major, w.minor))
  BY <1>1, <1>2, ToolCompares, Zenon
<1> QED BY <1>1, <1>3, Zenon DEF T!NewerThan, ToolCompared

\* A selector matches what its documentation says (Spec.Matches).
LEMMA ToolMatches ==
  ASSUME NEW s \in ToolSpecs, NEW v \in ToolVersions
  PROVE  T!Matches(s, v) <=> T!Documented(s, v)
<1> DEFINE w == s.ver
           low == T!Num(T!Ver(w.major, w.minor, 0))
<1>1. /\ v.major \in 0 .. 99 /\ v.minor \in 0 .. 99 /\ v.patch \in 0 .. 99
      /\ w.major \in 0 .. 99 /\ w.minor \in 0 .. 99 /\ w.patch \in -1 .. 99
      /\ s.orEquals \in BOOLEAN /\ s.kind \in {"any", "patch", "tilde", "less"}
      /\ s.kind = "tilde" => w.patch >= 0
  BY Zenon DEF ToolSpecs, ToolVersions
<1>2. /\ low = ToolTens(w.major, w.minor)
      /\ T!Num(v) = ToolTens(v.major, v.minor) + v.patch /\ T!Num(w) = low + w.patch
  BY <1>1, ToolNum, Zenon
<1>3. ToolCompared(v.major, v.minor, v.patch, w.major, w.minor, w.patch, T!Num(v), T!Num(w), low)
  <2> HIDE DEF w, low
  <2> QED BY <1>1, <1>2, ToolCompares, Zenon
<1>4. CASE s.kind = "any"
  BY <1>4, Zenon DEF T!Matches, T!Documented
<1>5. CASE s.kind = "patch"
  <2>1. T!Matches(s, v) <=> w.major = v.major /\ w.minor = v.minor /\ (w.patch = -1 \/ w.patch = v.patch)
    BY <1>5, Zenon DEF T!Matches, T!PatchMatches, T!PointMatches, T!AnyPoint
  <2>2. T!Documented(s, v) <=> IF w.patch = -1 THEN T!Num(v) \in low .. low + 99
                                               ELSE T!Num(v) = T!Num(w)
    BY <1>5, Zenon DEF T!Documented, T!AnyPoint
  <2> HIDE DEF w, low
  <2> QED BY <1>3, <2>1, <2>2, Zenon DEF ToolCompared
<1>6. CASE s.kind = "tilde"
  <2>1. T!Matches(s, v) <=> w = v \/ (v.major = w.major /\ v.minor = w.minor /\ v.patch >= w.patch)
    BY <1>6, Zenon DEF T!Matches, T!TildeMatches
  <2>2. T!Documented(s, v) <=> T!Num(v) \in T!Num(w) .. low + 99
    BY <1>6, Zenon DEF T!Documented
  <2>3. w.patch # -1
    BY <1>1, <1>6
  <2>4. w = v => v.major = w.major /\ v.minor = w.minor /\ v.patch >= w.patch
    BY <1>1
  <2> HIDE DEF w, low
  <2> QED BY <1>1, <1>3, <1>6, <2>1, <2>2, <2>3, <2>4, Zenon DEF ToolCompared
<1>7. CASE s.kind = "less"
  <2>1. T!Matches(s, v) <=>
          IF w.major # v.major THEN w.major > v.major
          ELSE IF w.minor # v.minor THEN w.minor > v.minor
          ELSE IF ~(w.patch = -1 \/ w.patch = v.patch) THEN w.patch > v.patch
          ELSE s.orEquals
    BY <1>7, Zenon DEF T!Matches, T!LessThanMatches, T!PointMatches, T!AnyPoint
  <2>a. T!Matches(s, v) <=>
          \/ w.major > v.major
          \/ v.major = w.major /\ w.minor > v.minor
          \/ v.major = w.major /\ v.minor = w.minor /\ w.patch > v.patch
          \/ v.major = w.major /\ v.minor = w.minor /\ (w.patch = -1 \/ v.patch = w.patch) /\ s.orEquals
    <3> HIDE DEF w
    <3> QED BY <1>1, <2>1
  <2>b. w.patch = -1 => ~(w.patch > v.patch)
    BY <1>1
  <2>2. CASE w.patch = -1
    <3>1. T!Documented(s, v) <=> T!Num(v) < low \/ (s.orEquals /\ T!Num(v) <= low + 99)
      BY <1>7, <2>2, Zenon DEF T!Documented, T!AnyPoint
    <3> HIDE DEF w, low
    <3> QED BY <1>3, <2>a, <2>b, <2>2, <3>1, Zenon DEF ToolCompared
  <2>3. CASE w.patch # -1
    <3>1. T!Documented(s, v) <=> T!Num(v) < T!Num(w) \/ (s.orEquals /\ T!Num(v) = T!Num(w))
      BY <1>7, <2>3, Zenon DEF T!Documented, T!AnyPoint
    <3> HIDE DEF w, low
    <3> QED BY <1>3, <2>a, <2>3, <3>1, Zenon DEF ToolCompared
  <2> QED BY <2>2, <2>3
<1> QED BY <1>1, <1>4, <1>5, <1>6, <1>7

\* The items have versions (ToolAssumption).
LEMMA ToolItemsTyped == T!Items \subseteq ToolItems /\ \A i \in T!Items : i.ver \in ToolVersions
<1>1. T!Items \subseteq [ver : ToolVersions, plat : {i.plat : i \in T!Items}]
  BY ToolConstants, Zenon DEF T!ToolAssumption, ToolVersions
<1>2. ToolVersions \subseteq [major : 0 .. 99, minor : 0 .. 99, patch : -1 .. 99]
  BY DEF ToolVersions
<1>3. ASSUME NEW i \in T!Items PROVE i \in ToolItems /\ i.ver \in ToolVersions
  <2>1. i \in [ver : ToolVersions, plat : {j.plat : j \in T!Items}]
    BY <1>1
  <2> QED BY <1>2, <2>1, Zenon DEF ToolItems, ToolPlatforms
<1> QED BY <1>3

\* Of items there is a newest one, and none is newer than it.
LEMMA ToolNewestFirst ==
  ASSUME NEW I \in SUBSET T!Items
  PROVE  /\ I # {} => T!Newest(I) # {}
         /\ \A i \in T!Newest(I) : i \in I /\ \A j \in I : T!Num(j.ver) <= T!Num(i.ver)
<1>1. ToolTop \in Nat /\ \A i \in I : T!Num(i.ver) \in 0 .. ToolTop
  <2>1. ASSUME NEW x \in 0 .. 99, NEW y \in 0 .. 99, NEW r \in 0 .. 99
        PROVE  ToolTop \in Nat /\ ToolTens(x, y) + r \in 0 .. ToolTop
    <3>1. ToolTop \in Nat /\ ToolTens(x, y) \in Nat /\ ToolTens(x, y) + 99 <= ToolTop
      BY ONLY ToolTensBound, x \in 0 .. 99, y \in 0 .. 99
    <3> QED BY ONLY <3>1, x \in 0 .. 99, r \in 0 .. 99
  <2>2. ASSUME NEW i \in I PROVE T!Num(i.ver) \in 0 .. ToolTop
    <3>1. i.ver \in ToolVersions
      BY ToolItemsTyped
    <3>2. i.ver.major \in 0 .. 99 /\ i.ver.minor \in 0 .. 99 /\ i.ver.patch \in 0 .. 99
      BY <3>1, Zenon DEF ToolVersions
    <3>3. ToolTens(i.ver.major, i.ver.minor) + i.ver.patch \in 0 .. ToolTop
      BY <2>1, <3>2, Zenon
    <3> QED BY <3>3, ToolNum, Zenon
  <2>3. 0 \in 0 .. 99
    OBVIOUS
  <2>4. ToolTop \in Nat
    BY <2>1, <2>3, Zenon
  <2> QED BY <2>2, <2>4
<1>2. \A i, j \in I : T!NewerThan(j.ver, i.ver) <=> T!Num(j.ver) > T!Num(i.ver)
  BY ToolItemsTyped, ToolOrder
<1>3. \A i \in T!Newest(I) : i \in I /\ \A j \in I : T!Num(j.ver) <= T!Num(i.ver)
  BY <1>1, <1>2 DEF T!Newest
<1>4. ASSUME I # {} PROVE T!Newest(I) # {}
  <2> DEFINE Far == {ToolTop - T!Num(i.ver) : i \in I}
  <2>1. Far \subseteq Nat /\ Far # {}
    BY <1>1, <1>4
  <2> DEFINE Less == OpToRel(<, Nat)
  <2>a. IsWellFoundedOn(Less, Nat)
    BY NatLessThanWellFounded
  <2>b. \A m, n \in Nat : <<m, n>> \in Less <=> m < n
    BY Zenon DEF OpToRel
  <2> HIDE DEF Less
  <2>2. PICK n \in Far : \A m \in Far : ~(<<m, n>> \in Less)
    <3> HIDE DEF Far
    <3> QED BY <2>1, <2>a, WFMin
  <2>3. PICK i \in I : n = ToolTop - T!Num(i.ver)
    OBVIOUS
  <2>4. \A j \in I : ToolTop - T!Num(j.ver) >= n
    <3>1. ASSUME NEW j \in I PROVE ToolTop - T!Num(j.ver) \in Far
      OBVIOUS
    <3> HIDE DEF Far
    <3>2. \A m \in Far : ~(m < n) /\ m \in Nat /\ n \in Nat
      BY <2>1, <2>2, <2>b, Zenon
    <3> QED BY <3>1, <3>2
  <2>5. i \in T!Newest(I)
    BY <1>1, <1>2, <2>3, <2>4 DEF T!Newest
  <2> QED BY <2>5
<1> QED BY <1>3, <1>4

\* The invariant gives VersionsRight.
LEMMA ToolImplies == ToolInv => VersionsRight
<1> SUFFICES ASSUME ToolInv PROVE VersionsRight
  OBVIOUS
<1>1. T!TypeOK
  BY Zenon DEF ToolInv, ToolTypes, T!TypeOK
<1>2. T!UsesNewest
  <2>1. ASSUME NEW p \in Invocations PROVE ToolNewest(proc[p])
    BY Zenon DEF ToolInv
  <2> QED BY <2>1, Zenon DEF T!UsesNewest, ToolNewest, ToolPool, ToolLocal, ToolRemote, ToolAsked
<1>3. T!StoreIsWhole
  <2>1. DOMAIN store = T!Items
    BY Zenon DEF ToolInv, ToolTypes
  <2>2. \A i \in T!Items : ToolWhole(i)
    BY Zenon DEF ToolInv
  <2> QED BY <2>1, <2>2, Zenon DEF T!StoreIsWhole, T!OnDisk, T!Adding, ToolWhole, ToolFills
<1> QED BY <1>1, <1>2, <1>3, Zenon DEF VersionsRight, T!VersionsRight

\* The constant jobs and selectors.
LEMMA ToolIdle ==
  /\ T!Idle \in ToolJobs /\ T!Idle.pc = "idle" /\ T!Idle.good = TRUE
  /\ \A e \in Exprs : T!FromExpr(e) \in ToolSpecs
<1>0. ASSUME NEW k \in {"any", "patch", "tilde", "less"}, NEW o \in BOOLEAN, NEW l \in BOOLEAN,
             NEW v \in [major : 0 .. 99, minor : 0 .. 99, patch : -1 .. 99],
             k = "tilde" => v.patch >= 0
      PROVE  T!Spec_(k, v, o, l) \in ToolSpecs
  BY <1>0, Zenon DEF T!Spec_, ToolSpecs
<1>1. T!Idle \in ToolJobs /\ T!Idle.pc = "idle" /\ T!Idle.good = TRUE
  <2>1. T!MakeConcrete(T!Ver(0, 0, 0)) \in ToolSpecs
    <3>1. T!Ver(0, 0, 0) \in [major : 0 .. 99, minor : 0 .. 99, patch : -1 .. 99]
      BY DEF T!Ver
    <3> QED BY <1>0, <3>1, Zenon DEF T!MakeConcrete
  <2>2. T!None \in ToolItems
    BY DEF T!None, T!Ver, ToolItems, ToolPlatforms
  <2> QED BY <2>1, <2>2, Zenon DEF T!Idle, ToolJobs, ToolPlatforms
<1>2. ASSUME NEW e \in Exprs PROVE T!FromExpr(e) \in ToolSpecs
  <2>1. e \in [sel : {"", "<", "<=", "~", "latest", "latest-on-disk"},
               major : 0 .. 99, minor : 0 .. 99, patch : -1 .. 99, latest : BOOLEAN]
    BY ToolConstants, Zenon DEF T!ToolAssumption, T!AnyPoint
  <2> DEFINE ver == T!Ver(e.major, e.minor, e.patch)
             base == T!Ver(e.major, e.minor, IF e.patch = -1 THEN 0 ELSE e.patch)
             zero == T!Ver(0, 0, 0)
             All == [major : 0 .. 99, minor : 0 .. 99, patch : -1 .. 99]
  <2>a. ver \in All /\ base \in All /\ base.patch >= 0 /\ zero \in All /\ e.latest \in BOOLEAN
        /\ (e.sel = "<=") \in BOOLEAN
    <3>1. ver \in All /\ e.latest \in BOOLEAN
      BY <2>1, Zenon DEF T!Ver
    <3>2. PICK r : r = IF e.patch = -1 THEN 0 ELSE e.patch
      OBVIOUS
    <3>a. e.patch \in -1 .. 99 /\ e.major \in 0 .. 99 /\ e.minor \in 0 .. 99
      BY <2>1
    <3>b. r \in 0 .. 99 /\ r \in -1 .. 99 /\ r >= 0
      BY <3>2, <3>a
    <3>3. base \in All /\ base.patch >= 0
      <4>1. base = T!Ver(e.major, e.minor, r)
        BY <3>2
      <4>2. base.patch = r /\ base \in All
        BY <3>a, <3>b, <4>1, Zenon DEF T!Ver
      <4> QED BY <3>b, <4>2
    <3>4. zero \in All
      BY DEF T!Ver
    <3> QED BY <3>1, <3>3, <3>4, Zenon
  <2>b. \/ e.sel = "" /\ T!FromExpr(e) = T!Spec_("patch", ver, FALSE, e.latest)
        \/ e.sel \in {"<", "<="} /\ T!FromExpr(e) = T!Spec_("less", ver, e.sel = "<=", e.latest)
        \/ e.sel = "~" /\ T!FromExpr(e) = T!Spec_("tilde", base, FALSE, e.latest)
        \/ e.sel = "latest" /\ T!FromExpr(e) = T!Spec_("any", zero, FALSE, TRUE)
        \/ e.sel = "latest-on-disk" /\ T!FromExpr(e) = T!Spec_("any", zero, FALSE, FALSE)
    BY <2>1, Zenon DEF T!FromExpr, T!AnyPoint
  <2> HIDE DEF ver, base, zero, All
  <2>c. \A k \in {"any", "patch", "tilde", "less"}, o, l \in BOOLEAN, v \in All :
          (k = "tilde" => v.patch >= 0) => T!Spec_(k, v, o, l) \in ToolSpecs
    BY <1>0, Zenon DEF All
  <2> QED BY <2>a, <2>b, <2>c
<1> QED BY <1>1, <1>2

\* The invariant holds in the initial states.
LEMMA ToolInit == T!Init => ToolInv
<1> SUFFICES ASSUME T!Init PROVE ToolInv
  OBVIOUS
<1>1. PICK s \in Stores : store = [i \in T!Items |-> [on |-> i \in s, good |-> TRUE,
                                     files |-> IF i \in s THEN Files ELSE {}]]
  BY Zenon DEF T!Init
<1>2. ToolTypes
  <2>1. store \in [T!Items -> [on : BOOLEAN, files : SUBSET Files, good : BOOLEAN]]
    BY <1>1
  <2>2. proc \in [Invocations -> ToolJobs]
    BY ToolIdle, Zenon DEF T!Init
  <2>3. MaxRuns \in Nat /\ MaxKills \in Nat
    BY ToolConstants, Zenon DEF T!ToolAssumption
  <2>4. runs \in 0 .. MaxRuns /\ kills \in 0 .. MaxKills /\ broken \subseteq T!Items
    BY <2>3 DEF T!Init
  <2> QED BY <2>1, <2>2, <2>4, Zenon DEF ToolTypes
<1>3. \A p \in Invocations : proc[p].pc = "idle"
  BY ToolIdle, Zenon DEF T!Init
<1>4. \A p \in Invocations : ToolNewest(proc[p]) /\ ToolAdds(proc[p])
  BY <1>3, Zenon DEF ToolNewest, ToolAdds
<1>5. \A i \in T!Items : ToolWhole(i)
  BY <1>1, <1>3, Zenon DEF ToolWhole, ToolFills
<1> QED BY <1>2, <1>4, <1>5, Zenon DEF ToolInv

\* A step that leaves the store alone, breaks nothing new but what it says, and
\* gives invocation p a job that fills nothing it did not fill before.
LEMMA ToolQuiet ==
  ASSUME ToolInv, NEW p \in Invocations, NEW j \in ToolJobs,
         proc' = [proc EXCEPT ![p] = j], UNCHANGED store,
         broken \subseteq broken', broken' \subseteq T!Items,
         runs' \in 0 .. MaxRuns, kills' \in 0 .. MaxKills,
         ToolNewest(j), ToolAdds(j)',
         \A i \in T!Items \ broken' : ToolFills(j, i) <=> ToolFills(proc[p], i)
  PROVE  ToolInv'
<1>1. ToolTypes'
  BY Zenon DEF ToolInv, ToolTypes
<1>2. proc'[p] = j /\ \A d \in Invocations \ {p} : proc'[d] = proc[d]
  BY Zenon DEF ToolInv, ToolTypes
<1>3. ASSUME NEW d \in Invocations PROVE (ToolNewest(proc[d]) /\ ToolAdds(proc[d]))'
  <2>1. CASE d = p
    BY <1>2, <2>1 DEF ToolAdds, ToolNewest, ToolPool, ToolLocal, ToolRemote, ToolAsked
  <2>2. CASE d # p
    <3>1. proc'[d] = proc[d] /\ ToolNewest(proc[d]) /\ ToolAdds(proc[d])
      BY <1>2, <2>2, Zenon DEF ToolInv
    <3>2. ToolAdds(proc[d])'
      BY <3>1, Zenon DEF ToolAdds
    <3>3. ToolNewest(proc[d])'
      BY <3>1, ZenonT(60) DEF ToolNewest, ToolPool, ToolLocal, ToolRemote, ToolAsked
    <3> QED BY <3>2, <3>3
  <2> QED BY <2>1, <2>2
<1>4. ASSUME NEW i \in T!Items PROVE ToolWhole(i)'
  <2>1. ToolWhole(i)
    BY Zenon DEF ToolInv
  <2>2. CASE i \in broken'
    BY <2>2, Zenon DEF ToolWhole
  <2>3. CASE i \notin broken'
    <3>1. \A d \in Invocations : ToolFills(proc'[d], i) <=> ToolFills(proc[d], i)
      BY <1>2, <2>3, Zenon
    <3> QED BY <2>1, <2>3, <3>1, Zenon DEF ToolWhole
  <2> QED BY <2>2, <2>3
<1> QED BY <1>1, <1>3, <1>4, Zenon DEF ToolInv

\* An invocation ends, and was filling nothing that is still sound.
LEMMA ToolEnds ==
  ASSUME ToolInv, NEW p \in Invocations, T!End(p), UNCHANGED store,
         broken \subseteq broken', broken' \subseteq T!Items,
         runs' \in 0 .. MaxRuns, kills' \in 0 .. MaxKills,
         \A i \in T!Items \ broken' : ~ToolFills(proc[p], i)
  PROVE  ToolInv'
<1>1. proc' = [proc EXCEPT ![p] = T!Idle] /\ T!Idle \in ToolJobs /\ T!Idle.pc = "idle"
  BY ToolIdle, Zenon DEF T!End
<1>2. ToolNewest(T!Idle) /\ ToolAdds(T!Idle)' /\ \A i : ~ToolFills(T!Idle, i)
  BY <1>1, Zenon DEF ToolNewest, ToolAdds, ToolFills
<1> QED BY <1>1, <1>2, ToolQuiet

\* An invocation goes on to its next step.
LEMMA ToolGoes ==
  ASSUME ToolInv, NEW p \in Invocations,
         NEW at \in {"idle", "select", "check", "fetch", "add", "unpack", "chmod", "print"},
         T!Goto(p, at), UNCHANGED <<store, kills, broken>>, runs' \in 0 .. MaxRuns,
         \/ proc[p].pc \notin {"unpack", "chmod"} /\ at \notin {"check", "fetch", "add", "unpack", "chmod"}
         \/ proc[p].pc \notin {"unpack", "chmod"} /\ at = "fetch" /\ ToolNewest([proc[p] EXCEPT !.pc = at])
         \/ /\ proc[p].pc = "unpack" /\ at = "chmod"
            /\ proc[p].item \notin broken => store[proc[p].item].files = Files
  PROVE  ToolInv'
<1>0. proc[p] \in ToolJobs /\ [proc[p] EXCEPT !.pc = at] \in ToolJobs
  BY Zenon DEF ToolInv, ToolTypes, ToolJobs
<1>1. PICK j \in ToolJobs : j = [proc[p] EXCEPT !.pc = at]
  BY <1>0
<1>2. j.pc = at /\ j.item = proc[p].item /\ j.good = proc[p].good
  BY <1>0, <1>1, Zenon DEF ToolJobs
<1>3. ToolAdds(proc[p]) /\ proc' = [proc EXCEPT ![p] = j]
  BY <1>1, Zenon DEF ToolInv, ToolTypes, T!Goto
<1>4. ToolNewest(j)
  BY <1>1, <1>2, Zenon DEF ToolNewest
<1>5. ToolAdds(j)'
  BY <1>2, <1>3, Zenon DEF ToolAdds
<1>6. \A i : ToolFills(j, i) <=> ToolFills(proc[p], i)
  BY <1>2, Zenon DEF ToolFills
<1>7. broken \subseteq T!Items /\ kills' \in 0 .. MaxKills
  BY Zenon DEF ToolInv, ToolTypes
<1> QED BY <1>3, <1>4, <1>5, <1>6, <1>7, ToolQuiet

\* EnsureVersionIsSet picks the newest version that was asked for.
LEMMA ToolEnsures ==
  ASSUME ToolInv, NEW p \in Invocations, T!EnsureVersionIsSet(p)
  PROVE  ToolInv'
<1>0. PICK j \in ToolJobs : j = proc[p]
  BY Zenon DEF ToolInv, ToolTypes
<1> DEFINE seen == T!OnDisk
           mine == {i \in T!OnDisk : T!FilterMatches(j.spec, j.plat, i)}
           bucket == {i \in Remote : T!FilterMatches(j.spec, j.plat, i)}
           pick(i) == [j EXCEPT !.pc = "check", !.item = i, !.seen = T!OnDisk]
           literal == [ver |-> j.spec.ver, plat |-> j.plat]
<1>1. seen \subseteq T!Items /\ Remote \subseteq T!Items /\ mine \subseteq T!Items /\ bucket \subseteq T!Items
  <2>1. DOMAIN store = T!Items
    BY Zenon DEF ToolInv, ToolTypes
  <2>2. Remote \subseteq T!Items
    BY Zenon DEF T!Items
  <2> QED BY <2>1, <2>2, Zenon DEF T!OnDisk
<1>2. j.pc = "select" /\ j.spec \in ToolSpecs /\ j.plat \in ToolPlatforms
  BY <1>0, Zenon DEF T!EnsureVersionIsSet, ToolJobs
<1>3. ASSUME NEW i \in T!Items
      PROVE  T!FilterMatches(j.spec, j.plat, i) <=>
               T!Documented(j.spec, i.ver) /\ (i.plat = j.plat \/ i.plat = "*" \/ j.plat = "*")
  <2>1. T!Matches(j.spec, i.ver) <=> T!Documented(j.spec, i.ver)
    BY <1>2, ToolItemsTyped, ToolMatches
  <2> QED BY <2>1, Zenon DEF T!FilterMatches, T!PlatformMatches
<1>4. ASSUME NEW i \in ToolItems
      PROVE  /\ pick(i) \in ToolJobs /\ pick(i).pc = "check" /\ pick(i).item = i /\ pick(i).seen = seen
             /\ pick(i).spec = j.spec /\ pick(i).plat = j.plat /\ pick(i).force = j.force
             /\ pick(i).noDownload = j.noDownload
  BY <1>1, Zenon DEF ToolJobs
<1>5. ASSUME NEW i \in ToolItems, ToolNewest(pick(i)), proc' = [proc EXCEPT ![p] = pick(i)]
      PROVE  ToolInv'
  <2>1. PICK k \in ToolJobs : k = pick(i)
    BY <1>4
  <2>2. k.pc = "check" /\ ToolNewest(k)
    BY <1>4, <1>5, <2>1
  <2>3. ToolAdds(k)' /\ \A x : ~ToolFills(k, x) /\ ~ToolFills(proc[p], x)
    BY <1>0, <1>2, <2>2, Zenon DEF ToolAdds, ToolFills
  <2>4. UNCHANGED <<store, runs, kills, broken>>
    BY Zenon DEF T!EnsureVersionIsSet
  <2>5. runs' \in 0 .. MaxRuns /\ kills' \in 0 .. MaxKills /\ broken' \subseteq T!Items
    BY <2>4, Zenon DEF ToolInv, ToolTypes
  <2> HIDE DEF pick
  <2>6. proc' = [proc EXCEPT ![p] = k]
    BY <1>5, <2>1
  <2> QED BY <2>2, <2>3, <2>4, <2>5, <2>6, ToolQuiet
<1>6. /\ mine # {} => T!Newest(mine) # {}
      /\ \A i \in T!Newest(mine) : i \in mine /\ \A k \in mine : T!Num(k.ver) <= T!Num(i.ver)
  BY <1>1, ToolNewestFirst
<1>7. \A r \in T!Newest(bucket) : r \in bucket /\ \A k \in bucket : T!Num(k.ver) <= T!Num(r.ver)
  BY <1>1, ToolNewestFirst
<1>8. ASSUME NEW i \in ToolItems
      PROVE  /\ ToolLocal(pick(i)) = mine /\ ToolRemote(pick(i)) = bucket
             /\ i \in mine \cup bucket => ToolAsked(pick(i), pick(i).item)
  <2>1. \A k \in T!Items : ToolAsked(pick(i), k) <=> T!FilterMatches(j.spec, j.plat, k)
    <3> HIDE DEF pick
    <3> QED BY <1>3, <1>4, Zenon DEF ToolAsked
  <2>2. pick(i).seen = seen /\ pick(i).item = i
    BY <1>4
  <2> HIDE DEF pick
  <2> QED BY <1>1, <2>1, <2>2, Zenon DEF ToolLocal, ToolRemote
<1>9. CASE T!IsConcrete(j.spec) /\ proc' = [proc EXCEPT ![p] = pick(literal)]
  <2>1. literal \in ToolItems
    BY <1>2, Zenon DEF ToolItems, ToolSpecs
  <2>2. ToolNewest(pick(literal))
    <3>1. pick(literal).spec = j.spec
      BY <1>4, <2>1
    <3> HIDE DEF pick
    <3> QED BY <1>9, <3>1, Zenon DEF ToolNewest
  <2> HIDE DEF literal, pick
  <2> QED BY <1>5, <1>9, <2>1, <2>2
<1>10. ASSUME NEW i \in mine \cup bucket, \A k \in ToolPool(pick(i)) : T!Num(k.ver) <= T!Num(i.ver),
              proc' = [proc EXCEPT ![p] = pick(i)]
       PROVE  ToolInv'
  <2>1. i \in ToolItems
    BY <1>1, ToolItemsTyped
  <2>2. ToolNewest(pick(i))
    <3>1. pick(i).item = i /\ ToolAsked(pick(i), pick(i).item)
      BY <1>4, <1>8, <2>1
    <3> HIDE DEF pick
    <3> QED BY <1>10, <3>1, Zenon DEF ToolNewest
  <2> HIDE DEF pick
  <2> QED BY <1>5, <1>10, <2>1, <2>2
<1>11. ASSUME NEW i \in mine \cup bucket
       PROVE  ToolPool(pick(i)) = IF (j.noDownload \/ ~j.spec.latest) /\ mine # {} THEN mine
                                  ELSE IF j.force THEN bucket ELSE mine \cup bucket
  <2>1. i \in ToolItems
    BY <1>1, ToolItemsTyped
  <2>2. /\ ToolLocal(pick(i)) = mine /\ ToolRemote(pick(i)) = bucket
        /\ pick(i).spec = j.spec /\ pick(i).force = j.force /\ pick(i).noDownload = j.noDownload
    BY <1>4, <1>8, <2>1
  <2> HIDE DEF pick, mine, bucket
  <2> QED BY <2>2, Zenon DEF ToolPool
<1>12. \A i \in mine \cup bucket : T!Num(i.ver) \in Int
       /\ \A k \in mine \cup bucket : T!NewerThan(i.ver, k.ver) <=> T!Num(i.ver) > T!Num(k.ver)
  <2>1. ASSUME NEW v \in ToolVersions PROVE T!Num(v) \in Int
    <3>1. v.major \in 0 .. 99 /\ v.minor \in 0 .. 99 /\ v.patch \in Int
      BY DEF ToolVersions
    <3>2. ToolTens(v.major, v.minor) \in Nat
      BY <3>1, ToolTensBound, Zenon
    <3>3. ToolTens(v.major, v.minor) + v.patch \in Int
      BY <3>1, <3>2
    <3> QED BY <3>3, ToolNum, Zenon
  <2> HIDE DEF mine, bucket
  <2> QED BY <1>1, <2>1, ToolItemsTyped, ToolOrder
<1> HIDE DEF pick, mine, bucket, literal
<1>13. CASE (j.noDownload \/ ~j.spec.latest) /\ \E i \in T!Newest(mine) : proc' = [proc EXCEPT ![p] = pick(i)]
  <2>1. PICK i \in T!Newest(mine) : proc' = [proc EXCEPT ![p] = pick(i)]
    BY <1>13
  <2>2. i \in mine /\ ToolPool(pick(i)) = mine
    BY <1>6, <1>11, <1>13, <2>1
  <2> QED BY <1>6, <1>10, <2>1, <2>2
<1>14. ASSUME ~((j.noDownload \/ ~j.spec.latest) /\ mine # {}), NEW r \in T!Newest(bucket),
              \/ \E i \in T!Newest(mine) : ~j.force /\ T!NewerThan(i.ver, r.ver)
                                           /\ proc' = [proc EXCEPT ![p] = pick(i)]
              \/ /\ \A i \in T!Newest(mine) : j.force \/ ~T!NewerThan(i.ver, r.ver)
                 /\ proc' = [proc EXCEPT ![p] = pick(r)]
       PROVE  ToolInv'
  <2>1. r \in bucket /\ \A k \in bucket : T!Num(k.ver) <= T!Num(r.ver)
    BY <1>7
  <2>2. CASE \E i \in T!Newest(mine) : ~j.force /\ T!NewerThan(i.ver, r.ver)
                                       /\ proc' = [proc EXCEPT ![p] = pick(i)]
    <3>1. PICK i \in T!Newest(mine) : ~j.force /\ T!NewerThan(i.ver, r.ver)
                                      /\ proc' = [proc EXCEPT ![p] = pick(i)]
      BY <2>2
    <3>2. i \in mine /\ \A k \in mine : T!Num(k.ver) <= T!Num(i.ver)
      BY <1>6
    <3>3. T!Num(i.ver) > T!Num(r.ver) /\ ToolPool(pick(i)) = mine \cup bucket
      BY <1>11, <1>12, <1>14, <2>1, <3>1, <3>2
    <3>4. \A k \in mine \cup bucket : T!Num(k.ver) <= T!Num(i.ver)
      BY <1>12, <2>1, <3>2, <3>3
    <3> QED BY <1>10, <3>1, <3>2, <3>3, <3>4
  <2>3. CASE /\ \A i \in T!Newest(mine) : j.force \/ ~T!NewerThan(i.ver, r.ver)
             /\ proc' = [proc EXCEPT ![p] = pick(r)]
    <3>1. ToolPool(pick(r)) = IF j.force THEN bucket ELSE mine \cup bucket
      BY <1>11, <1>14, <2>1
    <3>2. ASSUME ~j.force, NEW k \in mine PROVE T!Num(k.ver) <= T!Num(r.ver)
      <4>1. PICK i \in T!Newest(mine) : TRUE
        BY <1>6
      <4>2. i \in mine /\ T!Num(k.ver) <= T!Num(i.ver) /\ ~T!NewerThan(i.ver, r.ver)
        BY <1>6, <2>3, <3>2
      <4>3. T!Num(i.ver) <= T!Num(r.ver)
        BY <1>12, <2>1, <4>2
      <4> QED BY <1>12, <2>1, <4>2, <4>3
    <3>3. \A k \in ToolPool(pick(r)) : T!Num(k.ver) <= T!Num(r.ver)
      BY <2>1, <3>1, <3>2
    <3> QED BY <1>10, <2>1, <2>3, <3>3
  <2> QED BY <1>14, <2>2, <2>3
<1>15. \/ T!IsConcrete(j.spec) /\ proc' = [proc EXCEPT ![p] = pick(literal)]
       \/ IF (j.noDownload \/ ~j.spec.latest) /\ T!Newest(mine) # {}
          THEN \E i \in T!Newest(mine) : proc' = [proc EXCEPT ![p] = pick(i)]
          ELSE \E r \in T!Newest(bucket) :
                 \/ \E i \in T!Newest(mine) : ~j.force /\ T!NewerThan(i.ver, r.ver)
                                              /\ proc' = [proc EXCEPT ![p] = pick(i)]
                 \/ /\ \A i \in T!Newest(mine) : j.force \/ ~T!NewerThan(i.ver, r.ver)
                    /\ proc' = [proc EXCEPT ![p] = pick(r)]
  BY <1>0, ZenonT(60) DEF T!EnsureVersionIsSet, T!LatestVersion, pick, mine, bucket, literal
<1> QED BY <1>6, <1>9, <1>13, <1>14, <1>15, SMTT(30)

\* Invocation p writes the directory dir of its item i.
LEMMA ToolWrites ==
  ASSUME ToolInv, NEW p \in Invocations, NEW i \in T!Items, NEW j \in ToolJobs,
         NEW dir \in [on : BOOLEAN, files : SUBSET Files, good : BOOLEAN],
         proc[p].item = i, j.pc \in {"idle", "unpack", "chmod"},
         j.pc # "idle" => j.item = i /\ i \in Remote,
         proc' = [proc EXCEPT ![p] = j], store' = [store EXCEPT ![i] = dir],
         broken \subseteq broken', broken' \subseteq T!Items, UNCHANGED <<runs, kills>>,
         i \notin broken' =>
           /\ \A d \in Invocations \ {p} : ~ToolFills(proc[d], i)
           /\ j.pc = "idle" => ~dir.on
           /\ j.pc # "idle" => j.good /\ dir.good
           /\ j.pc = "chmod" => dir.files = Files
  PROVE  ToolInv'
<1>1. ToolTypes'
  BY Zenon DEF ToolInv, ToolTypes
<1>2. /\ proc'[p] = j /\ \A d \in Invocations \ {p} : proc'[d] = proc[d]
      /\ store'[i] = dir /\ \A x \in T!Items \ {i} : store'[x] = store[x]
  BY Zenon DEF ToolInv, ToolTypes
<1>3. ASSUME NEW d \in Invocations PROVE (ToolNewest(proc[d]) /\ ToolAdds(proc[d]))'
  <2>1. CASE d = p
    BY <1>2, <2>1 DEF ToolAdds, ToolNewest
  <2>2. CASE d # p
    <3>1. proc'[d] = proc[d] /\ ToolNewest(proc[d]) /\ ToolAdds(proc[d])
      BY <1>2, <2>2, Zenon DEF ToolInv
    <3>2. ToolAdds(proc[d])'
      <4>1. i \notin broken' => ~ToolFills(proc[d], i)
        BY <2>2
      <4>2. proc[d].item # i /\ proc[d].item \in Remote => store'[proc[d].item] = store[proc[d].item]
        <5>1. Remote \subseteq T!Items
          BY Zenon DEF T!Items
        <5> QED BY ONLY <1>2, <5>1
      <4> QED BY <3>1, <4>1, <4>2, ZenonT(40) DEF ToolAdds, ToolFills
    <3>3. ToolNewest(proc[d])'
      BY <3>1, ZenonT(60) DEF ToolNewest, ToolPool, ToolLocal, ToolRemote, ToolAsked
    <3> QED BY <3>2, <3>3
  <2> QED BY <2>1, <2>2
<1>4. ASSUME NEW x \in T!Items PROVE ToolWhole(x)'
  <2>1. ToolWhole(x)
    BY Zenon DEF ToolInv
  <2>2. CASE x \in broken'
    BY <2>2, Zenon DEF ToolWhole
  <2>3. CASE x \notin broken' /\ x # i
    <3>1. ~ToolFills(proc[p], x) /\ ~ToolFills(j, x)
      BY <2>3, Zenon DEF ToolFills
    <3>2. \A d \in Invocations : ToolFills(proc'[d], x) <=> ToolFills(proc[d], x)
      BY <1>2, <3>1, Zenon
    <3>3. store'[x] = store[x] /\ x \notin broken
      BY <1>2, <2>3
    <3> QED BY <2>1, <3>2, <3>3, Zenon DEF ToolWhole
  <2>4. CASE x \notin broken' /\ x = i
    <3>1. \A d \in Invocations \ {p} : ~ToolFills(proc'[d], x)
      BY <1>2, <2>4
    <3>2. store'[x] = dir /\ proc'[p] = j
      BY <1>2, <2>4
    <3>3. j.pc # "idle" => ToolFills(j, x)
      BY <2>4, Zenon DEF ToolFills
    <3> QED BY <2>4, <3>1, <3>2, <3>3, Zenon DEF ToolWhole
  <2> QED BY <2>2, <2>3, <2>4
<1> QED BY <1>1, <1>3, <1>4, Zenon DEF ToolInv

\* Race tells of everyone else who fills the directory.
LEMMA ToolRaces ==
  ASSUME ToolInv, NEW p \in Invocations, NEW i \in T!Items
  PROVE  /\ broken \subseteq T!Race(i, p) /\ T!Race(i, p) \subseteq T!Items
         /\ i \notin T!Race(i, p) => \A d \in Invocations \ {p} : ~ToolFills(proc[d], i)
<1>1. broken \subseteq T!Items
  BY Zenon DEF ToolInv, ToolTypes
<1>2. i \notin T!Race(i, p) => T!Adding(i) \ {p} = {}
  BY Zenon DEF T!Race
<1>3. \A d \in Invocations : ToolFills(proc[d], i) => d \in T!Adding(i)
  BY Zenon DEF ToolFills, T!Adding
<1> QED BY <1>1, <1>2, <1>3, Zenon DEF T!Race

\* Store.Add, and what its failure leaves.
LEMMA ToolAdd ==
  ASSUME ToolInv, NEW p \in Invocations,
         T!AddClean(p) \/ T!AddUnpack(p) \/ T!AddAgain(p) \/ T!AddFails(p)
  PROVE  ToolInv'
<1>1. proc[p] \in ToolJobs /\ ToolAdds(proc[p])
  BY Zenon DEF ToolInv, ToolTypes
<1>2. PICK i \in T!Items : i = proc[p].item /\ i \in Remote
  <2>1. proc[p].pc \in {"add", "unpack"}
    BY Zenon DEF T!AddClean, T!AddUnpack, T!AddAgain, T!AddFails
  <2> QED BY <1>1, <2>1, Zenon DEF ToolAdds, T!Items
<1>3. PICK good \in BOOLEAN : good = proc[p].good
  BY <1>1, Zenon DEF ToolJobs
<1>4. store[i] \in [on : BOOLEAN, files : SUBSET Files, good : BOOLEAN] /\ i \in ToolItems
      /\ broken \subseteq T!Items
  BY ToolItemsTyped, Zenon DEF ToolInv, ToolTypes
<1>5. CASE T!AddClean(p)
  <2>1. PICK j : j = [T!Idle EXCEPT !.pc = "unpack", !.item = i, !.good = good]
    OBVIOUS
  <2>2. j \in ToolJobs /\ j.pc = "unpack" /\ j.item = i /\ j.good = good
    BY <1>4, <2>1, ToolIdle, Zenon DEF ToolJobs
  <2>3. PICK dir : dir = [on |-> TRUE, files |-> {}, good |-> good]
    OBVIOUS
  <2>4. dir \in [on : BOOLEAN, files : SUBSET Files, good : BOOLEAN] /\ dir.good = good
    BY <2>3
  <2>5. /\ proc' = [proc EXCEPT ![p] = j] /\ store' = [store EXCEPT ![i] = dir]
        /\ broken' = T!Race(i, p) /\ UNCHANGED <<runs, kills>> /\ proc[p].pc = "add"
    BY <1>2, <1>3, <1>5, <2>1, <2>3, Zenon DEF T!AddClean
  <2>6. i \notin broken => good
    BY <1>1, <1>2, <1>3, <2>5, Zenon DEF ToolAdds
  <2> QED BY <1>2, <2>2, <2>4, <2>5, <2>6, ToolRaces, ToolWrites
<1>6. CASE T!AddUnpack(p)
  <2>1. PICK f \in Files \ store[i].files :
          /\ store' = [store EXCEPT ![i].files = @ \cup {f}, ![i].good = @ /\ proc[p].good]
          /\ IF store[i].files \cup {f} = Files THEN T!Goto(p, "chmod") ELSE UNCHANGED proc
    BY <1>2, <1>6, Zenon DEF T!AddUnpack
  <2>2. PICK dir : dir = [store[i] EXCEPT !.files = @ \cup {f}, !.good = @ /\ good]
    OBVIOUS
  <2>3. /\ dir \in [on : BOOLEAN, files : SUBSET Files, good : BOOLEAN]
        /\ dir.files = store[i].files \cup {f} /\ dir.good = (store[i].good /\ good)
    BY <1>3, <1>4, <2>1, <2>2
  <2>4. store' = [store EXCEPT ![i] = dir]
    BY <1>3, <1>4, <2>1, <2>2, Zenon DEF ToolInv, ToolTypes
  <2>5. PICK j : j = IF dir.files = Files THEN [proc[p] EXCEPT !.pc = "chmod"] ELSE proc[p]
    OBVIOUS
  <2>6. proc[p].pc = "unpack" /\ UNCHANGED <<runs, kills, broken>>
    BY <1>6, Zenon DEF T!AddUnpack
  <2>7. /\ j \in ToolJobs /\ j.item = i /\ j.good = good /\ j.pc \in {"unpack", "chmod"}
        /\ j.pc = "chmod" => dir.files = Files
    BY <1>1, <1>2, <1>3, <2>5, <2>6, Zenon DEF ToolJobs
  <2>8. proc' = [proc EXCEPT ![p] = j]
    BY <2>1, <2>3, <2>5, Zenon DEF T!Goto, ToolInv, ToolTypes
  <2>9. i \notin broken => /\ good /\ store[i].good
                           /\ \A d \in Invocations \ {p} : ~ToolFills(proc[d], i)
    <3>1. ToolWhole(i) /\ ToolFills(proc[p], i)
      BY <1>2, <2>6, Zenon DEF ToolInv, ToolFills
    <3> QED BY <1>1, <1>2, <1>3, <2>6, <3>1, Zenon DEF ToolAdds, ToolWhole
  <2> QED BY <1>2, <1>4, <2>3, <2>4, <2>6, <2>7, <2>8, <2>9, ToolWrites
<1>7. CASE T!AddAgain(p)
  <2>1. /\ proc[p].pc = "unpack" /\ T!Goto(p, "chmod") /\ store[proc[p].item].files = Files
        /\ UNCHANGED <<store, runs, kills, broken>>
    BY <1>7, Zenon DEF T!AddAgain
  <2>2. runs' \in 0 .. MaxRuns
    BY <2>1, Zenon DEF ToolInv, ToolTypes
  <2> QED BY <2>1, <2>2, ToolGoes
<1>8. CASE T!AddFails(p)
  <2>1. proc' = [proc EXCEPT ![p] = T!Idle] /\ UNCHANGED <<runs, kills>>
    BY <1>8, Zenon DEF T!AddFails, T!End
  <2>2. CASE store' = T!removeItem(i) /\ broken' = T!Race(i, p)
    <3>1. T!Absent \in [on : BOOLEAN, files : SUBSET Files, good : BOOLEAN] /\ ~T!Absent.on
      BY Zenon DEF T!Absent
    <3>2. store' = [store EXCEPT ![i] = T!Absent]
      BY <2>2, Zenon DEF T!removeItem
    <3> QED BY <1>2, <2>1, <2>2, <3>1, <3>2, ToolIdle, ToolRaces, ToolWrites
  <2>3. ASSUME NEW left \in SUBSET store[i].files, store' = [store EXCEPT ![i].files = left],
               broken' = broken \cup {i}
        PROVE  ToolInv'
    <3>1. PICK dir : dir = [store[i] EXCEPT !.files = left]
      OBVIOUS
    <3>2. dir \in [on : BOOLEAN, files : SUBSET Files, good : BOOLEAN]
          /\ store' = [store EXCEPT ![i] = dir]
      BY <1>4, <2>3, <3>1
    <3>3. broken \subseteq broken' /\ broken' \subseteq T!Items /\ i \in broken'
      BY <1>4, <2>3
    <3> QED BY <1>2, <2>1, <3>2, <3>3, ToolIdle, ToolWrites
  <2> QED BY <1>2, <1>8, <2>2, <2>3, Zenon DEF T!AddFails
<1> QED BY <1>5, <1>6, <1>7, <1>8

\* cleanup: what it removed is gone, and what it could not remove is broken.
LEMMA ToolCleans ==
  ASSUME ToolInv, NEW p \in Invocations, NEW e \in Exprs, NEW plat \in Platforms, T!Cleanup(p, e, plat)
  PROVE  ToolInv'
<1>1. PICK match \in SUBSET T!Items, stuck \in SUBSET T!Items, left \in SUBSET Files :
        /\ store' = [i \in DOMAIN store |->
                       IF i \in stuck THEN [store[i] EXCEPT !.files = @ \cap left]
                       ELSE IF i \in match THEN T!Absent ELSE store[i]]
        /\ broken' = broken \cup stuck \cup {i \in match : T!Adding(i) # {}}
  <2> DEFINE match == {i \in T!OnDisk : T!FilterMatches(T!FromExpr(e), plat, i)}
  <2>1. match \subseteq T!Items
    BY Zenon DEF ToolInv, ToolTypes, T!OnDisk
  <2>2. PICK stuck \in {{}} \cup {{i} : i \in match}, left \in SUBSET Files :
          /\ store' = [i \in DOMAIN store |->
                         IF i \in stuck THEN [store[i] EXCEPT !.files = @ \cap left]
                         ELSE IF i \in match THEN T!Absent ELSE store[i]]
          /\ broken' = broken \cup stuck \cup {i \in match : T!Adding(i) # {}}
    BY Zenon DEF T!Cleanup
  <2> HIDE DEF match
  <2>3. stuck \in SUBSET T!Items
    BY <2>1
  <2> QED BY <2>1, <2>2, <2>3, Zenon
<1>2. /\ proc \in [Invocations -> ToolJobs] /\ DOMAIN store = T!Items /\ broken \subseteq T!Items
      /\ \A i \in T!Items : store[i] \in [on : BOOLEAN, files : SUBSET Files, good : BOOLEAN]
      /\ runs \in 0 .. MaxRuns /\ kills \in 0 .. MaxKills /\ MaxRuns \in Nat
  BY ToolConstants, Zenon DEF ToolInv, ToolTypes, T!ToolAssumption
<1>3. UNCHANGED <<proc, kills>> /\ runs < MaxRuns /\ runs' = runs + 1
  BY Zenon DEF T!Cleanup
<1>4. ToolTypes'
  <2>1. ASSUME NEW i \in T!Items
        PROVE  store'[i] \in [on : BOOLEAN, files : SUBSET Files, good : BOOLEAN]
    BY <1>1, <1>2, Zenon DEF T!Absent
  <2>2. store' \in [T!Items -> [on : BOOLEAN, files : SUBSET Files, good : BOOLEAN]]
    <3>1. DOMAIN store' = T!Items /\ store' = [i \in T!Items |-> store'[i]]
      BY <1>1, <1>2
    <3> QED BY <2>1, <3>1
  <2>3. broken' \subseteq T!Items
    BY <1>1, <1>2
  <2> QED BY <1>2, <1>3, <2>2, <2>3 DEF ToolTypes
<1>5. ASSUME NEW x \in T!Items \ broken' PROVE
        /\ x \notin broken
        /\ store'[x] = store[x] \/ (~store'[x].on /\ \A d \in Invocations : ~ToolFills(proc[d], x))
  <2>1. x \notin stuck /\ x \notin broken /\ (x \in match => T!Adding(x) = {})
    BY <1>1
  <2>2. store'[x] = IF x \in match THEN T!Absent ELSE store[x]
    BY <1>1, <1>2, <2>1
  <2>3. T!Adding(x) = {} => \A d \in Invocations : ~ToolFills(proc[d], x)
    BY Zenon DEF T!Adding, ToolFills
  <2> QED BY <2>1, <2>2, <2>3 DEF T!Absent
<1>6. ASSUME NEW d \in Invocations PROVE (ToolNewest(proc[d]) /\ ToolAdds(proc[d]))'
  <2>1. ToolNewest(proc[d]) /\ ToolAdds(proc[d]) /\ proc'[d] = proc[d]
    BY <1>3, Zenon DEF ToolInv
  <2>2. ToolNewest(proc[d])'
    BY <2>1, ZenonT(60) DEF ToolNewest, ToolPool, ToolLocal, ToolRemote, ToolAsked
  <2>3. proc[d].item \in Remote => proc[d].item \in T!Items
    BY Zenon DEF T!Items
  <2>4. ToolAdds(proc[d])'
    BY <1>5, <2>1, <2>3, Zenon DEF ToolAdds, ToolFills
  <2> QED BY <2>2, <2>4
<1>7. ASSUME NEW x \in T!Items PROVE ToolWhole(x)'
  <2>1. ToolWhole(x) /\ proc' = proc
    BY <1>3, Zenon DEF ToolInv
  <2> QED BY <1>5, <2>1, Zenon DEF ToolWhole
<1> QED BY <1>4, <1>6, <1>7, Zenon DEF ToolInv

\* An invocation has filled its directory and leaves it.
LEMMA ToolLeaves ==
  ASSUME ToolInv, NEW p \in Invocations, NEW j \in ToolJobs, proc[p].pc = "chmod",
         j.pc \in {"idle", "print"}, proc' = [proc EXCEPT ![p] = j],
         UNCHANGED <<store, runs, broken>>, kills' \in 0 .. MaxKills
  PROVE  ToolInv'
<1>1. ToolTypes'
  BY Zenon DEF ToolInv, ToolTypes
<1>2. proc'[p] = j /\ \A d \in Invocations \ {p} : proc'[d] = proc[d]
  BY Zenon DEF ToolInv, ToolTypes
<1>3. ASSUME NEW d \in Invocations PROVE (ToolNewest(proc[d]) /\ ToolAdds(proc[d]))'
  <2>1. CASE d = p
    BY <1>2, <2>1, Zenon DEF ToolAdds, ToolNewest
  <2>2. CASE d # p
    <3>1. proc'[d] = proc[d] /\ ToolNewest(proc[d]) /\ ToolAdds(proc[d])
      BY <1>2, <2>2, Zenon DEF ToolInv
    <3>2. ToolAdds(proc[d])'
      BY <3>1 DEF ToolAdds
    <3>3. ToolNewest(proc[d])'
      BY <3>1, ZenonT(60) DEF ToolNewest, ToolPool, ToolLocal, ToolRemote, ToolAsked
    <3> QED BY <3>2, <3>3
  <2> QED BY <2>1, <2>2
<1>4. ASSUME NEW x \in T!Items PROVE ToolWhole(x)'
  <2>1. ToolWhole(x) /\ ToolAdds(proc[p])
    BY Zenon DEF ToolInv
  <2>2. CASE x \in broken
    BY <2>2, Zenon DEF ToolWhole
  <2>3. CASE x \notin broken
    <3>1. \A d \in Invocations : ToolFills(proc'[d], x) <=> d # p /\ ToolFills(proc[d], x)
      BY <1>2, Zenon DEF ToolFills
    <3>2. ToolFills(proc[p], x) => store[x].files = Files /\ store[x].good
      BY <2>1, <2>3, Zenon DEF ToolFills, ToolAdds
    <3> QED BY <2>1, <2>3, <3>1, <3>2, Zenon DEF ToolWhole
  <2> QED BY <2>2, <2>3
<1> QED BY <1>1, <1>3, <1>4, Zenon DEF ToolInv

\* The other steps of an invocation leave the store alone.
LEMMA ToolRest ==
  ASSUME ToolInv, NEW p \in Invocations,
         \/ \E e \in Exprs, f \in Flags, plat \in Platforms : T!Use(p, e, f, plat)
         \/ \E i \in Remote : T!Sideload(p, i)
         \/ T!PathMatches(p) \/ T!ExistsAndValid(p) \/ T!Fetch(p) \/ T!AddChmod(p)
         \/ T!PrintInfo(p) \/ T!Exits(p) \/ T!Killed(p)
  PROVE  ToolInv'
<1>1. /\ proc[p] \in ToolJobs /\ ToolAdds(proc[p]) /\ ToolNewest(proc[p]) /\ broken \subseteq T!Items
      /\ runs \in 0 .. MaxRuns /\ kills \in 0 .. MaxKills
  BY Zenon DEF ToolInv, ToolTypes
<1>2. MaxRuns \in Nat /\ MaxKills \in Nat
      /\ Flags \subseteq [noDownload : BOOLEAN, force : BOOLEAN, verify : BOOLEAN]
  BY ToolConstants, Zenon DEF T!ToolAssumption
<1>3. ASSUME NEW e \in Exprs, NEW f \in Flags, NEW plat \in Platforms, T!Use(p, e, f, plat)
      PROVE  ToolInv'
  <2>1. PICK j : j = [T!Idle EXCEPT !.pc = "select", !.spec = T!FromExpr(e), !.plat = plat,
                          !.force = f.force, !.verify = f.verify,
                          !.noDownload = f.noDownload \/ e.sel = "latest-on-disk"]
    OBVIOUS
  <2>2. j \in ToolJobs /\ j.pc = "select"
    <3>1. /\ f.force \in BOOLEAN /\ f.verify \in BOOLEAN /\ plat \in ToolPlatforms
          /\ (f.noDownload \/ e.sel = "latest-on-disk") \in BOOLEAN /\ T!FromExpr(e) \in ToolSpecs
      BY <1>2, ToolIdle, Zenon DEF ToolPlatforms
    <3> QED BY <2>1, <3>1, ToolIdle, Zenon DEF ToolJobs
  <2>3. PICK k : k = IF T!CheckCoherence(j) THEN j ELSE T!Idle
    OBVIOUS
  <2>4. k \in ToolJobs /\ k.pc \in {"select", "idle"}
    BY <2>2, <2>3, ToolIdle
  <2>5. proc' = [proc EXCEPT ![p] = k] /\ proc[p].pc = "idle" /\ UNCHANGED <<store, kills, broken>>
        /\ runs' \in 0 .. MaxRuns
    <3>1. proc' = [proc EXCEPT ![p] = k] /\ runs < MaxRuns /\ runs' = runs + 1
      BY <1>3, <2>1, <2>3, Zenon DEF T!Use
    <3>2. proc[p].pc = "idle" /\ UNCHANGED <<store, kills, broken>>
      BY <1>3, Zenon DEF T!Use
    <3> QED BY <1>1, <1>2, <3>1, <3>2
  <2>6. ToolNewest(k) /\ ToolAdds(k)' /\ \A x : ~ToolFills(k, x) /\ ~ToolFills(proc[p], x)
    BY <2>4, <2>5, Zenon DEF ToolNewest, ToolAdds, ToolFills
  <2> QED BY <1>1, <2>4, <2>5, <2>6, ToolQuiet
<1>4. ASSUME NEW i \in Remote, T!Sideload(p, i) PROVE ToolInv'
  <2>1. PICK j : j = [T!Idle EXCEPT !.pc = "add", !.item = i]
    OBVIOUS
  <2>2. i \in ToolItems
    BY ToolItemsTyped, Zenon DEF T!Items
  <2>3. j \in ToolJobs /\ j.pc = "add" /\ j.item = i /\ j.good = TRUE
    BY <2>1, <2>2, ToolIdle, Zenon DEF ToolJobs
  <2>4. proc' = [proc EXCEPT ![p] = j] /\ proc[p].pc = "idle" /\ UNCHANGED <<store, kills, broken>>
        /\ runs' \in 0 .. MaxRuns
    <3>1. proc' = [proc EXCEPT ![p] = j] /\ runs < MaxRuns /\ runs' = runs + 1
      BY <1>4, <2>1, Zenon DEF T!Sideload
    <3>2. proc[p].pc = "idle" /\ UNCHANGED <<store, kills, broken>>
      BY <1>4, Zenon DEF T!Sideload
    <3> QED BY <1>1, <1>2, <3>1, <3>2
  <2>5. ToolNewest(j) /\ ToolAdds(j)' /\ \A x : ~ToolFills(j, x) /\ ~ToolFills(proc[p], x)
    BY <2>3, <2>4, Zenon DEF ToolNewest, ToolAdds, ToolFills
  <2> QED BY <1>1, <2>3, <2>4, <2>5, ToolQuiet
<1>5. CASE T!PathMatches(p)
  <2>1. /\ proc[p].pc = "idle" /\ runs' \in 0 .. MaxRuns /\ T!Goto(p, "print")
        /\ UNCHANGED <<store, kills, broken>>
    <3>1. /\ proc[p].pc = "idle" /\ runs < MaxRuns /\ runs' = runs + 1 /\ T!Goto(p, "print")
          /\ UNCHANGED <<store, kills, broken>>
      BY <1>5, Zenon DEF T!PathMatches
    <3> QED BY ONLY <1>1, <1>2, <3>1
  <2> QED BY <2>1, ToolGoes
<1>6. CASE T!ExistsAndValid(p)
  <2>1. /\ proc[p].pc = "check" /\ (T!Goto(p, "print") \/ T!Goto(p, "fetch"))
        /\ UNCHANGED <<store, runs, kills, broken>>
    BY <1>6, Zenon DEF T!ExistsAndValid
  <2>2. ToolNewest([proc[p] EXCEPT !.pc = "fetch"])
    <3>1. PICK j : j = [proc[p] EXCEPT !.pc = "fetch"]
      OBVIOUS
    <3>2. /\ j.spec = proc[p].spec /\ j.plat = proc[p].plat /\ j.noDownload = proc[p].noDownload
          /\ j.force = proc[p].force /\ j.item = proc[p].item /\ j.seen = proc[p].seen
      BY <1>1, <3>1, Zenon DEF ToolJobs
    <3>3. ToolNewest(j)
      BY <1>1, <2>1, <3>2, ZenonT(60) DEF ToolNewest, ToolPool, ToolLocal, ToolRemote, ToolAsked
    <3> QED BY <3>1, <3>3
  <2> QED BY <1>1, <2>1, <2>2, ToolGoes
<1>7. CASE T!Fetch(p)
  <2>1. PICK good \in BOOLEAN :
          /\ proc' = [proc EXCEPT ![p].pc = "add", ![p].good = good]
          /\ broken' = IF good THEN broken ELSE broken \cup {proc[p].item}
    BY <1>7, Zenon DEF T!Fetch
  <2>2. proc[p].pc = "fetch" /\ proc[p].item \in Remote /\ UNCHANGED <<store, runs, kills>>
    BY <1>7, Zenon DEF T!Fetch
  <2>3. PICK j : j = [proc[p] EXCEPT !.pc = "add", !.good = good]
    OBVIOUS
  <2>4. /\ j \in ToolJobs /\ j.pc = "add" /\ j.item = proc[p].item /\ j.good = good
        /\ proc' = [proc EXCEPT ![p] = j]
    BY <1>1, <2>1, <2>3, Zenon DEF ToolJobs, ToolInv, ToolTypes
  <2>5. broken \subseteq broken' /\ broken' \subseteq T!Items /\ (j.item \notin broken' => good)
    BY <1>1, <2>1, <2>2, <2>4, Zenon DEF T!Items
  <2>6. ToolNewest(j) /\ ToolAdds(j)' /\ \A x : ~ToolFills(j, x) /\ ~ToolFills(proc[p], x)
    <3>1. ToolNewest(j)
      BY ONLY <2>4 DEF ToolNewest
    <3>2. ToolAdds(j)'
      BY ONLY <2>2, <2>4, <2>5 DEF ToolAdds
    <3>3. \A x : ~ToolFills(j, x) /\ ~ToolFills(proc[p], x)
      BY ONLY <2>2, <2>4 DEF ToolFills
    <3> QED BY <3>1, <3>2, <3>3
  <2> QED BY <1>1, <2>2, <2>4, <2>5, <2>6, ToolQuiet
<1>8. CASE T!AddChmod(p)
  <2>1. PICK j : j = [proc[p] EXCEPT !.pc = "print"]
    OBVIOUS
  <2>2. /\ j \in ToolJobs /\ j.pc = "print" /\ proc[p].pc = "chmod" /\ proc' = [proc EXCEPT ![p] = j]
        /\ UNCHANGED <<store, runs, kills, broken>>
    BY <1>1, <1>8, <2>1, Zenon DEF T!AddChmod, T!Goto, ToolJobs, ToolInv, ToolTypes
  <2> QED BY <1>1, <2>2, ToolLeaves, Zenon DEF ToolNewest, ToolAdds
<1>9. CASE T!PrintInfo(p) \/ T!Exits(p)
  <2>1. /\ proc[p].pc \in {"print", "select", "check", "fetch"} /\ T!End(p)
        /\ UNCHANGED <<store, runs, kills, broken>>
    BY <1>9, Zenon DEF T!PrintInfo, T!Exits
  <2>2. \A x : ~ToolFills(proc[p], x)
    BY <2>1, Zenon DEF ToolFills
  <2> QED BY <1>1, <2>1, <2>2, ToolEnds
<1>10. CASE T!Killed(p)
  <2>1. /\ T!End(p) /\ UNCHANGED <<store, runs>> /\ kills' \in 0 .. MaxKills
        /\ broken' = IF proc[p].pc = "unpack" THEN broken \cup {proc[p].item} ELSE broken
    <3>1. /\ T!End(p) /\ UNCHANGED <<store, runs>> /\ kills < MaxKills /\ kills' = kills + 1
          /\ broken' = IF proc[p].pc = "unpack" THEN broken \cup {proc[p].item} ELSE broken
      BY <1>10, Zenon DEF T!Killed
    <3> QED BY ONLY <1>1, <1>2, <3>1
  <2>2. broken \subseteq broken' /\ broken' \subseteq T!Items
        /\ (proc[p].pc = "unpack" => proc[p].item \in broken')
    BY <1>1, <2>1, Zenon DEF ToolAdds, T!Items
  <2>3. CASE proc[p].pc # "chmod"
    <3>1. \A x \in T!Items \ broken' : ~ToolFills(proc[p], x)
      BY <2>2, <2>3, Zenon DEF ToolFills
    <3> QED BY <1>1, <2>1, <2>2, <3>1, ToolEnds
  <2>4. CASE proc[p].pc = "chmod"
    <3>1. proc' = [proc EXCEPT ![p] = T!Idle] /\ UNCHANGED broken
      BY <2>1, <2>4, Zenon DEF T!End
    <3> QED BY <1>1, <2>1, <2>4, <3>1, ToolIdle, ToolLeaves, Zenon DEF ToolNewest, ToolAdds
  <2> QED BY <2>3, <2>4
<1> QED BY <1>3, <1>4, <1>5, <1>6, <1>7, <1>8, <1>9, <1>10

\* A step that changes nothing.
LEMMA ToolStutters ==
  ASSUME ToolInv, UNCHANGED T!vars
  PROVE  ToolInv'
<1>1. /\ store' = store /\ proc' = proc /\ runs' = runs /\ kills' = kills /\ broken' = broken
  BY Zenon DEF T!vars
<1>2. ToolTypes'
  BY <1>1, Zenon DEF ToolInv, ToolTypes
<1>3. ASSUME NEW d \in Invocations PROVE (ToolNewest(proc[d]) /\ ToolAdds(proc[d]))'
  <2>1. proc'[d] = proc[d] /\ ToolNewest(proc[d]) /\ ToolAdds(proc[d])
    BY <1>1, Zenon DEF ToolInv
  <2>2. ToolAdds(proc[d])'
    BY <1>1, <2>1, Zenon DEF ToolAdds
  <2>3. ToolNewest(proc[d])'
    BY <2>1, ZenonT(60) DEF ToolNewest, ToolPool, ToolLocal, ToolRemote, ToolAsked
  <2> QED BY <2>2, <2>3
<1>4. ASSUME NEW x \in T!Items PROVE ToolWhole(x)'
  BY <1>1, Zenon DEF ToolInv, ToolWhole
<1> QED BY <1>2, <1>3, <1>4, Zenon DEF ToolInv

\* VersionsRight: whatever invocations of setup-envtest do at the same time, and
\* whichever fail or are killed, the version "use" settles on is the newest one
\* its selector is documented to match (EnsureVersionIsSet, Spec.Matches), and a
\* directory of the store that nobody fills holds every file, undamaged, unless
\* a kill, a race, a failed clean-up or an unverified download broke it
\* (Store.Add, Fetch); for any store, bucket, flags and number of invocations.
THEOREM VersionsRightHolds == T!Spec => []VersionsRight
<1>1. ASSUME ToolInv, [T!Next]_(T!vars) PROVE ToolInv'
  <2>1. CASE UNCHANGED T!vars
    BY <1>1, <2>1, ToolStutters
  <2>2. CASE T!Next
    <3>1. PICK p \in Invocations :
            \/ \E e \in Exprs, f \in Flags, plat \in Platforms : T!Use(p, e, f, plat)
            \/ \E e \in Exprs, plat \in Platforms : T!Cleanup(p, e, plat)
            \/ \E i \in Remote : T!Sideload(p, i)
            \/ T!PathMatches(p) \/ T!EnsureVersionIsSet(p) \/ T!ExistsAndValid(p) \/ T!Fetch(p)
            \/ T!AddClean(p) \/ T!AddUnpack(p) \/ T!AddAgain(p) \/ T!AddChmod(p) \/ T!AddFails(p)
            \/ T!PrintInfo(p) \/ T!Exits(p) \/ T!Killed(p)
      BY <2>2, Zenon DEF T!Next
    <3>2. CASE \E e \in Exprs, plat \in Platforms : T!Cleanup(p, e, plat)
      BY <1>1, <3>2, ToolCleans, Zenon
    <3>3. CASE T!EnsureVersionIsSet(p)
      BY <1>1, <3>3, ToolEnsures, Zenon
    <3>4. CASE T!AddClean(p) \/ T!AddUnpack(p) \/ T!AddAgain(p) \/ T!AddFails(p)
      BY <1>1, <3>4, ToolAdd, Zenon
    <3>5. CASE \/ \E e \in Exprs, f \in Flags, plat \in Platforms : T!Use(p, e, f, plat)
               \/ \E i \in Remote : T!Sideload(p, i)
               \/ T!PathMatches(p) \/ T!ExistsAndValid(p) \/ T!Fetch(p) \/ T!AddChmod(p)
               \/ T!PrintInfo(p) \/ T!Exits(p) \/ T!Killed(p)
      BY <1>1, <3>5, ToolRest, Zenon
    <3> QED BY <3>1, <3>2, <3>3, <3>4, <3>5, Zenon
  <2> QED BY <1>1, <2>1, <2>2
<1> QED BY <1>1, ToolInit, ToolImplies, PTL DEF T!Spec

-----------------------------------------------------------------------------
(* Ports.  NotGivenTwice is not inductive alone: a port that was handed out *)
(* must still be in the cache until its reserve time is over, whatever      *)
(* calls have cleaned the cache since.                                      *)

\* A port that was handed out is in the cache, or its reserve time is over.
PortsReserved ==
    \A i \in DOMAIN given :
        /\ given[i].at <= now
        /\ given[i] \in ports \/ now - given[i].at > ReserveTime

PortsInv == S!TypeOK /\ PortsReserved /\ NotGivenTwice

-----------------------------------------------------------------------------
\* The clock, the cache and the calls keep their types (portCache, Suggest).
LEMMA PortsTypes == S!TypeOK /\ [S!Next]_S!vars => S!TypeOK'
<1> SUFFICES ASSUME S!TypeOK, [S!Next]_S!vars PROVE S!TypeOK'
  OBVIOUS
<1> USE PortsConstants DEF S!PortsAssumption
<1>1. CASE S!Tick
  BY <1>1 DEF S!Tick, S!TypeOK
<1>2. ASSUME NEW c \in Callers, S!Suggest(c) PROVE S!TypeOK'
  BY <1>2 DEF S!Suggest, S!TypeOK, S!Calls
<1>3. ASSUME NEW c \in Callers, S!suggest(c) PROVE S!TypeOK'
  <2>1. PICK p \in PortNumbers :
          asked' = [asked EXCEPT ![c] = [pc |-> "offer", tries |-> asked[c].tries, port |-> p]]
    BY <1>3, Zenon DEF S!suggest
  <2>2. asked[c].tries \in 0 .. Retries
    BY Zenon DEF S!TypeOK, S!Calls
  <2> QED BY <1>3, <2>1, <2>2, Zenon DEF S!suggest, S!TypeOK, S!Calls
<1>4. ASSUME NEW c \in Callers, S!suggestFails(c) PROVE S!TypeOK'
  BY <1>4 DEF S!suggestFails, S!TypeOK, S!Calls, S!None
<1>5. ASSUME NEW c \in Callers, S!add(c) PROVE S!TypeOK'
  <2>1. asked[c].pc = "offer" /\ asked[c].port \in PortNumbers /\ asked[c].tries \in 0 .. Retries
    BY <1>5, Zenon DEF S!add, S!TypeOK, S!Calls
  <2>2. ports' \subseteq S!Entries /\ given' \in Seq(S!Entries) /\ now' \in 0 .. MaxTime
    <3> DEFINE new == [port |-> asked[c].port, at |-> now]
    <3>1. new \in S!Entries /\ given \in Seq(S!Entries) /\ ports \subseteq S!Entries
          /\ now' = now /\ now \in 0 .. MaxTime
      BY <1>5, <2>1, Zenon DEF S!add, S!TypeOK, S!Entries
    <3>2. ports' \subseteq ports \cup {new} /\ (given' = given \/ given' = Append(given, new))
      BY <1>5, Zenon DEF S!add
    <3> HIDE DEF new
    <3> QED BY <3>1, <3>2
  <2>3. asked' \in [Callers -> S!Calls]
    BY <1>5, <2>1 DEF S!add, S!TypeOK, S!Calls, S!None
  <2> QED BY <2>2, <2>3, Zenon DEF S!TypeOK
<1>6. CASE UNCHANGED S!vars
  BY <1>6, Zenon DEF S!vars, S!TypeOK
<1> QED BY <1>1, <1>2, <1>3, <1>4, <1>5, <1>6, Zenon DEF S!Next

\* The step of portCache.add: what it drops from the cache is over, and what
\* it hands out was in nobody's reserve time.
LEMMA PortsAdd ==
    ASSUME PortsInv, NEW c \in Callers, S!add(c)
    PROVE  PortsReserved' /\ NotGivenTwice'
<1> DEFINE p == asked[c].port
           kept == ports \ S!outdated
<1> USE PortsConstants DEF S!PortsAssumption
<1>1. now \in Nat /\ now' = now /\ given \in Seq(S!Entries) /\ ports \subseteq S!Entries
      /\ p \in PortNumbers
  <2>1. now \in Nat /\ given \in Seq(S!Entries) /\ ports \subseteq S!Entries
    BY DEF PortsInv, S!TypeOK
  <2>2. now' = now /\ asked[c].pc = "offer" /\ asked[c] \in S!Calls
    BY Zenon DEF PortsInv, S!TypeOK, S!add
  <2>3. p \in PortNumbers
    BY <2>2, Zenon DEF S!Calls
  <2> QED BY <2>1, <2>2, <2>3
<1>2. \A i \in DOMAIN given : given[i] \in S!Entries /\ given[i].at \in Nat
  <2>1. \A i \in DOMAIN given : given[i] \in S!Entries
    BY <1>1
  <2> QED BY <2>1 DEF S!Entries
<1>3. \A i \in DOMAIN given : given[i] \in kept \/ now - given[i].at > ReserveTime
  BY <1>1, <1>2, Zenon DEF PortsInv, PortsReserved, S!outdated
<1>4. CASE \E e \in kept : e.port = p
  <2>1. ports' = kept /\ given' = given
    BY <1>4, Zenon DEF S!add
  <2> QED BY <1>1, <1>3, <2>1, Zenon DEF PortsInv, PortsReserved, NotGivenTwice, S!NotGivenTwice
<1>5. CASE ~ \E e \in kept : e.port = p
  <2> DEFINE new == [port |-> p, at |-> now]
  <2>1. ports' = kept \cup {new} /\ given' = Append(given, new)
    BY <1>5, Zenon DEF S!add
  <2>2. DOMAIN given' = 1 .. Len(given) + 1 /\ DOMAIN given = 1 .. Len(given) /\ Len(given) \in Nat
    BY <1>1, <2>1
  <2>3. given'[Len(given) + 1] = new /\ \A i \in DOMAIN given : given'[i] = given[i]
    BY <1>1, <2>1
  <2>4. PortsReserved'
    BY <1>1, <1>2, <1>3, <2>1, <2>2, <2>3 DEF PortsReserved, PortsInv
  <2>5. ASSUME NEW i \in DOMAIN given', NEW j \in DOMAIN given', i < j,
               given'[i].port = given'[j].port
        PROVE  given'[j].at - given'[i].at > ReserveTime
    <3>1. i \in DOMAIN given
      BY <2>2, <2>5
    <3>2. CASE j \in DOMAIN given
      BY <2>3, <2>5, <3>1, <3>2, Zenon DEF PortsInv, NotGivenTwice, S!NotGivenTwice
    <3>3. CASE j = Len(given) + 1
      <4>1. given[i].port = p
        BY <2>3, <2>5, <3>1, <3>3
      <4>2. given[i] \notin kept
        BY <1>5, <4>1
      <4> QED BY <1>3, <2>3, <3>1, <3>3, <4>2
    <3> QED BY <2>2, <3>2, <3>3
  <2> QED BY <2>4, <2>5, Zenon DEF NotGivenTwice, S!NotGivenTwice
<1> QED BY <1>4, <1>5

\* Every other step only lets time pass or leaves the cache alone.
LEMMA PortsStep == PortsInv /\ [S!Next]_S!vars => PortsReserved' /\ NotGivenTwice'
<1> SUFFICES ASSUME PortsInv, [S!Next]_S!vars PROVE PortsReserved' /\ NotGivenTwice'
  OBVIOUS
<1> USE PortsConstants DEF S!PortsAssumption
<1>1. now \in Nat /\ \A i \in DOMAIN given : given[i].at \in Nat
  <2>1. \A i \in DOMAIN given : given[i] \in S!Entries
    BY DEF PortsInv, S!TypeOK
  <2>2. now \in Nat
    BY DEF PortsInv, S!TypeOK
  <2> QED BY <2>1, <2>2 DEF S!Entries
<1>2. CASE S!Tick
  <2>1. now' = now + 1 /\ ports' = ports /\ given' = given
    BY <1>2, Zenon DEF S!Tick
  <2> QED BY <1>1, <2>1 DEF PortsInv, PortsReserved, NotGivenTwice, S!NotGivenTwice
<1>3. CASE UNCHANGED <<now, ports, given>>
  BY <1>3, Zenon DEF PortsInv, PortsReserved, NotGivenTwice, S!NotGivenTwice
<1>4. ASSUME NEW c \in Callers, S!add(c) PROVE PortsReserved' /\ NotGivenTwice'
  BY <1>4, PortsAdd
<1> QED BY <1>2, <1>3, <1>4, Zenon DEF S!Next, S!vars, S!Suggest, S!suggest, S!suggestFails

\* Suggest: a port that is handed out twice was handed out more than the
\* reserve time apart, for every number of callers, ports and retries, and
\* however their calls interleave between the offer and the cache.
THEOREM NotGivenTwiceHolds == S!Spec => []NotGivenTwice
<1>1. S!Init => PortsInv
  <2> SUFFICES ASSUME S!Init PROVE PortsInv
    OBVIOUS
  <2>1. now \in 0 .. MaxTime /\ ports \subseteq S!Entries /\ given \in Seq(S!Entries)
    BY PortsConstants DEF S!PortsAssumption, S!Init
  <2>2. asked \in [Callers -> S!Calls]
    <3>1. S!None \in S!Calls
      BY PortsConstants DEF S!PortsAssumption, S!None, S!Calls
    <3> QED BY <3>1, Zenon DEF S!Init
  <2>3. DOMAIN given = {}
    BY DEF S!Init
  <2> QED BY <2>1, <2>2, <2>3, Zenon DEF PortsInv, S!TypeOK, PortsReserved, NotGivenTwice, S!NotGivenTwice
<1>2. PortsInv /\ [S!Next]_S!vars => PortsInv'
  BY PortsTypes, PortsStep, Zenon DEF PortsInv
<1>3. PortsInv => NotGivenTwice
  BY Zenon DEF PortsInv
<1> QED BY <1>1, <1>2, <1>3, PTL DEF S!Spec

==============================================================================
