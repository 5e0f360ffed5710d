---------------------------- MODULE LoggersProofs ----------------------------
(***************************************************************************)
(* Proofs about Loggers, for any number of goroutines, loggers and setters. *)
(***************************************************************************)
EXTENDS Loggers, WellFoundedInduction, TLAPS

\* What a logger is made of, and the bases a setter sets.
Marks == Setters \cup Tags \cup {"null"}
Bases == {Null} \cup {<<s>> : s \in Setters \ {Timer}}
Applied(b, w) == IF b = Null THEN Null ELSE b \o w

LogTypes ==
    /\ TypeOK
    /\ logger \in [Ids -> Seq(Marks)] /\ want \in [Ids -> Seq(Marks)]
    /\ tag \in [Ids -> Tags \cup {None}]
    /\ todo \in Seq([id : Ids, parent : Seq(Marks)])

\* Nobody is still making logger i.
Complete(i, m, us) == i \in 1 .. m /\ \A u \in Users : us[u].new # i

\* A user holds the lock of the logger it derives from, and the new one is
\* among that one's children only while that one has its promise.
LogDoing ==
    \A u \in Users :
        /\ user[u].pc \in {"idle", "locked"} => user[u].new = 0
        /\ user[u].pc \in {"locked", "added"} => Complete(user[u].from, made, user) /\ u \in rlocks[user[u].from]
        /\ user[u].pc = "added" => /\ user[u].new \in 2 .. made /\ ~ promise[user[u].new]
                                   /\ tag[user[u].new] \in Tags
                                   /\ user[u].new \in kids[user[u].from] => promise[user[u].from]

\* Each logger is made by one user.
LogMakers == \A u, v \in Users : user[u].new = user[v].new /\ user[u].new # 0 => u = v

\* Children are made after their parent, from it.
LogKids ==
    \A q \in Ids : \A n \in kids[q] :
        /\ q \in 1 .. made /\ n \in 1 .. made /\ q < n /\ tag[n] \in Tags
        /\ want[n] = Append(want[q], tag[n])
        /\ \A u \in Users : user[u].new = n => user[u].from = q

\* Only a logger that was returned has a promise.
LogPromised == \A i \in Ids : promise[i] => Complete(i, made, user)

LogUsers == LogDoing /\ LogMakers /\ LogKids /\ LogPromised

\* Who has its promise is still reached by Fulfill, through its parent at
\* the latest.
LogPending ==
    \A i \in Ids : promise[i] /\ i # Root
        => \/ \E a \in 1 .. Len(todo) : todo[a].id = i
           \/ \E q \in Ids : i \in kids[q] /\ promise[q]

\* The first setter fulfils the root's promise first, and there is one such
\* setter.
LogSetter ==
    /\ setter = None => todo = <<>>
    /\ setter # None /\ promise[Root] => /\ Len(todo) = 1 /\ todo[1].id = Root
                                             /\ todo[1].parent \in Bases
    /\ ~ promise[Root] => \A a \in 1 .. Len(todo) : todo[a].id # Root
    /\ wasSet /\ setter = None => ~ promise[Root]
    /\ called # {} => ~ promise[Root] /\ todo = <<>>

\* A logger without a promise is what it was asked to be, unless its user is
\* about to give it one; what Fulfill passes down is what the parent became.
LogValues ==
    /\ want[Root] = <<>> /\ logger[Root] \in Bases
    /\ \A i \in 1 .. made :
         \/ promise[i]
         \/ \E u \in Users : user[u].new = i /\ i \in kids[user[u].from]
         \/ ~ promise[Root] /\ logger[i] = Applied(logger[Root], want[i])
    /\ \A a \in 1 .. Len(todo) : todo[a].id # Root =>
         /\ ~ promise[Root] /\ Complete(todo[a].id, made, user)
         /\ \E q \in Ids : todo[a].id \in kids[q]
                              /\ todo[a].parent = Applied(logger[Root], want[q])

LogInv == LogTypes /\ LogUsers /\ LogPending /\ LogSetter /\ LogValues

-----------------------------------------------------------------------------
\* A nonempty set of numbers has a least one.
LEMMA Least == ASSUME NEW S \in SUBSET Nat, S # {} PROVE \E m \in S : \A k \in S : m <= k
<1> DEFINE Less == OpToRel(<, Nat)
<1>1. IsWellFoundedOn(Less, Nat)
  BY NatLessThanWellFounded
<1>2. \A x, y \in Nat : <<x, y>> \in Less <=> x < y
  BY DEF OpToRel
<1> HIDE DEF Less
<1>3. PICK m \in S : \A k \in S : ~ (<<k, m>> \in Less)
  BY <1>1, WFMin
<1>4. ASSUME NEW k \in S PROVE m <= k
  <2>1. ~ (k < m) /\ k \in Nat /\ m \in Nat
    BY <1>2, <1>3, Zenon
  <2> QED BY <2>1
<1> QED BY <1>4

\* The elements of a concatenation.
LEMMA Joined ==
    ASSUME NEW T, NEW b \in Seq(T), NEW w \in Seq(T)
    PROVE  /\ b \o w \in Seq(T) /\ Len(b \o w) = Len(b) + Len(w)
           /\ \A i \in 1 .. Len(b) : (b \o w)[i] = b[i]
           /\ \A i \in 1 .. Len(w) : (b \o w)[i + Len(b)] = w[i]
<1>1. b \o w \in Seq(T) /\ Len(b \o w) = Len(b) + Len(w) /\ Len(b) \in Nat /\ Len(w) \in Nat
  OBVIOUS
<1>2. ASSUME NEW i \in 1 .. Len(b) PROVE (b \o w)[i] = b[i]
  <2>1. i \in 1 .. Len(b) + Len(w) /\ i <= Len(b)
    BY <1>1
  <2> QED BY <2>1
<1>3. ASSUME NEW i \in 1 .. Len(w) PROVE (b \o w)[i + Len(b)] = w[i]
  <2>1. i + Len(b) \in 1 .. Len(b) + Len(w) /\ ~ (i + Len(b) <= Len(b)) /\ (i + Len(b)) - Len(b) = i
    BY <1>1
  <2> QED BY <2>1
<1> QED BY <1>1, <1>2, <1>3

\* A base other than the null logger is a setter's, and so is what is made of it.
LEMMA Based ==
    ASSUME LogConstants, NEW b \in Bases, b # Null, NEW w \in Seq(Marks)
    PROVE  /\ \E s \in Setters \ {Timer} : b = <<s>>
           /\ b \in Seq(Marks) /\ Len(b) = 1
           /\ b \o w \in Seq(Marks) /\ Len(b \o w) = 1 + Len(w) /\ Len(w) \in Nat
           /\ b \o w # Null
<1>1. PICK s \in Setters \ {Timer} : b = <<s>>
  BY DEF Bases
<1>2. s # "null" /\ s \in Marks /\ b \in Seq(Marks) /\ Len(b) = 1 /\ b[1] = s
  BY <1>1 DEF LogConstants, Marks
<1>3. /\ b \o w \in Seq(Marks) /\ Len(b \o w) = Len(b) + Len(w)
      /\ \A i \in 1 .. Len(b) : (b \o w)[i] = b[i]
  <2>1. b \in Seq(Marks) /\ w \in Seq(Marks)
    BY <1>2
  <2> QED BY ONLY <2>1, Joined
<1>4. Len(w) \in Nat /\ 1 \in 1 .. Len(b)
  BY <1>2
<1>5. b \o w # Null
  <2>1. Null[1] = "null"
    BY DEF Null
  <2> QED BY <1>2, <1>3, <1>4, <2>1
<1> QED BY <1>1, <1>2, <1>3, <1>4, <1>5

\* What is done to a logger later is done to the base as well.
LEMMA AppliedWith ==
    ASSUME LogConstants, NEW b \in Bases, NEW w \in Seq(Marks), NEW t \in Marks
    PROVE  With(Applied(b, w), t) = Applied(b, Append(w, t))
<1>1. CASE b = Null
  BY <1>1 DEF Applied, With
<1>2. CASE b # Null
  <2>1. /\ b \in Seq(Marks) /\ Len(b) = 1 /\ b \o w \in Seq(Marks) /\ Len(b \o w) = 1 + Len(w)
        /\ Len(w) \in Nat /\ b \o w # Null
    BY <1>2, Based
  <2>2. Append(b \o w, t) = b \o Append(w, t)
    <3> DEFINE x == Append(b \o w, t)
               y == b \o Append(w, t)
    <3>1. x \in Seq(Marks) /\ y \in Seq(Marks) /\ Len(x) = 2 + Len(w) /\ Len(y) = 2 + Len(w)
      BY <2>1
    <3>2. ASSUME NEW i \in 1 .. 2 + Len(w) PROVE x[i] = y[i]
      <4>1. CASE i = 1
        BY <2>1, <4>1
      <4>2. CASE i \in 2 .. 1 + Len(w)
        BY <2>1, <4>2
      <4>3. CASE i = 2 + Len(w)
        BY <2>1, <4>3
      <4>4. i = 1 \/ i \in 2 .. 1 + Len(w) \/ i = 2 + Len(w)
        BY <2>1
      <4> QED BY <4>1, <4>2, <4>3, <4>4
    <3> HIDE DEF x, y
    <3>3. x = [i \in 1 .. 2 + Len(w) |-> x[i]] /\ y = [i \in 1 .. 2 + Len(w) |-> y[i]]
      BY <3>1
    <3>4. x = y
      BY <3>2, <3>3
    <3> QED BY <3>4 DEF x, y
  <2> QED BY <1>2, <2>1, <2>2 DEF Applied, With
<1> QED BY <1>1, <1>2

LEMMA AppliedType ==
    ASSUME LogConstants, NEW b \in Bases, NEW w \in Seq(Marks)
    PROVE  /\ Applied(b, w) \in Seq(Marks)
           /\ Applied(b, w) = Null <=> b = Null
           /\ Applied(b, <<>>) = b
           /\ Applied(b, w) \in {Null} \cup {<<s>> \o w : s \in Setters \ {Timer}}
<1>1. CASE b = Null
  <2>1. Null \in Seq(Marks)
    BY DEF Null, Marks
  <2> QED BY <1>1, <2>1 DEF Applied
<1>2. CASE b # Null
  <2>1. /\ \E s \in Setters \ {Timer} : b = <<s>>
        /\ b \in Seq(Marks) /\ b \o w \in Seq(Marks) /\ b \o w # Null
    BY <1>2, Based
  <2>2. b \o <<>> = b
    BY <2>1
  <2> QED BY <1>2, <2>1, <2>2 DEF Applied
<1> QED BY <1>1, <1>2

\* z is the k elements of o and what t has after its first.
InFront(z, o, k, t) ==
    /\ \A a \in 1 .. Len(z) : (\E b \in 1 .. k : z[a] = o[b]) \/ (\E b \in 2 .. Len(t) : z[a] = t[b])
    /\ \A b \in 1 .. k : \E a \in 1 .. Len(z) : z[a] = o[b]
    /\ \A b \in 2 .. Len(t) : \E a \in 1 .. Len(z) : z[a] = t[b]

\* Fulfill puts the children in front of what is left to do.
LEMMA Spliced ==
    ASSUME NEW T, NEW t \in Seq(T), t # <<>>, NEW k \in Nat, NEW o \in [1 .. k -> T]
    PROVE  o \o Tail(t) \in Seq(T) /\ InFront(o \o Tail(t), o, k, t)
<1> DEFINE r == Tail(t)
           z == o \o r
<1>1. o \in Seq(T) /\ Len(o) = k
  OBVIOUS
<1>2. r \in Seq(T) /\ Len(r) = Len(t) - 1 /\ \A b \in 1 .. Len(r) : r[b] = t[b + 1]
  OBVIOUS
<1>3. Len(t) \in Nat /\ Len(t) > 0 /\ Len(r) \in Nat
  BY <1>2
<1> HIDE DEF r
<1>4. /\ z \in Seq(T) /\ Len(z) = k + Len(r)
      /\ \A a \in 1 .. k : z[a] = o[a]
      /\ \A a \in 1 .. Len(r) : z[a + k] = r[a]
  <2>1. /\ z \in Seq(T) /\ Len(z) = Len(o) + Len(r)
        /\ \A a \in 1 .. Len(o) : z[a] = o[a]
        /\ \A a \in 1 .. Len(r) : z[a + Len(o)] = r[a]
    <3>1. o \in Seq(T) /\ r \in Seq(T)
      BY <1>1, <1>2
    <3> QED BY ONLY <3>1, Joined
  <2> HIDE DEF z
  <2> QED BY <1>1, <2>1
<1> HIDE DEF z
<1>5. ASSUME NEW a \in 1 .. Len(z)
      PROVE  (\E b \in 1 .. k : z[a] = o[b]) \/ (\E b \in 2 .. Len(t) : z[a] = t[b])
  <2>1. CASE a \in 1 .. k
    BY <1>4, <2>1
  <2>2. CASE a \notin 1 .. k
    <3>1. a - k \in 1 .. Len(r) /\ (a - k) + k = a /\ (a - k) + 1 \in 2 .. Len(t)
      BY <1>2, <1>3, <1>4, <2>2
    <3>2. z[a] = t[(a - k) + 1]
      BY <1>2, <1>4, <3>1
    <3> QED BY <3>1, <3>2
  <2> QED BY <2>1, <2>2
<1>6. ASSUME NEW b \in 1 .. k PROVE \E a \in 1 .. Len(z) : z[a] = o[b]
  <2>1. b \in 1 .. Len(z)
    BY <1>3, <1>4
  <2> QED BY <1>4, <2>1
<1>7. ASSUME NEW b \in 2 .. Len(t) PROVE \E a \in 1 .. Len(z) : z[a] = t[b]
  <2>1. b - 1 \in 1 .. Len(r) /\ (b - 1) + k \in 1 .. Len(z) /\ (b - 1) + 1 = b
    BY <1>2, <1>3, <1>4
  <2>2. z[(b - 1) + k] = t[b]
    BY <1>2, <1>4, <2>1
  <2> QED BY <2>1, <2>2
<1>8. z \in Seq(T) /\ InFront(z, o, k, t)
  BY <1>4, <1>5, <1>6, <1>7 DEF InFront
<1> QED BY <1>8 DEF z, r

-----------------------------------------------------------------------------
LEMMA LogIds ==
    ASSUME LogConstants, LogTypes
    PROVE  /\ 1 .. made \subseteq Ids /\ 0 \notin Ids /\ Root = 1 /\ Root \in Ids /\ made \in Nat
           /\ Ids \subseteq Nat
           /\ \A j : Complete(j, made, user) => j \in Ids /\ j \in 1 .. made
BY DEF LogConstants, LogTypes, TypeOK, Ids, Root, Complete

\* RLock and GiveUp: one user takes or leaves a lock.
LEMMA LockStep ==
    ASSUME LogConstants, LogInv, LogTypes', NEW u \in Users,
           UNCHANGED <<made, logger, promise, kids, tag, want, wasSet, setter, todo, called>>,
           user[u].new = 0, user'[u].new = 0, user'[u].pc \in {"idle", "locked"},
           user'[u].pc = "locked" => Complete(user'[u].from, made, user) /\ u \in rlocks'[user'[u].from],
           \A v \in Users : v = u \/ user'[v] = user[v],
           \A v \in Users, j \in Ids : v = u \/ v \notin rlocks[j] \/ v \in rlocks'[j]
    PROVE  LogInv'
<1>1. \A v \in Users : user'[v].new = user[v].new
  OBVIOUS
<1>2. \A j : Complete(j, made', user') <=> Complete(j, made, user)
  BY <1>1 DEF Complete
<1>3. 1 .. made \subseteq Ids /\ 0 \notin Ids /\ \A j : Complete(j, made, user) => j \in Ids
  BY LogIds DEF LogInv
<1>4. LogDoing'
  <2>1. ASSUME NEW v \in Users
        PROVE  /\ user'[v].pc \in {"idle", "locked"} => user'[v].new = 0
               /\ user'[v].pc \in {"locked", "added"} => Complete(user'[v].from, made', user') /\ v \in rlocks'[user'[v].from]
               /\ user'[v].pc = "added" => /\ user'[v].new \in 2 .. made' /\ ~ promise'[user'[v].new]
                                           /\ tag'[user'[v].new] \in Tags
                                           /\ user'[v].new \in kids'[user'[v].from] => promise'[user'[v].from]
    <3>1. CASE v = u
      BY <1>2, <3>1
    <3>2. CASE v # u
      <4>1. user'[v] = user[v]
        BY <3>2
      <4>2. user[v].pc \in {"locked", "added"} => Complete(user[v].from, made, user) /\ v \in rlocks[user[v].from]
        BY DEF LogInv, LogUsers, LogDoing
      <4> QED BY <1>2, <1>3, <3>2, <4>1, <4>2 DEF LogInv, LogUsers, LogDoing
    <3> QED BY <3>1, <3>2
  <2> QED BY <2>1 DEF LogDoing
<1>5. LogMakers' /\ LogPromised'
  BY <1>1, <1>2 DEF LogInv, LogUsers, LogMakers, LogPromised
<1>6. LogKids'
  <2>1. ASSUME NEW q \in Ids, NEW n \in kids'[q]
        PROVE  /\ q \in 1 .. made' /\ n \in 1 .. made' /\ q < n /\ tag'[n] \in Tags
               /\ want'[n] = Append(want'[q], tag'[n])
               /\ \A v \in Users : user'[v].new = n => user'[v].from = q
    <3>1. /\ q \in 1 .. made /\ n \in 1 .. made /\ q < n /\ tag[n] \in Tags
          /\ want[n] = Append(want[q], tag[n])
          /\ \A v \in Users : user[v].new = n => user[v].from = q
      BY DEF LogInv, LogUsers, LogKids
    <3>2. n # 0
      BY <3>1
    <3> QED BY <3>1, <3>2
  <2> QED BY <2>1 DEF LogKids
<1>7. LogPending' /\ LogSetter'
  BY DEF LogInv, LogPending, LogSetter
<1>8. \A i \in 1 .. made :
        (\E v \in Users : user[v].new = i /\ i \in kids[user[v].from])
          => \E v \in Users : user'[v].new = i /\ i \in kids[user'[v].from]
  BY <1>3
<1>9. LogValues'
  BY <1>2, <1>8 DEF LogInv, LogValues
<1> QED BY <1>4, <1>5, <1>6, <1>7, <1>9 DEF LogInv, LogUsers

LEMMA RLockStep ==
    ASSUME LogConstants, LogInv, NEW u \in Users, NEW i \in Ids, RLock(u, i)
    PROVE  LogInv'
<1> DEFINE new == [pc |-> "locked", from |-> i, new |-> 0]
<1>1. /\ UNCHANGED <<made, logger, promise, kids, tag, want, wasSet, setter, todo, called>>
      /\ user[u] = Idle /\ i \in Known
      /\ rlocks' = [rlocks EXCEPT ![i] = @ \cup {u}]
      /\ user' = [user EXCEPT ![u] = new]
  BY DEF RLock
<1>2. LogTypes
  BY DEF LogInv
<1>3. new \in [pc : {"idle", "locked", "added"}, from : 0 .. MaxLoggers, new : 0 .. MaxLoggers]
  BY DEF LogConstants, Ids
<1>4. LogTypes'
  BY <1>1, <1>2, <1>3 DEF LogTypes, TypeOK
<1>5. /\ user'[u].new = 0 /\ user[u].new = 0 /\ user'[u].pc = "locked" /\ user'[u].from = i
      /\ \A v \in Users : v = u \/ user'[v] = user[v]
  BY <1>1, <1>2 DEF Idle, LogTypes, TypeOK
<1>6. u \in rlocks'[i] /\ \A j \in Ids : rlocks[j] \subseteq rlocks'[j]
  BY <1>1, <1>2 DEF LogTypes, TypeOK
<1>7. Complete(i, made, user)
  BY <1>1 DEF Known, Complete
<1> QED BY <1>1, <1>4, <1>5, <1>6, <1>7, LockStep

LEMMA GiveUpStep ==
    ASSUME LogConstants, LogInv, NEW u \in Users, GiveUp(u)
    PROVE  LogInv'
<1> DEFINE i == user[u].from
<1>1. /\ UNCHANGED <<made, logger, promise, kids, tag, want, wasSet, setter, todo, called>>
      /\ user[u].pc = "locked"
      /\ rlocks' = [rlocks EXCEPT ![i] = @ \ {u}]
      /\ user' = [user EXCEPT ![u] = Idle]
  BY DEF GiveUp
<1>2. LogTypes
  BY DEF LogInv
<1>3. Idle \in [pc : {"idle", "locked", "added"}, from : 0 .. MaxLoggers, new : 0 .. MaxLoggers]
  BY DEF LogConstants, Idle
<1>4. LogTypes'
  BY <1>1, <1>2, <1>3 DEF LogTypes, TypeOK
<1>5. user[u].new = 0
  BY <1>1 DEF LogInv, LogUsers, LogDoing
<1>6. /\ user'[u].new = 0 /\ user'[u].pc = "idle"
      /\ \A v \in Users : v = u \/ user'[v] = user[v]
  BY <1>1, <1>2 DEF Idle, LogTypes, TypeOK
<1>7. \A v \in Users, j \in Ids : v = u \/ v \notin rlocks[j] \/ v \in rlocks'[j]
  BY <1>1, <1>2 DEF LogTypes, TypeOK
<1> QED BY <1>1, <1>4, <1>5, <1>6, <1>7, LockStep

LEMMA DeriveStep ==
    ASSUME LogConstants, LogInv, NEW u \in Users, NEW t \in Tags, Derive(u, t)
    PROVE  LogInv'
<1> DEFINE i == user[u].from
           n == made + 1
           new == [pc |-> "added", from |-> i, new |-> n]
           own == IF promise[i] THEN logger[i] ELSE With(logger[i], t)
<1>1. /\ user[u].pc = "locked" /\ made < MaxLoggers /\ made' = n
      /\ want' = [want EXCEPT ![n] = Append(want[i], t)]
      /\ logger' = [logger EXCEPT ![n] = own]
      /\ kids' = IF promise[i] THEN [kids EXCEPT ![i] = @ \cup {n}] ELSE kids
      /\ tag' = [tag EXCEPT ![n] = t]
      /\ user' = [user EXCEPT ![u] = new]
      /\ UNCHANGED <<promise, rlocks, wasSet, setter, todo, called>>
  BY DEF Derive
<1>2. LogTypes /\ LogDoing /\ LogMakers /\ LogKids /\ LogPromised /\ LogPending /\ LogSetter /\ LogValues
  BY DEF LogInv, LogUsers
<1>3. /\ 1 .. made \subseteq Ids /\ 0 \notin Ids /\ Root = 1 /\ Root \in Ids /\ made \in Nat
      /\ Ids \subseteq Nat
      /\ \A j : Complete(j, made, user) => j \in Ids /\ j \in 1 .. made
  BY <1>2, LogIds
<1>4. n \in Ids /\ n \notin 1 .. made /\ n \in 2 .. n /\ n # 1 /\ n \in 0 .. MaxLoggers
  BY <1>1, <1>2 DEF LogTypes, TypeOK, Ids, LogConstants
<1>5. user[u].new = 0 /\ Complete(i, made, user) /\ u \in rlocks[i] /\ i \in Ids /\ i \in 1 .. made
  BY <1>1, <1>2, <1>3 DEF LogDoing
<1>6. t \in Marks /\ logger[i] \in Seq(Marks) /\ want[i] \in Seq(Marks)
  BY <1>2, <1>5 DEF LogTypes, Marks
<1>7. Append(want[i], t) \in Seq(Marks) /\ own \in Seq(Marks)
  <2>1. Null \in Seq(Marks)
    BY DEF Null, Marks
  <2>2. \A w \in Seq(Marks) : Append(w, t) \in Seq(Marks)
    BY <1>6
  <2> QED BY <1>6, <2>1, <2>2 DEF With
<1>8. new \in [pc : {"idle", "locked", "added"}, from : 0 .. MaxLoggers, new : 0 .. MaxLoggers]
  BY <1>4, <1>5 DEF Ids, LogConstants
<1>9. /\ made' \in Ids /\ want' \in [Ids -> Seq(Marks)] /\ tag' \in [Ids -> Tags \cup {None}]
      /\ user' \in [Users -> [pc : {"idle", "locked", "added"}, from : 0 .. MaxLoggers, new : 0 .. MaxLoggers]]
  BY <1>1, <1>2, <1>4, <1>7, <1>8 DEF LogTypes, TypeOK
<1>10. logger' \in [Ids -> Seq(Marks)] /\ logger'[n] = own
  <2> HIDE DEF own
  <2> QED BY <1>1, <1>2, <1>4, <1>7 DEF LogTypes
<1>11. kids' \in [Ids -> SUBSET Ids]
  BY <1>1, <1>2, <1>4, <1>5 DEF LogTypes, TypeOK
<1>12. LogTypes'
  BY <1>1, <1>2, <1>9, <1>10, <1>11 DEF LogTypes, TypeOK
<1>13. /\ user'[u].pc = "added" /\ user'[u].from = i /\ user'[u].new = n
       /\ \A v \in Users : v = u \/ user'[v] = user[v]
  BY <1>1, <1>2 DEF LogTypes, TypeOK
<1>14. /\ want'[n] = Append(want[i], t) /\ tag'[n] = t
       /\ \A j \in Ids : j = n \/ (want'[j] = want[j] /\ tag'[j] = tag[j])
  BY <1>1, <1>2, <1>4 DEF LogTypes
<1>15. \A j \in Ids : j = n \/ logger'[j] = logger[j]
  <2> HIDE DEF own
  <2> QED BY <1>1, <1>2 DEF LogTypes
<1>16. /\ \A q \in Ids : kids[q] \subseteq kids'[q]
       /\ \A q \in Ids : \A m \in kids'[q] : m \in kids[q] \/ (m = n /\ q = i /\ promise[i])
       /\ promise[i] => n \in kids'[i]
  BY <1>1, <1>2, <1>5 DEF LogTypes, TypeOK
<1>17. \A v \in Users : user[v].new = 0 \/ user[v].new \in 2 .. made
  <2>1. \A v \in Users : user[v].pc \in {"idle", "locked", "added"}
    BY <1>2 DEF LogTypes, TypeOK
  <2> QED BY <1>2, <2>1 DEF LogDoing
<1>18. \A v \in Users : user[v].new # n
  <2>1. ASSUME NEW v \in Users PROVE user[v].new # n
    <3>1. CASE user[v].new = 0
      BY <1>3, <1>4, <3>1
    <3>2. CASE user[v].new \in 2 .. made
      BY <1>3, <3>2
    <3> QED BY <1>17, <3>1, <3>2
  <2> QED BY <2>1
<1>19. (\A q \in Ids : n \notin kids[q]) /\ ~ promise[n]
  BY <1>2, <1>3, <1>4 DEF LogKids, LogPromised
<1>20. \A j \in Ids : Complete(j, made', user') <=> Complete(j, made, user)
  <2>1. ASSUME NEW j \in Ids PROVE Complete(j, made', user') <=> Complete(j, made, user)
    <3>1. CASE j = n
      BY <1>4, <1>13, <3>1 DEF Complete
    <3>2. CASE j # n
      <4>1. j \in 1 .. made' <=> j \in 1 .. made
        BY <1>1, <1>3, <3>2
      <4>2. \A v \in Users : user'[v].new = j <=> user[v].new = j
        BY <1>3, <1>5, <1>13, <3>2
      <4> QED BY <4>1, <4>2 DEF Complete
    <3> QED BY <3>1, <3>2
  <2> QED BY <2>1
<1> HIDE DEF n, i, own, new
<1>21. LogDoing'
  <2>1. ASSUME NEW v \in Users
        PROVE  /\ user'[v].pc \in {"idle", "locked"} => user'[v].new = 0
               /\ user'[v].pc \in {"locked", "added"} => Complete(user'[v].from, made', user') /\ v \in rlocks'[user'[v].from]
               /\ user'[v].pc = "added" => /\ user'[v].new \in 2 .. made' /\ ~ promise'[user'[v].new]
                                           /\ tag'[user'[v].new] \in Tags
                                           /\ user'[v].new \in kids'[user'[v].from] => promise'[user'[v].from]
    <3>1. CASE v = u
      <4>1. n \in kids'[i] => promise[i]
        BY <1>5, <1>16, <1>19
      <4>2. Complete(user'[v].from, made', user') /\ v \in rlocks'[user'[v].from] /\ user'[v].pc = "added"
        BY <1>1, <1>5, <1>13, <1>20, <3>1
      <4>3. user'[v].new \in 2 .. made' /\ ~ promise'[user'[v].new] /\ tag'[user'[v].new] \in Tags
        BY <1>1, <1>4, <1>13, <1>14, <1>19, <3>1
      <4>4. user'[v].new \in kids'[user'[v].from] => promise'[user'[v].from]
        BY <1>1, <1>13, <3>1, <4>1
      <4> QED BY <4>2, <4>3, <4>4
    <3>2. CASE v # u
      <4>1. user'[v] = user[v] /\ user[v].new # n
        BY <1>13, <1>18, <3>2
      <4>2. user[v].pc \in {"locked", "added"} =>
              Complete(user[v].from, made, user) /\ v \in rlocks[user[v].from] /\ user[v].from \in Ids
        BY <1>2, <1>3 DEF LogDoing
      <4>3. user[v].pc = "added" => /\ user[v].new \in 2 .. made /\ ~ promise[user[v].new]
                                    /\ tag[user[v].new] \in Tags
                                    /\ user[v].new \in kids[user[v].from] => promise[user[v].from]
        BY <1>2 DEF LogDoing
      <4>4. user[v].new \in 2 .. made => user[v].new \in Ids /\ user[v].new \in 2 .. made'
        BY <1>1, <1>3 DEF n
      <4>5. user[v].pc \in {"idle", "locked"} => user[v].new = 0
        BY <1>2 DEF LogDoing
      <4> QED BY <1>1, <1>14, <1>16, <1>20, <4>1, <4>2, <4>3, <4>4, <4>5
    <3> QED BY <3>1, <3>2
  <2> QED BY <2>1 DEF LogDoing
<1>22. LogMakers'
  BY <1>2, <1>13, <1>18 DEF LogMakers
<1>23. LogPromised'
  BY <1>1, <1>2, <1>20 DEF LogPromised
<1>24. LogKids'
  <2>1. ASSUME NEW q \in Ids, NEW m \in kids'[q]
        PROVE  /\ q \in 1 .. made' /\ m \in 1 .. made' /\ q < m /\ tag'[m] \in Tags
               /\ want'[m] = Append(want'[q], tag'[m])
               /\ \A v \in Users : user'[v].new = m => user'[v].from = q
    <3>1. CASE m \in kids[q]
      <4>1. /\ q \in 1 .. made /\ m \in 1 .. made /\ q < m /\ tag[m] \in Tags
            /\ want[m] = Append(want[q], tag[m])
            /\ \A v \in Users : user[v].new = m => user[v].from = q
        BY <1>2, <3>1 DEF LogKids
      <4>2. q # n /\ m # n /\ m # 0 /\ m \in Ids /\ q \in 1 .. made' /\ m \in 1 .. made'
        BY <1>1, <1>3, <1>4, <4>1 DEF n
      <4> QED BY <1>13, <1>14, <4>1, <4>2
    <3>2. CASE m \notin kids[q]
      <4>1. m = n /\ q = i
        BY <1>16, <3>2
      <4>2. i # n /\ i < n /\ i \in 1 .. made' /\ n \in 1 .. made'
        BY <1>1, <1>3, <1>4, <1>5 DEF n
      <4>3. \A v \in Users : user'[v].new = n => v = u
        BY <1>13, <1>18
      <4> QED BY <1>5, <1>13, <1>14, <4>1, <4>2, <4>3
    <3> QED BY <3>1, <3>2
  <2> QED BY <2>1 DEF LogKids
<1>25. LogPending'
  BY <1>1, <1>2, <1>16 DEF LogPending
<1>26. LogSetter'
  BY <1>1, <1>2 DEF LogSetter
<1>27. LogValues'
  <2>1. /\ want[Root] = <<>> /\ logger[Root] \in Bases
        /\ want'[Root] = want[Root] /\ logger'[Root] = logger[Root]
    BY <1>2, <1>3, <1>4, <1>14, <1>15 DEF LogValues
  <2>2. ASSUME NEW j \in 1 .. made'
        PROVE  \/ promise'[j]
               \/ \E v \in Users : user'[v].new = j /\ j \in kids'[user'[v].from]
               \/ ~ promise'[Root] /\ logger'[j] = Applied(logger'[Root], want'[j])
    <3>1. CASE j = n
      <4>1. CASE promise[i]
        BY <1>13, <1>16, <3>1, <4>1
      <4>2. CASE ~ promise[i]
        <5>1. ~ promise[Root] /\ logger[i] = Applied(logger[Root], want[i])
          BY <1>2, <1>5, <4>2 DEF LogValues, Complete
        <5>2. logger'[n] = With(logger[i], t)
          BY <1>10, <4>2 DEF own
        <5>3. With(Applied(logger[Root], want[i]), t) = Applied(logger[Root], Append(want[i], t))
          BY <1>6, <2>1, AppliedWith
        <5> QED BY <1>1, <1>14, <2>1, <3>1, <5>1, <5>2, <5>3
      <4> QED BY <4>1, <4>2
    <3>2. CASE j # n
      <4>1. j \in 1 .. made /\ j \in Ids /\ j # 0
        BY <1>1, <1>3, <3>2 DEF n
      <4>2. logger'[j] = logger[j] /\ want'[j] = want[j]
        BY <1>14, <1>15, <3>2, <4>1
      <4>3. ASSUME NEW v \in Users, user[v].new = j, j \in kids[user[v].from]
            PROVE  user'[v].new = j /\ j \in kids'[user'[v].from]
        <5>1. v # u /\ user'[v] = user[v]
          BY <1>5, <1>13, <4>1, <4>3
        <5>2. user[v].pc \in {"locked", "added"}
          <6>1. user[v].pc \in {"idle", "locked", "added"}
            BY <1>2 DEF LogTypes, TypeOK
          <6> QED BY <1>2, <4>1, <4>3, <6>1 DEF LogDoing
        <5>3. user[v].from \in Ids
          BY <1>2, <1>3, <5>2 DEF LogDoing
        <5> QED BY <1>16, <4>3, <5>1, <5>3
      <4>4. \/ promise[j]
            \/ \E v \in Users : user[v].new = j /\ j \in kids[user[v].from]
            \/ ~ promise[Root] /\ logger[j] = Applied(logger[Root], want[j])
        BY <1>2, <4>1 DEF LogValues
      <4> QED BY <1>1, <2>1, <4>2, <4>3, <4>4
    <3> QED BY <3>1, <3>2
  <2>3. ASSUME NEW a \in 1 .. Len(todo'), todo'[a].id # Root
        PROVE  /\ ~ promise'[Root] /\ Complete(todo'[a].id, made', user')
               /\ \E q \in Ids : todo'[a].id \in kids'[q]
                                    /\ todo'[a].parent = Applied(logger'[Root], want'[q])
    <3>1. /\ ~ promise[Root] /\ Complete(todo[a].id, made, user)
          /\ \E q \in Ids : todo[a].id \in kids[q]
                               /\ todo[a].parent = Applied(logger[Root], want[q])
      BY <1>1, <1>2, <2>3 DEF LogValues
    <3>2. PICK q \in Ids : todo[a].id \in kids[q] /\ todo[a].parent = Applied(logger[Root], want[q])
      BY <3>1
    <3>3. q # n /\ want'[q] = want[q]
      BY <1>2, <1>4, <1>14, <3>2 DEF LogKids
    <3>4. todo[a].id \in Ids
      BY <1>3, <3>1
    <3> QED BY <1>1, <1>16, <1>20, <2>1, <3>1, <3>2, <3>3, <3>4
  <2> QED BY <2>1, <2>2, <2>3 DEF LogValues
<1> QED BY <1>12, <1>21, <1>22, <1>23, <1>24, <1>25, <1>26, <1>27 DEF LogInv, LogUsers

LEMMA DerivedStep ==
    ASSUME LogConstants, LogInv, NEW u \in Users, Derived(u)
    PROVE  LogInv'
<1> DEFINE i == user[u].from
           n == user[u].new
<1>1. /\ user[u].pc = "added"
      /\ promise' = [promise EXCEPT ![n] = n \in kids[i]]
      /\ rlocks' = [rlocks EXCEPT ![i] = @ \ {u}]
      /\ user' = [user EXCEPT ![u] = Idle]
      /\ UNCHANGED <<made, logger, kids, tag, want, wasSet, setter, todo, called>>
  BY DEF Derived
<1>2. LogTypes /\ LogDoing /\ LogMakers /\ LogKids /\ LogPromised /\ LogPending /\ LogSetter /\ LogValues
  BY DEF LogInv, LogUsers
<1>3. /\ 1 .. made \subseteq Ids /\ 0 \notin Ids /\ Root = 1 /\ Root \in Ids /\ made \in Nat
      /\ Ids \subseteq Nat
      /\ \A j : Complete(j, made, user) => j \in Ids /\ j \in 1 .. made
  BY <1>2, LogIds
<1>4. /\ Complete(i, made, user) /\ n \in 2 .. made /\ ~ promise[n] /\ i \in Ids
      /\ n \in kids[i] => promise[i]
  BY <1>1, <1>2, <1>3 DEF LogDoing
<1>5. n \in Ids /\ n # Root /\ n # 0 /\ n \in 1 .. made
  BY <1>3, <1>4
<1>6. ~ Complete(n, made, user) /\ i # n
  BY <1>4 DEF Complete
<1>7. Idle \in [pc : {"idle", "locked", "added"}, from : 0 .. MaxLoggers, new : 0 .. MaxLoggers]
  BY DEF LogConstants, Idle
<1>8. LogTypes'
  <2>1. promise' \in [Ids -> BOOLEAN]
    <3>1. promise \in [Ids -> BOOLEAN] /\ (n \in kids[i]) \in BOOLEAN
      BY <1>2 DEF LogTypes, TypeOK
    <3> QED BY ONLY <1>1, <3>1, Zenon
  <2> QED BY <1>1, <1>2, <1>7, <2>1 DEF LogTypes, TypeOK
<1>9. /\ user'[u].new = 0 /\ user'[u].pc = "idle"
      /\ \A v \in Users : v = u \/ (user'[v] = user[v] /\ user[v].new # n)
  <2>1. /\ user'[u].new = 0 /\ user'[u].pc = "idle"
        /\ \A v \in Users : v = u \/ user'[v] = user[v]
    BY <1>1, <1>2 DEF Idle, LogTypes, TypeOK
  <2> QED BY <1>2, <1>5, <2>1 DEF LogMakers
<1>10. \A v \in Users, j \in Ids : v = u \/ v \notin rlocks[j] \/ v \in rlocks'[j]
  BY <1>1, <1>2 DEF LogTypes, TypeOK
<1>11. /\ promise'[n] <=> n \in kids[i]
       /\ \A j \in Ids : j = n \/ (promise'[j] <=> promise[j])
  <2>1. promise \in [Ids -> BOOLEAN]
    BY <1>2 DEF LogTypes, TypeOK
  <2>2. promise'[n] = (n \in kids[i]) /\ \A j \in Ids : j = n \/ promise'[j] = promise[j]
    BY ONLY <1>1, <1>5, <2>1, Zenon
  <2> QED BY <2>2, Zenon
<1>12. Complete(n, made', user') /\ \A j : Complete(j, made, user) => Complete(j, made', user')
  <2>1. \A v \in Users : user'[v].new # n
    BY <1>5, <1>9
  <2>2. ASSUME NEW j, Complete(j, made, user) PROVE Complete(j, made', user')
    <3>1. j # 0
      BY <1>3, <2>2
    <3> QED BY <1>1, <1>9, <2>2, <3>1 DEF Complete
  <2> QED BY <1>1, <1>5, <2>1, <2>2 DEF Complete
<1> HIDE DEF n, i
<1>13. LogDoing'
  <2>1. ASSUME NEW v \in Users
        PROVE  /\ user'[v].pc \in {"idle", "locked"} => user'[v].new = 0
               /\ user'[v].pc \in {"locked", "added"} => Complete(user'[v].from, made', user') /\ v \in rlocks'[user'[v].from]
               /\ user'[v].pc = "added" => /\ user'[v].new \in 2 .. made' /\ ~ promise'[user'[v].new]
                                           /\ tag'[user'[v].new] \in Tags
                                           /\ user'[v].new \in kids'[user'[v].from] => promise'[user'[v].from]
    <3>1. CASE v = u
      BY <1>9, <3>1
    <3>2. CASE v # u
      <4>1. user'[v] = user[v] /\ user[v].new # n
        BY <1>9, <3>2
      <4>2. user[v].pc \in {"locked", "added"} =>
              Complete(user[v].from, made, user) /\ v \in rlocks[user[v].from] /\ user[v].from \in Ids
        BY <1>2, <1>3 DEF LogDoing
      <4>3. user[v].pc \in {"locked", "added"} =>
              Complete(user[v].from, made', user') /\ v \in rlocks'[user[v].from] /\ user[v].from # n
        BY <1>6, <1>10, <1>12, <3>2, <4>2
      <4>4. user[v].pc = "added" => /\ user[v].new \in 2 .. made /\ ~ promise[user[v].new]
                                    /\ tag[user[v].new] \in Tags
                                    /\ user[v].new \in kids[user[v].from] => promise[user[v].from]
        BY <1>2 DEF LogDoing
      <4>5. user[v].new \in 2 .. made => user[v].new \in Ids
        BY <1>3
      <4>6. user[v].pc = "added" => /\ ~ promise'[user[v].new]
                                    /\ user[v].new \in kids[user[v].from] => promise'[user[v].from]
        BY <1>11, <4>1, <4>2, <4>3, <4>4, <4>5
      <4>7. user[v].pc \in {"idle", "locked"} => user[v].new = 0
        BY <1>2 DEF LogDoing
      <4> QED BY <1>1, <4>1, <4>3, <4>4, <4>6, <4>7
    <3> QED BY <3>1, <3>2
  <2> QED BY <2>1 DEF LogDoing
<1>14. LogMakers'
  BY <1>2, <1>9 DEF LogMakers
<1>15. LogPromised'
  BY <1>2, <1>11, <1>12 DEF LogPromised
<1>16. LogKids'
  <2>1. ASSUME NEW q \in Ids, NEW m \in kids'[q]
        PROVE  /\ q \in 1 .. made' /\ m \in 1 .. made' /\ q < m /\ tag'[m] \in Tags
               /\ want'[m] = Append(want'[q], tag'[m])
               /\ \A v \in Users : user'[v].new = m => user'[v].from = q
    <3>1. /\ q \in 1 .. made /\ m \in 1 .. made /\ q < m /\ tag[m] \in Tags
          /\ want[m] = Append(want[q], tag[m])
          /\ \A v \in Users : user[v].new = m => user[v].from = q
      BY <1>1, <1>2 DEF LogKids
    <3>2. m # 0
      BY <3>1
    <3> QED BY <1>1, <1>9, <3>1, <3>2
  <2> QED BY <2>1 DEF LogKids
<1>17. LogPending'
  <2>1. ASSUME NEW j \in Ids, promise'[j], j # Root
        PROVE  \/ \E a \in 1 .. Len(todo') : todo'[a].id = j
               \/ \E q \in Ids : j \in kids'[q] /\ promise'[q]
    <3>1. CASE j = n
      BY <1>1, <1>4, <1>6, <1>11, <2>1, <3>1
    <3>2. CASE j # n
      <4>1. \/ \E a \in 1 .. Len(todo) : todo[a].id = j
            \/ \E q \in Ids : j \in kids[q] /\ promise[q]
        BY <1>2, <1>11, <2>1, <3>2 DEF LogPending
      <4>2. \A q \in Ids : promise[q] => promise'[q]
        BY <1>4, <1>11
      <4> QED BY <1>1, <4>1, <4>2
    <3> QED BY <3>1, <3>2
  <2> QED BY <2>1 DEF LogPending
<1>18. LogSetter'
  BY <1>1, <1>2, <1>3, <1>5, <1>11 DEF LogSetter
<1>19. LogValues'
  <2>1. ASSUME NEW j \in 1 .. made'
        PROVE  \/ promise'[j]
               \/ \E v \in Users : user'[v].new = j /\ j \in kids'[user'[v].from]
               \/ ~ promise'[Root] /\ logger'[j] = Applied(logger'[Root], want'[j])
    <3>1. /\ j \in Ids
          /\ \/ promise[j]
             \/ \E v \in Users : user[v].new = j /\ j \in kids[user[v].from]
             \/ ~ promise[Root] /\ logger[j] = Applied(logger[Root], want[j])
      BY <1>1, <1>2, <1>3 DEF LogValues
    <3>2. promise'[Root] <=> promise[Root]
      BY <1>3, <1>5, <1>11
    <3>3. CASE j = n
      <4>1. CASE n \in kids[i]
        BY <1>11, <3>3, <4>1
      <4>2. CASE n \notin kids[i]
        <5>1. \A v \in Users : user[v].new = n => user[v].from = i
          BY <1>9 DEF i
        <5> QED BY <1>1, <1>4, <3>1, <3>2, <3>3, <4>2, <5>1
      <4> QED BY <4>1, <4>2
    <3>4. CASE j # n
      <4>1. \A v \in Users : user[v].new = j => user'[v] = user[v]
        BY <1>9, <3>4 DEF n
      <4> QED BY <1>1, <1>11, <3>1, <3>2, <3>4, <4>1
    <3> QED BY <3>3, <3>4
  <2>2. ASSUME NEW a \in 1 .. Len(todo'), todo'[a].id # Root
        PROVE  /\ ~ promise'[Root] /\ Complete(todo'[a].id, made', user')
               /\ \E q \in Ids : todo'[a].id \in kids'[q]
                                    /\ todo'[a].parent = Applied(logger'[Root], want'[q])
    <3>1. /\ ~ promise[Root] /\ Complete(todo[a].id, made, user)
          /\ \E q \in Ids : todo[a].id \in kids[q]
                               /\ todo[a].parent = Applied(logger[Root], want[q])
      BY <1>1, <1>2, <2>2 DEF LogValues
    <3> QED BY <1>1, <1>3, <1>5, <1>11, <1>12, <3>1
  <2>3. want'[Root] = <<>> /\ logger'[Root] \in Bases
    BY <1>1, <1>2 DEF LogValues
  <2> QED BY <2>1, <2>2, <2>3 DEF LogValues
<1> QED BY <1>8, <1>13, <1>14, <1>15, <1>16, <1>17, <1>18, <1>19 DEF LogInv, LogUsers

\* SetLogger leaves the users alone.
LEMMA UsersStay ==
    ASSUME LogUsers, UNCHANGED <<made, logger, promise, kids, tag, want, rlocks, user>>
    PROVE  LogUsers'
<1>1. LogDoing' /\ LogPromised'
  BY DEF LogUsers, LogDoing, LogPromised
<1>2. LogMakers' /\ LogKids'
  BY DEF LogUsers, LogMakers, LogKids
<1> QED BY <1>1, <1>2 DEF LogUsers

LEMMA SetLoggerStep ==
    ASSUME LogConstants, LogInv, NEW s \in Setters, SetLogger(s)
    PROVE  LogInv'
<1> DEFINE p == [id |-> Root, parent |-> IF s = Timer THEN Null ELSE <<s>>]
<1>1. /\ setter = None
      /\ wasSet' = (wasSet \/ s # Timer)
      /\ UNCHANGED <<made, logger, promise, kids, tag, want, rlocks, user>>
  BY DEF SetLogger
<1>2. LogTypes /\ LogUsers /\ LogPending /\ LogSetter /\ LogValues
  BY DEF LogInv
<1>3. LogUsers'
  BY <1>1, <1>2, UsersStay
<1>4. Root \in Ids /\ todo = <<>> /\ (called # {} => ~ promise[Root])
  BY <1>1, <1>2, LogIds DEF LogSetter
<1>5. CASE promise[Root] /\ (s # Timer \/ ~ wasSet)
  <2>1. setter' = s /\ todo' = <<p>> /\ called' = called
    BY <1>5 DEF SetLogger
  <2>2. p.id = Root /\ p.parent \in Bases /\ p.parent \in Seq(Marks)
    <3>1. CASE s = Timer
      BY <3>1 DEF Bases, Marks, Null
    <3>2. CASE s # Timer
      BY <3>2 DEF Bases, Marks
    <3> QED BY <3>1, <3>2
  <2>3. p \in [id : Ids, parent : Seq(Marks)]
    BY <1>4, <2>2
  <2>4. s # None /\ called = {}
    BY <1>4, <1>5 DEF LogConstants
  <2> HIDE DEF p
  <2>5. todo' \in Seq([id : Ids, parent : Seq(Marks)]) /\ Len(todo') = 1 /\ todo'[1] = p
    BY <2>1, <2>3
  <2>6. LogTypes'
    BY <1>1, <1>2, <2>1, <2>5 DEF LogTypes, TypeOK
  <2>7. LogPending'
    <3>1. 1 .. Len(todo) = {}
      BY <1>4
    <3> QED BY <1>1, <1>2, <3>1 DEF LogPending
  <2>8. LogSetter'
    BY <1>1, <1>5, <2>1, <2>2, <2>4, <2>5 DEF LogSetter
  <2>9. \A a \in 1 .. Len(todo') : todo'[a].id = Root
    BY <2>2, <2>5
  <2>10. LogValues'
    BY <1>1, <1>2, <2>9 DEF LogValues
  <2> QED BY <1>3, <2>6, <2>7, <2>8, <2>10 DEF LogInv
<1>6. CASE ~ (promise[Root] /\ (s # Timer \/ ~ wasSet))
  <2>1. called' = called \cup {s} /\ setter' = setter /\ todo' = todo
    BY <1>6 DEF SetLogger
  <2>2. ~ promise[Root]
    BY <1>1, <1>2, <1>6 DEF LogSetter
  <2>3. LogTypes'
    BY <1>1, <1>2, <2>1 DEF LogTypes, TypeOK
  <2>4. LogSetter'
    <3>1. 1 .. Len(todo) = {}
      BY <1>4
    <3> QED BY <1>1, <1>4, <2>1, <2>2, <3>1 DEF LogSetter
  <2>5. LogPending' /\ LogValues'
    BY <1>1, <1>2, <2>1 DEF LogPending, LogValues
  <2> QED BY <1>3, <2>3, <2>4, <2>5 DEF LogInv
<1> QED BY <1>5, <1>6

LEMMA SetLoggerReturnsStep ==
    ASSUME LogConstants, LogInv, SetLoggerReturns
    PROVE  LogInv'
<1>1. /\ setter # None /\ todo = <<>> /\ called' = called \cup {setter} /\ setter' = None
      /\ UNCHANGED <<made, logger, promise, kids, tag, want, rlocks, user, wasSet, todo>>
  BY DEF SetLoggerReturns
<1>2. LogTypes /\ LogUsers /\ LogPending /\ LogSetter /\ LogValues
  BY DEF LogInv
<1>3. ~ promise[Root]
  BY <1>1, <1>2 DEF LogSetter
<1>4. LogTypes'
  BY <1>1, <1>2 DEF LogTypes, TypeOK
<1>5. LogUsers'
  BY <1>1, <1>2, UsersStay
<1>6. LogSetter'
  <2>1. 1 .. Len(todo) = {}
    BY <1>1
  <2> QED BY <1>1, <1>3, <2>1 DEF LogSetter
<1>7. LogPending' /\ LogValues'
  BY <1>1, <1>2 DEF LogPending, LogValues
<1> QED BY <1>4, <1>5, <1>6, <1>7 DEF LogInv

LEMMA SortedMeans ==
    ASSUME LogConstants, NEW S, NEW q \in Sorted(S)
    PROVE  \E k \in Nat : q \in [1 .. k -> S] /\ \A m \in S : \E b \in 1 .. k : m = q[b]
<1>1. PICK k \in 0 .. MaxLoggers : q \in [1 .. k -> S]
  BY DEF Sorted
<1>2. k \in Nat /\ DOMAIN q = 1 .. k
  BY <1>1 DEF LogConstants
<1>3. S = {q[a] : a \in DOMAIN q}
  BY Zenon DEF Sorted
<1> QED BY <1>1, <1>2, <1>3

LEMMA FulfillStep ==
    ASSUME LogConstants, LogInv, Fulfill
    PROVE  LogInv'
<1> DEFINE p == todo[1]
           i == p.id
           real == IF i = Root THEN p.parent ELSE With(p.parent, tag[i])
           T == [id : Ids, parent : Seq(Marks)]
<1>1. /\ todo # <<>> /\ rlocks[i] = {}
      /\ logger' = [logger EXCEPT ![i] = real]
      /\ promise' = [promise EXCEPT ![i] = FALSE]
      /\ \E order \in Sorted(kids[i]) :
           todo' = [a \in DOMAIN order |-> [id |-> order[a], parent |-> real]] \o Tail(todo)
      /\ UNCHANGED <<made, kids, tag, want, rlocks, user, wasSet, setter, called>>
  BY DEF Fulfill
<1>2. LogTypes /\ LogDoing /\ LogMakers /\ LogKids /\ LogPromised /\ LogPending /\ LogSetter /\ LogValues
  BY DEF LogInv, LogUsers
<1>3. /\ 1 .. made \subseteq Ids /\ 0 \notin Ids /\ Root = 1 /\ Root \in Ids /\ made \in Nat
      /\ Ids \subseteq Nat
      /\ \A j : Complete(j, made, user) => j \in Ids /\ j \in 1 .. made
  BY <1>2, LogIds
<1>4. todo \in Seq(T) /\ Len(todo) \in Nat /\ 1 \in 1 .. Len(todo)
  BY <1>1, <1>2 DEF LogTypes
<1>5. p \in T /\ i \in Ids /\ p.parent \in Seq(Marks)
  <2>1. p \in T
    <3> HIDE DEF T
    <3> QED BY <1>4
  <2> QED BY <2>1
<1>6. setter # None /\ called = {}
  BY <1>1, <1>2 DEF LogSetter
<1>7. i = Root => promise[Root] /\ Len(todo) = 1 /\ p.parent \in Bases
  BY <1>2, <1>4, <1>6 DEF LogSetter
<1>8. i # Root => /\ ~ promise[Root] /\ Complete(i, made, user)
                    /\ \E q \in Ids : i \in kids[q] /\ p.parent = Applied(logger[Root], want[q])
  BY <1>2, <1>4 DEF LogValues
<1>9. Complete(i, made, user)
  BY <1>2, <1>3, <1>7, <1>8 DEF LogPromised
<1>10. \A m \in kids[i] : Complete(m, made, user) /\ m # Root /\ m \in Ids
  <2>1. ASSUME NEW m \in kids[i], NEW v \in Users, user[v].new = m PROVE FALSE
    <3>1. m # 0 /\ user[v].from = i
      BY <1>2, <1>5, <2>1 DEF LogKids
    <3>2. user[v].pc \in {"idle", "locked", "added"}
      BY <1>2 DEF LogTypes, TypeOK
    <3>3. user[v].pc = "added"
      BY <1>2, <2>1, <3>1, <3>2 DEF LogDoing
    <3>4. v \in rlocks[i]
      BY <1>2, <3>1, <3>3 DEF LogDoing
    <3> QED BY <1>1, <3>4
  <2>2. ASSUME NEW m \in kids[i] PROVE m \in 1 .. made /\ i < m
    BY <1>2, <1>5 DEF LogKids
  <2>3. ASSUME NEW m \in kids[i] PROVE m # 1
    BY <1>3, <1>9, <2>2
  <2> QED BY <1>3, <2>1, <2>2, <2>3 DEF Complete
<1>11. /\ logger' \in [Ids -> Seq(Marks)] /\ real \in Seq(Marks) /\ logger'[i] = real
       /\ \A j \in Ids : j = i \/ logger'[j] = logger[j]
       /\ logger'[Root] \in Bases /\ real = Applied(logger'[Root], want[i])
  <2>1. want[Root] = <<>> /\ logger[Root] \in Bases /\ want \in [Ids -> Seq(Marks)]
        /\ logger \in [Ids -> Seq(Marks)]
    BY <1>2 DEF LogValues, LogTypes
  <2>2. CASE i = Root
    <3>1. real = p.parent /\ p.parent \in Bases
      BY <1>7, <2>2
    <3>2. logger'[Root] = real
      BY <1>1, <1>3, <2>1, <2>2
    <3>3. Applied(real, <<>>) = real
      <4>1. <<>> \in Seq(Marks)
        OBVIOUS
      <4> QED BY <3>1, <4>1, AppliedType
    <3> HIDE DEF real
    <3> QED BY <1>1, <1>5, <2>1, <2>2, <3>1, <3>2, <3>3
  <2>3. CASE i # Root
    <3>1. PICK q \in Ids : i \in kids[q] /\ p.parent = Applied(logger[Root], want[q])
      BY <1>8, <2>3
    <3>2. tag[i] \in Marks /\ want[i] = Append(want[q], tag[i]) /\ want[q] \in Seq(Marks)
      BY <1>2, <2>1, <3>1 DEF LogKids, Marks
    <3>3. real = Applied(logger[Root], want[i])
      BY <2>1, <2>3, <3>1, <3>2, AppliedWith
    <3>4. real \in Seq(Marks)
      <4>1. want[i] \in Seq(Marks)
        BY <1>5, <2>1
      <4>2. Applied(logger[Root], want[i]) \in Seq(Marks)
        BY <2>1, <4>1, AppliedType
      <4> HIDE DEF real
      <4> QED BY <3>3, <4>2
    <3> HIDE DEF real
    <3>5. logger'[Root] = logger[Root]
      BY <1>1, <1>3, <2>1, <2>3
    <3> QED BY <1>1, <1>5, <2>1, <3>3, <3>4, <3>5
  <2> QED BY <2>2, <2>3
<1>12. PICK order \in Sorted(kids[i]) :
         todo' = [a \in DOMAIN order |-> [id |-> order[a], parent |-> real]] \o Tail(todo)
  BY <1>1
<1>13. PICK k \in Nat : order \in [1 .. k -> kids[i]] /\ \A m \in kids[i] : \E b \in 1 .. k : m = order[b]
  <2>1. order \in Sorted(kids[i])
    BY <1>12
  <2> QED BY <2>1, SortedMeans
<1> DEFINE o == [a \in 1 .. k |-> [id |-> order[a], parent |-> real]]
<1> HIDE DEF real
<1>15. o \in [1 .. k -> T] /\ todo' = o \o Tail(todo)
  BY <1>10, <1>11, <1>12, <1>13
<1>16. \A b \in 1 .. k : o[b].id = order[b] /\ o[b].parent = real /\ order[b] \in kids[i]
  BY <1>13
<1> HIDE DEF o, T
<1>17. /\ todo' \in Seq(T)
       /\ \A a \in 1 .. Len(todo') : (\E b \in 1 .. k : todo'[a] = o[b]) \/ (\E b \in 2 .. Len(todo) : todo'[a] = todo[b])
       /\ \A b \in 1 .. k : \E a \in 1 .. Len(todo') : todo'[a] = o[b]
       /\ \A b \in 2 .. Len(todo) : \E a \in 1 .. Len(todo') : todo'[a] = todo[b]
  <2>1. todo \in Seq(T) /\ todo # <<>> /\ k \in Nat /\ o \in [1 .. k -> T]
    BY <1>1, <1>4, <1>13, <1>15
  <2>2. o \o Tail(todo) \in Seq(T) /\ InFront(o \o Tail(todo), o, k, todo)
    BY ONLY <2>1, Spliced
  <2>3. todo' \in Seq(T) /\ InFront(todo', o, k, todo)
    BY <1>15, <2>2
  <2> QED BY <2>3 DEF InFront
<1>18. /\ \A a \in 1 .. Len(todo') : \/ todo'[a].id \in kids[i] /\ todo'[a].parent = real
                                     \/ i # Root /\ \E b \in 2 .. Len(todo) : todo'[a] = todo[b]
       /\ \A m \in kids[i] : \E a \in 1 .. Len(todo') : todo'[a].id = m
  <2>1. i = Root => 2 .. Len(todo) = {}
    <3>1. Len(todo) = 1 => 2 .. Len(todo) = {}
      OBVIOUS
    <3> HIDE DEF i
    <3> QED BY <1>7, <3>1
  <2>2. \A m \in kids[i] : \E b \in 1 .. k : m = o[b].id
    BY <1>13, <1>16
  <2>3. ASSUME NEW a \in 1 .. Len(todo')
        PROVE  \/ todo'[a].id \in kids[i] /\ todo'[a].parent = real
               \/ i # Root /\ \E b \in 2 .. Len(todo) : todo'[a] = todo[b]
    <3>1. CASE \E b \in 1 .. k : todo'[a] = o[b]
      BY <1>16, <3>1
    <3>2. CASE \E b \in 2 .. Len(todo) : todo'[a] = todo[b]
      BY <2>1, <3>2
    <3> QED BY <1>17, <3>1, <3>2
  <2>4. ASSUME NEW m \in kids[i] PROVE \E a \in 1 .. Len(todo') : todo'[a].id = m
    <3>1. PICK b \in 1 .. k : m = o[b].id
      BY <2>2
    <3>2. PICK a \in 1 .. Len(todo') : todo'[a] = o[b]
      BY <1>17
    <3> QED BY <3>1, <3>2
  <2> QED BY <2>3, <2>4
<1>19. /\ ~ promise'[i] /\ ~ promise'[Root]
       /\ \A j \in Ids : j = i \/ (promise'[j] <=> promise[j])
       /\ promise' \in [Ids -> BOOLEAN]
  <2>1. promise \in [Ids -> BOOLEAN]
    BY <1>2 DEF LogTypes, TypeOK
  <2>2. /\ promise'[i] = FALSE /\ \A j \in Ids : j = i \/ promise'[j] = promise[j]
        /\ promise' \in [Ids -> BOOLEAN]
    BY ONLY <1>1, <1>5, <2>1, Zenon
  <2>3. \A j \in Ids : j = i \/ (promise'[j] <=> promise[j])
    BY <2>2, Zenon
  <2> QED BY <1>3, <1>8, <2>2, <2>3
<1>20. LogTypes'
  BY <1>1, <1>2, <1>11, <1>17, <1>19 DEF LogTypes, TypeOK, T
<1> HIDE DEF i
<1>21. LogDoing'
  <2>1. ASSUME NEW v \in Users
        PROVE  user[v].pc = "added" => /\ ~ promise'[user[v].new]
                                       /\ user[v].new \in kids[user[v].from] => promise'[user[v].from]
    <3>1. user[v].pc = "added" => /\ user[v].new \in 2 .. made /\ ~ promise[user[v].new]
                                  /\ v \in rlocks[user[v].from] /\ user[v].from \in Ids
                                  /\ user[v].new \in kids[user[v].from] => promise[user[v].from]
      BY <1>2, <1>3 DEF LogDoing
    <3>2. user[v].new \in 2 .. made => user[v].new \in Ids
      BY <1>3
    <3> QED BY <1>1, <1>19, <3>1, <3>2
  <2> QED BY <1>1, <1>2, <2>1 DEF LogDoing
<1>22. LogMakers' /\ LogKids' /\ LogPromised'
  <2>1. LogMakers' /\ LogPromised'
    BY <1>1, <1>2, <1>19 DEF LogMakers, LogPromised
  <2>2. LogKids'
    BY <1>1, <1>2 DEF LogKids
  <2> QED BY <2>1, <2>2
<1>23. LogPending'
  <2>1. ASSUME NEW j \in Ids, promise'[j], j # Root
        PROVE  \/ \E a \in 1 .. Len(todo') : todo'[a].id = j
               \/ \E q \in Ids : j \in kids'[q] /\ promise'[q]
    <3>1. j # i /\ promise[j]
      BY <1>19, <2>1
    <3>2. CASE \E a \in 1 .. Len(todo) : todo[a].id = j
      <4>1. PICK a \in 1 .. Len(todo) : todo[a].id = j
        BY <3>2
      <4>2. a # 1
        BY <3>1, <4>1 DEF i
      <4>3. a \in 2 .. Len(todo)
        BY <1>4, <4>2
      <4> QED BY <1>17, <4>1, <4>3
    <3>3. CASE \E q \in Ids : j \in kids[q] /\ promise[q]
      <4>1. PICK q \in Ids : j \in kids[q] /\ promise[q]
        BY <3>3
      <4>2. CASE q = i
        BY <1>18, <4>1, <4>2
      <4>3. CASE q # i
        BY <1>1, <1>19, <4>1, <4>3
      <4> QED BY <4>2, <4>3
    <3> QED BY <1>2, <2>1, <3>1, <3>2, <3>3 DEF LogPending
  <2> QED BY <2>1 DEF LogPending
<1>24. \A a \in 1 .. Len(todo') : todo'[a].id # Root
  <2>1. ASSUME NEW b \in 2 .. Len(todo), i # Root PROVE todo[b].id # Root
    <3>1. b \in 1 .. Len(todo)
      BY <1>4
    <3> QED BY <1>2, <1>8, <2>1, <3>1 DEF LogSetter
  <2> QED BY <1>10, <1>18, <2>1
<1>25. LogSetter'
  BY <1>1, <1>6, <1>19, <1>24 DEF LogSetter
<1>26. LogValues'
  <2>1. want'[Root] = <<>> /\ logger'[Root] \in Bases
    BY <1>1, <1>2, <1>11 DEF LogValues
  <2>2. i # Root => logger'[Root] = logger[Root]
    BY <1>3, <1>11
  <2>3. ASSUME NEW j \in 1 .. made'
        PROVE  \/ promise'[j]
               \/ \E v \in Users : user'[v].new = j /\ j \in kids'[user'[v].from]
               \/ ~ promise'[Root] /\ logger'[j] = Applied(logger'[Root], want'[j])
    <3>1. /\ j \in Ids
          /\ \/ promise[j]
             \/ \E v \in Users : user[v].new = j /\ j \in kids[user[v].from]
             \/ ~ promise[Root] /\ logger[j] = Applied(logger[Root], want[j])
      BY <1>1, <1>2, <1>3 DEF LogValues
    <3>2. CASE j = i
      BY <1>1, <1>11, <1>19, <3>2
    <3>3. CASE j # i
      BY <1>1, <1>7, <1>11, <1>19, <2>2, <3>1, <3>3
    <3> QED BY <3>2, <3>3
  <2>4. ASSUME NEW a \in 1 .. Len(todo')
        PROVE  /\ ~ promise'[Root] /\ Complete(todo'[a].id, made', user')
               /\ \E q \in Ids : todo'[a].id \in kids'[q]
                                    /\ todo'[a].parent = Applied(logger'[Root], want'[q])
    <3>1. CASE todo'[a].id \in kids[i] /\ todo'[a].parent = real
      BY <1>1, <1>5, <1>10, <1>11, <1>19, <3>1 DEF i
    <3>2. CASE i # Root /\ \E b \in 2 .. Len(todo) : todo'[a] = todo[b]
      <4>1. PICK b \in 2 .. Len(todo) : todo'[a] = todo[b]
        BY <3>2
      <4>2. b \in 1 .. Len(todo) /\ todo[b].id # Root
        BY <1>4, <1>24, <4>1
      <4>3. /\ Complete(todo[b].id, made, user)
            /\ \E q \in Ids : todo[b].id \in kids[q] /\ todo[b].parent = Applied(logger[Root], want[q])
        BY <1>2, <4>2 DEF LogValues
      <4> QED BY <1>1, <1>19, <2>2, <3>2, <4>1, <4>3
    <3> QED BY <1>18, <3>1, <3>2
  <2> QED BY <2>1, <2>3, <2>4 DEF LogValues
<1> QED BY <1>20, <1>21, <1>22, <1>23, <1>25, <1>26 DEF LogInv, LogUsers

-----------------------------------------------------------------------------
LEMMA LogStarts == ASSUME LogConstants, Init PROVE LogInv
<1>1. /\ made = 1
      /\ logger = [i \in Ids |-> Null] /\ promise = [i \in Ids |-> i = Root]
      /\ kids = [i \in Ids |-> {}] /\ tag = [i \in Ids |-> None] /\ want = [i \in Ids |-> <<>>]
      /\ rlocks = [i \in Ids |-> {}] /\ user = [u \in Users |-> Idle]
      /\ wasSet = FALSE /\ setter = None /\ todo = <<>> /\ called = {}
  BY DEF Init
<1>2. Ids = 1 .. MaxLoggers /\ Root = 1 /\ 1 \in Ids /\ MaxLoggers \in Nat
  BY DEF Ids, Root, LogConstants
<1>3. Idle \in [pc : {"idle", "locked", "added"}, from : 0 .. MaxLoggers, new : 0 .. MaxLoggers]
  BY DEF LogConstants, Idle
<1>4. Null \in Seq(Marks) /\ Null \in Bases /\ <<>> \in Seq(Marks)
  BY DEF Null, Marks, Bases
<1>5. promise \in [Ids -> BOOLEAN]
  BY <1>1, Zenon
<1>6. \A i \in Ids : promise[i] <=> i = Root
  BY <1>1, Zenon
<1>7. LogTypes
  <2>1. TypeOK
    <3>1. made \in Ids /\ rlocks \in [Ids -> SUBSET Users] /\ kids \in [Ids -> SUBSET Ids]
      BY <1>1, <1>2
    <3>2. user \in [Users -> [pc : {"idle", "locked", "added"}, from : 0 .. MaxLoggers, new : 0 .. MaxLoggers]]
      BY <1>1, <1>3
    <3> QED BY <1>1, <1>5, <3>1, <3>2 DEF TypeOK
  <2>2. logger \in [Ids -> Seq(Marks)] /\ want \in [Ids -> Seq(Marks)]
    BY <1>1, <1>4
  <2>3. tag \in [Ids -> Tags \cup {None}] /\ todo \in Seq([id : Ids, parent : Seq(Marks)])
    BY <1>1
  <2> QED BY <2>1, <2>2, <2>3 DEF LogTypes
<1>8. \A u \in Users : user[u].pc = "idle" /\ user[u].new = 0
  BY <1>1 DEF Idle
<1>9. LogUsers
  <2>1. LogDoing /\ LogMakers
    BY <1>8 DEF LogDoing, LogMakers
  <2>2. LogKids
    BY <1>1 DEF LogKids
  <2>3. Complete(1, made, user)
    BY <1>1, <1>8 DEF Complete
  <2> QED BY <1>2, <1>6, <2>1, <2>2, <2>3 DEF LogUsers, LogPromised
<1>10. LogPending
  BY <1>6 DEF LogPending
<1>11. LogSetter
  BY <1>1, <1>2, <1>6 DEF LogSetter
<1>12. LogValues
  <2>1. \A j \in 1 .. made : promise[j]
    <3>1. \A j \in 1 .. made : j = 1
      BY <1>1
    <3> QED BY <1>2, <1>6, <3>1
  <2>2. 1 .. Len(todo) = {}
    BY <1>1
  <2> QED BY <1>1, <1>2, <1>4, <2>1, <2>2 DEF LogValues
<1> QED BY <1>7, <1>9, <1>10, <1>11, <1>12 DEF LogInv

LEMMA LogSteps == ASSUME LogConstants, LogInv, [Next]_vars PROVE LogInv'
<1>1. CASE Next
  BY <1>1, RLockStep, DeriveStep, DerivedStep, GiveUpStep, SetLoggerStep, FulfillStep, SetLoggerReturnsStep DEF Next
<1>2. CASE UNCHANGED vars
  <2>1. UNCHANGED <<made, logger, promise, kids, tag, want, rlocks, user, wasSet, setter, todo, called>>
    BY <1>2 DEF vars
  <2>2. LogTypes'
    BY <2>1 DEF LogInv, LogTypes, TypeOK
  <2>3. LogUsers'
    BY <2>1, UsersStay DEF LogInv
  <2>4. LogPending' /\ LogSetter'
    BY <2>1 DEF LogInv, LogPending, LogSetter
  <2>5. LogValues'
    BY <2>1 DEF LogInv, LogValues
  <2> QED BY <2>2, <2>3, <2>4, <2>5 DEF LogInv
<1> QED BY <1>1, <1>2

\* No promise is left once SetLogger is through: the oldest logger with one
\* would have an older parent with one.
LEMMA LogMeans == ASSUME LogConstants, LogInv PROVE TypeOK /\ PromisesKept
<1>1. /\ 1 .. made \subseteq Ids /\ Root = 1 /\ Root \in Ids /\ Ids \subseteq Nat
      /\ \A j : Complete(j, made, user) => j \in Ids /\ j \in 1 .. made
  BY LogIds DEF LogInv
<1>2. SUFFICES ASSUME called # {}, NEW i \in Known
               PROVE  /\ ~ promise[i]
                      /\ logger[i] \in {Null} \cup {<<s>> \o want[i] : s \in Setters \ {Timer}}
                      /\ logger[i] = Null <=> logger[Root] = Null
  BY DEF PromisesKept, LogInv, LogTypes
<1>3. ~ promise[Root] /\ todo = <<>>
  BY <1>2 DEF LogInv, LogSetter
<1> DEFINE S == {j \in Ids : promise[j]}
<1>4. S = {}
  <2>1. SUFFICES ASSUME S # {} PROVE FALSE
    OBVIOUS
  <2>2. PICK m \in S : \A q \in S : m <= q
    BY <1>1, <2>1, Least
  <2>3. PICK q \in Ids : m \in kids[q] /\ promise[q]
    BY <1>3, <2>2 DEF LogInv, LogPending
  <2>4. q < m /\ m <= q /\ q \in Nat /\ m \in Nat
    BY <1>1, <2>2, <2>3 DEF LogInv, LogUsers, LogKids
  <2> QED BY <2>4
<1>5. i \in 1 .. made /\ i \in Ids /\ \A u \in Users : user[u].new # i
  BY <1>1 DEF Known
<1>6. ~ promise[i]
  BY <1>4, <1>5
<1>7. logger[i] = Applied(logger[Root], want[i])
  BY <1>5, <1>6 DEF LogInv, LogValues
<1>8. logger[Root] \in Bases /\ want[i] \in Seq(Marks)
  BY <1>5 DEF LogInv, LogValues, LogTypes
<1>9. LET w == Applied(logger[Root], want[i])
      IN  /\ w = Null <=> logger[Root] = Null
          /\ w \in {Null} \cup {<<s>> \o want[i] : s \in Setters \ {Timer}}
  BY <1>8, AppliedType
<1> QED BY <1>6, <1>7, <1>9

\* A logger made before, during or after SetLogger writes, once the call is
\* through, to the logger that was set with all that was added on the way,
\* whatever the number of goroutines and loggers (loggerPromise.Fulfill,
\* DelegatingLogger.WithName and SetLogger of pkg/log).
THEOREM PromisesKeptHolds == Spec => []PromisesKept
<1>1. Init => LogInv
  BY LogStarts, LoggersConstants
<1>2. LogInv /\ [Next]_vars => LogInv'
  BY LogSteps, LoggersConstants
<1>3. LogInv => PromisesKept
  BY LogMeans, LoggersConstants
<1> QED BY <1>1, <1>2, <1>3, PTL DEF Spec
=============================================================================
