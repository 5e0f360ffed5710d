-------------------------- MODULE InformersProofs --------------------------
(* Proofs about Informers: there is one informer for a key, it is run once  *)
(* and everybody has it; nobody is told of a sync that has not happened.    *)
EXTENDS Informers, TLAPS

----------------------------------------------------------------------------
(* The inductive invariant *)

\* At most one informer is ever made for a key, and it stays in its map.
OneEach ==
  \A g \in Keys : \/ entry[g] = None /\ made[g] = 0
                  \/ entry[g] = <<g, 1>> /\ made[g] = 1

\* Whether an informer is to run.
ToRun(i) == \E g \in Keys : entry[g] = i /\ started[mapOf[g]]
RunOnce == \A i \in Informer : runs[i] = IF ToRun(i) THEN 1 ELSE 0

\* A call of WaitForCacheSync: what it collected, or will, has the informers
\* that were there at first; the maps it has passed are started.
WaitInv(c) ==
  /\ pc[c] = "collect" => \A i \in present[c] :
       i \in pending[c] \/ \E g \in Keys : \E n \in 1..Len(left[c]) :
                             entry[g] = i /\ mapOf[g] = left[c][n]
  /\ pc[c] \in {"started", "sync", "true"} => present[c] \subseteq pending[c]
  /\ pc[c] = "started" => \A m \in MapSet :
       started[m] \/ \E n \in 1..Len(left[c]) : left[c][n] = m
  /\ pc[c] \in {"sync", "true"} => \A m \in MapSet : started[m]
  /\ pc[c] = "true" => pending[c] \subseteq synced

\* A call that got an informer has the one in the map.
GetInv(c) ==
  /\ inf[c] # None => inf[c] = entry[wants[c]]
  /\ pc[c] \in {"check", "got", "collect", "started", "sync", "true"} => inf[c] # None
  /\ pc[c] = "got" /\ saw[c] => inf[c] \in synced
  /\ pc[c] = "read" => inf[c] \in synced

\* A Kind source waits for the informer it has registered its handler with.
KindInv(k) ==
  /\ pc[k] \in {"collect", "started", "sync", "true"} => inf[k] \in handler[k] \cap present[k]
  /\ (startedCh[k] /\ wait[k] # "error") \/ wait[k] = "nil" =>
       inf[k] # None /\ inf[k] \in handler[k] \cap synced

IInv ==
  /\ TypeOK /\ OneEach /\ RunOnce
  /\ \A c \in Callers : WaitInv(c)
  /\ \A c \in Getters : GetInv(c)
  /\ \A k \in Kinds : KindInv(k)

----------------------------------------------------------------------------
(* What a step keeps *)

\* Nothing that the calls rely on is ever taken back.
Grows ==
  /\ synced \subseteq synced'
  /\ \A m \in MapSet : started[m] => started'[m]
  /\ \A g \in Keys : entry[g] # None => entry'[g] = entry[g]
  /\ \A k \in Kinds : handler[k] \subseteq handler'[k]

SameWait(c) ==
  pc'[c] = pc[c] /\ left'[c] = left[c] /\ pending'[c] = pending[c] /\ present'[c] = present[c]
SameGet(c) == pc'[c] = pc[c] /\ saw'[c] = saw[c] /\ inf'[c] = inf[c]
SameKind(k) ==
  /\ pc'[k] = pc[k] /\ inf'[k] = inf[k] /\ present'[k] = present[k]
  /\ startedCh'[k] = startedCh[k] /\ wait'[k] = wait[k]

\* Every call but those of S is where it was.
Others(S) ==
  /\ \A d \in Callers \ S : SameWait(d)
  /\ \A d \in Getters \ S : SameGet(d)
  /\ \A d \in Kinds \ S : SameKind(d)

\* <<>> stands for no informer.
LEMMA NoneIsNoInformer == None \notin Informer
BY DEF None, Informer

\* There is room for an informer of every key that a call wants.
LEMMA RoomForOne ==
  ASSUME NEW c \in Getters
  PROVE  MaxInformers \in Nat /\ 1 <= MaxInformers
BY ConstantsAssumption DEF MaxInformers

\* What a call of WaitForCacheSync relies on stays true while it does nothing.
LEMMA KeepsWait ==
  ASSUME TypeOK, Grows, NEW c \in Callers, WaitInv(c), SameWait(c)
  PROVE  WaitInv(c)'
<1>1. present[c] \subseteq Informer BY DEF TypeOK
<1>2. pc[c] = "collect" => (\A i \in present[c] :
       i \in pending[c] \/ \E g \in Keys : \E n \in 1..Len(left[c]) :
                             entry'[g] = i /\ mapOf[g] = left[c][n])
  BY <1>1, NoneIsNoInformer DEF WaitInv, Grows
<1> QED BY <1>2 DEF WaitInv, Grows, SameWait

\* So does what a call of Get relies on.
LEMMA KeepsGet ==
  ASSUME Grows, NEW c \in Getters, GetInv(c), SameGet(c)
  PROVE  GetInv(c)'
<1>1. wants[c] \in Keys BY ConstantsAssumption
<1> QED BY <1>1 DEF GetInv, Grows, SameGet

\* So does what a Kind source relies on.
LEMMA KeepsKind ==
  ASSUME Grows, NEW k \in Kinds, KindInv(k), SameKind(k)
  PROVE  KindInv(k)'
BY DEF KindInv, Grows, SameKind

\* A step need only be followed for the calls of S.
LEMMA Assemble ==
  ASSUME IInv, TypeOK', OneEach', RunOnce', Grows, NEW S, Others(S),
         \A c \in S \cap Callers : WaitInv(c)',
         \A c \in S \cap Getters : GetInv(c)',
         \A k \in S \cap Kinds : KindInv(k)'
  PROVE  IInv'
<1>1. \A c \in Callers : WaitInv(c)' BY KeepsWait DEF IInv, Others
<1>2. \A c \in Getters : GetInv(c)' BY KeepsGet DEF IInv, Others
<1>3. \A k \in Kinds : KindInv(k)' BY KeepsKind DEF IInv, Others
<1> QED BY <1>1, <1>2, <1>3 DEF IInv

\* A step that leaves the maps alone leaves alone what is said of them.
LEMMA KeepsMaps ==
  ASSUME OneEach, RunOnce, UNCHANGED mapVars
  PROVE  OneEach' /\ RunOnce'
BY DEF OneEach, RunOnce, ToRun, mapVars

----------------------------------------------------------------------------
(* The informers map *)

\* No informer is in the map under two keys.
LEMMA NotShared ==
  ASSUME OneEach, NEW g \in Keys, NEW h \in Keys, entry[g] = entry[h], entry[g] \in Informer
  PROVE  g = h
<1>1. entry[g] = <<g, 1>> /\ entry[h] = <<h, 1>> BY NoneIsNoInformer DEF OneEach
<1>2. <<g, 1>>[1] = <<h, 1>>[1] BY <1>1
<1> QED BY <1>2

\* The first informer of a key is in the map under that key only.
LEMMA OwnKey ==
  ASSUME OneEach, NEW g \in Keys, NEW h \in Keys, entry[h] = <<g, 1>>
  PROVE  h = g
<1>1. entry[h] = <<h, 1>>
  <2>1. <<g, 1>> # None BY DEF None
  <2> QED BY <2>1 DEF OneEach
<1>2. <<g, 1>>[1] = <<h, 1>>[1] BY <1>1
<1> QED BY <1>2

\* Start runs the informers of its map, none of which ran before.
LEMMA StartStep ==
  ASSUME IInv, NEW m \in MapSet, Start(m)
  PROVE  IInv'
<1>1. TypeOK /\ OneEach /\ RunOnce BY DEF IInv
<1>2. \A i \in Informer : i \in Entries({m}) <=> \E g \in Keys : entry[g] = i /\ mapOf[g] = m
  BY NoneIsNoInformer DEF Entries
<1>3. \A i \in Informer : i \in Entries({m}) => ~ToRun(i)
  BY <1>1, <1>2, NotShared DEF ToRun, Start
<1>4. \A i \in Informer : ToRun(i)' <=> ToRun(i) \/ i \in Entries({m})
  BY <1>1, <1>2, ConstantsAssumption DEF ToRun, Start, TypeOK
<1>5. RunOnce'
  BY <1>1, <1>3, <1>4 DEF RunOnce, Start
<1>6. OneEach' BY <1>1 DEF OneEach, Start
<1>7. \A i \in Informer : runs'[i] \in 0..2 BY <1>5 DEF RunOnce
<1>8. TypeOK' BY <1>1, <1>7 DEF TypeOK, Start, callVars, kindVars
<1>9. Grows BY <1>1 DEF TypeOK, Grows, Start, kindVars
<1>10. Others({}) BY DEF Others, SameWait, SameGet, SameKind, Start, callVars, kindVars
<1> QED BY <1>5, <1>6, <1>8, <1>9, <1>10, Assemble

\* A call that is not waiting for the cache relies on nothing of WaitInv.
LEMMA NotWaiting ==
  ASSUME NEW c, pc'[c] \notin {"collect", "started", "sync", "true"}
  PROVE  WaitInv(c)'
BY DEF WaitInv

\* A call of Get that finds the informer, at once or when it was to make one.
LEMMA FindsStep ==
  ASSUME IInv, NEW c \in Getters, Lookup(c) \/ AddFinds(c)
  PROVE  IInv'
<1>1. TypeOK /\ OneEach /\ RunOnce /\ GetInv(c) /\ (c \in Kinds => KindInv(c)) BY DEF IInv
<1>2. wants[c] \in Keys /\ mapOf[wants[c]] \in MapSet /\ c \in Callers
  BY ConstantsAssumption DEF Callers, Getters
<1>3. TypeOK' BY <1>1, <1>2 DEF TypeOK, Lookup, AddFinds, Goto, mapVars, kindVars
<1>4. OneEach' /\ RunOnce' BY <1>1, KeepsMaps DEF Lookup, AddFinds
<1>5. Grows BY DEF Grows, Lookup, AddFinds, mapVars, kindVars
<1>6. Others({c})
  BY <1>1 DEF TypeOK, Others, SameWait, SameGet, SameKind, Lookup, AddFinds, Goto, Callers, Getters, kindVars
<1>7. WaitInv(c)' BY <1>1, <1>2, NotWaiting DEF TypeOK, Lookup, AddFinds, Goto
<1>8. GetInv(c)' BY <1>1, <1>2 DEF TypeOK, GetInv, Lookup, AddFinds, Goto, mapVars
<1>9. c \in Kinds => KindInv(c)'
  BY <1>1, <1>2 DEF TypeOK, KindInv, GetInv, Lookup, AddFinds, Goto, mapVars, kindVars
<1> QED BY <1>3, <1>4, <1>5, <1>6, <1>7, <1>8, <1>9, Assemble

\* The steps of Get that only move on.
GetMoves(c) == GetRefused(c) \/ Got(c) \/ GetTimesOut(c)

LEMMA GetMovesStep ==
  ASSUME IInv, NEW c \in Getters, GetMoves(c)
  PROVE  IInv'
<1>1. TypeOK /\ OneEach /\ RunOnce /\ GetInv(c) /\ (c \in Kinds => KindInv(c)) BY DEF IInv
<1>2. c \in Callers BY DEF Callers, Getters
<1>3. UNCHANGED <<mapVars, synced, stopped, cancelled, saw, inf, left, pending, present, kindVars>>
  BY DEF GetMoves, GetRefused, Got, GetTimesOut
<1>4. \E l \in {"got", "fail"} : Goto(c, l) /\ (l = "got" => Got(c))
  BY DEF GetMoves, GetRefused, Got, GetTimesOut
<1>5. TypeOK' BY <1>1, <1>3, <1>4 DEF TypeOK, Goto, mapVars, kindVars
<1>6. OneEach' /\ RunOnce' BY <1>1, <1>3, KeepsMaps
<1>7. Grows BY <1>3 DEF Grows, mapVars, kindVars
<1>8. Others({c})
  BY <1>1, <1>3, <1>4 DEF TypeOK, Others, SameWait, SameGet, SameKind, Goto, Callers, Getters, kindVars
<1>9. WaitInv(c)' BY <1>1, <1>2, <1>4, NotWaiting DEF TypeOK, Goto
<1>10. GetInv(c)' BY <1>1, <1>2, <1>3, <1>4 DEF TypeOK, GetInv, Got, Goto, mapVars
<1>11. c \in Kinds => KindInv(c)'
  BY <1>1, <1>2, <1>3, <1>4 DEF TypeOK, KindInv, Goto, kindVars
<1> QED BY <1>5, <1>6, <1>7, <1>8, <1>9, <1>10, <1>11, Assemble

\* The first informer of a key is made, and run if its map has been started.
LEMMA AddMakesStep ==
  ASSUME IInv, NEW c \in Getters, AddMakes(c)
  PROVE  IInv'
<1> DEFINE g == wants[c]
           i == <<g, 1>>
<1>1. TypeOK /\ OneEach /\ RunOnce /\ GetInv(c) /\ (c \in Kinds => KindInv(c)) BY DEF IInv
<1>2. g \in Keys /\ mapOf[g] \in MapSet /\ c \in Callers
  BY ConstantsAssumption DEF Callers, Getters
<1>3. i \in Informer /\ i # None BY <1>2, RoomForOne, NoneIsNoInformer DEF Informer
<1>4. entry[g] = None /\ made[g] = 0
  BY <1>1, <1>2, <1>3 DEF OneEach, AddMakes
<1>5. /\ entry' = [entry EXCEPT ![g] = i]
      /\ made' = [made EXCEPT ![g] = 1]
      /\ runs' = [runs EXCEPT ![i] = IF started[mapOf[g]] THEN @ + 1 ELSE @]
      /\ inf' = [inf EXCEPT ![c] = i]
      /\ saw' = [saw EXCEPT ![c] = started[mapOf[g]]]
      /\ Goto(c, "check")
      /\ UNCHANGED <<started, synced, stopped, cancelled, left, pending, present, kindVars>>
  BY <1>1, <1>2, <1>4 DEF TypeOK, AddMakes
<1> HIDE DEF i
<1>6. OneEach' BY <1>1, <1>2, <1>5 DEF TypeOK, OneEach, i
<1>7. ~ToRun(i)
  <2>1. \A h \in Keys : entry[h] = i => h = g BY <1>1, <1>2, OwnKey DEF i
  <2> QED BY <2>1, <1>3, <1>4 DEF ToRun
<1>8. \A j \in Informer : ToRun(j)' <=> IF j = i THEN started[mapOf[g]] ELSE ToRun(j)
  <2> TAKE j \in Informer
  <2>1. CASE j = i
    <3>1. entry'[g] = i BY <1>1, <1>2, <1>5 DEF TypeOK
    <3>2. \A h \in Keys : entry'[h] = i => h = g
      <4>1. \A h \in Keys : entry[h] = i => h = g BY <1>1, <1>2, OwnKey DEF i
      <4> QED BY <4>1, <1>1, <1>2, <1>5 DEF TypeOK
    <3> QED BY <2>1, <1>2, <1>5, <3>1, <3>2 DEF ToRun
  <2>2. CASE j # i
    BY <2>2, <1>1, <1>2, <1>4, <1>5, NoneIsNoInformer DEF TypeOK, ToRun
  <2> QED BY <2>1, <2>2
<1>9. RunOnce' BY <1>1, <1>3, <1>5, <1>7, <1>8 DEF TypeOK, RunOnce
<1>10. TypeOK'
  <2>1. \A j \in Informer : runs'[j] \in 0..2 BY <1>9 DEF RunOnce
  <2>2. runs' \in [Informer -> 0..2] BY <2>1, <1>1, <1>5 DEF TypeOK
  <2>3. made' \in [Keys -> 0..MaxInformers] 
    <3>1. 1 \in 0..MaxInformers BY RoomForOne
    <3> QED BY <3>1, <1>1, <1>2, <1>5 DEF TypeOK
  <2> QED BY <2>2, <2>3, <1>1, <1>2, <1>3, <1>5 DEF TypeOK, Goto, kindVars
<1>11. Grows BY <1>1, <1>4, <1>5 DEF TypeOK, Grows, kindVars
<1>12. Others({c})
  BY <1>1, <1>5 DEF TypeOK, Others, SameWait, SameGet, SameKind, Goto, Callers, Getters, kindVars
<1>13. WaitInv(c)' BY <1>1, <1>2, <1>5, NotWaiting DEF TypeOK, Goto
<1>14. GetInv(c)' BY <1>1, <1>2, <1>3, <1>5 DEF TypeOK, GetInv, Goto
<1>15. c \in Kinds => KindInv(c)'
  <2> SUFFICES ASSUME c \in Kinds PROVE KindInv(c)' OBVIOUS
  <2>1. inf[c] = None BY <1>1, <1>4 DEF GetInv
  <2> QED BY <2>1, <1>1, <1>2, <1>5 DEF TypeOK, KindInv, Goto, kindVars
<1> QED BY <1>6, <1>9, <1>10, <1>11, <1>12, <1>13, <1>14, <1>15, Assemble

----------------------------------------------------------------------------
(* WaitForCacheSync *)

\* Every informer there is, is in a map that the wait has yet to visit.
LEMMA BeginsWaiting ==
  ASSUME IInv, NEW c \in Callers, BeginWait(c), UNCHANGED mapVars
  PROVE  /\ WaitInv(c)'
         /\ present' = [present EXCEPT ![c] = Entries(MapSet)]
         /\ Entries(MapSet) \subseteq Informer
<1>1. TypeOK BY DEF IInv
<1>2. pc'[c] = "collect" /\ present'[c] = Entries(MapSet) /\ left'[c] = Maps
  BY <1>1 DEF TypeOK, BeginWait, Goto
<1>3. \A i \in Entries(MapSet) : \E g \in Keys : \E n \in 1..Len(Maps) :
        entry[g] = i /\ mapOf[g] = Maps[n]
  BY ConstantsAssumption DEF Entries, MapSet
<1>4. WaitInv(c)' BY <1>2, <1>3 DEF WaitInv, mapVars
<1>5. Entries(MapSet) \subseteq Informer BY <1>1 DEF TypeOK, Entries
<1> QED BY <1>4, <1>5 DEF BeginWait

\* The steps of a wait change nothing but its own place.
WaitFrame(c) ==
  /\ UNCHANGED <<mapVars, synced, stopped, cancelled, saw, inf, present, kindVars>>
  /\ \E l \in {"collect", "started", "sync", "true", "false"} : pc' = [pc EXCEPT ![c] = l]
  /\ \E q \in Seq(MapSet) : left' = [left EXCEPT ![c] = q]
  /\ \E p \in SUBSET Informer : pending' = [pending EXCEPT ![c] = p]

LEMMA WaitFrameStep ==
  ASSUME IInv, NEW c \in Callers, WaitFrame(c), WaitInv(c)',
         pc[c] \in {"collect", "started", "sync", "true"}
  PROVE  IInv'
<1>1. TypeOK /\ OneEach /\ RunOnce /\ (c \in Getters => GetInv(c)) /\ (c \in Kinds => KindInv(c))
  BY DEF IInv
<1>2. UNCHANGED <<mapVars, synced, stopped, cancelled, saw, inf, present, kindVars>>
  BY DEF WaitFrame
<1>3. TypeOK' BY <1>1 DEF TypeOK, WaitFrame, mapVars, kindVars
<1>4. OneEach' /\ RunOnce' BY <1>1, <1>2, KeepsMaps
<1>5. Grows BY <1>2 DEF Grows, mapVars, kindVars
<1>6. Others({c})
  BY <1>1 DEF TypeOK, Others, SameWait, SameGet, SameKind, WaitFrame, Callers, Getters, kindVars
<1>7. pc'[c] \in {"collect", "started", "sync", "true", "false"}
  BY <1>1 DEF TypeOK, WaitFrame
<1>8. c \in Getters => GetInv(c)' BY <1>1, <1>2, <1>7 DEF GetInv, mapVars
<1>9. c \in Kinds => KindInv(c)' BY <1>1, <1>2, <1>7 DEF KindInv, kindVars
<1> QED BY <1>3, <1>4, <1>5, <1>6, <1>8, <1>9, Assemble

\* Collecting a map moves its informers from what is left to what is pending.
LEMMA CollectStep ==
  ASSUME IInv, NEW c \in Callers, Collect(c)
  PROVE  IInv'
<1>1. TypeOK /\ WaitInv(c) BY DEF IInv
<1>2. /\ left[c] \in Seq(MapSet) /\ left[c] # <<>> /\ pending[c] \subseteq Informer
      /\ present[c] \subseteq Informer /\ pc[c] = "collect"
  BY <1>1 DEF TypeOK, Collect
<1>3. Tail(left[c]) \in Seq(MapSet) BY <1>2
<1>4. pending[c] \cup Entries({Head(left[c])}) \subseteq Informer
  BY <1>1, <1>2 DEF TypeOK, Entries
<1>5. pc' = [pc EXCEPT ![c] = "collect"] BY <1>1, <1>2 DEF TypeOK, Collect
<1>6. WaitFrame(c)
  BY <1>3, <1>4, <1>5 DEF WaitFrame, Collect
<1>7. /\ pc'[c] = "collect" /\ present'[c] = present[c] /\ left'[c] = Tail(left[c])
      /\ pending'[c] = pending[c] \cup Entries({Head(left[c])}) /\ entry' = entry
  BY <1>1, <1>2 DEF TypeOK, Collect, mapVars
<1>8. ASSUME NEW i \in present'[c]
      PROVE  i \in pending'[c] \/ \E g \in Keys : \E n \in 1..Len(left'[c]) :
                                    entry'[g] = i /\ mapOf[g] = left'[c][n]
  <2>1. CASE i \in pending[c] BY <2>1, <1>7
  <2>2. CASE i \notin pending[c]
    <3>1. PICK g \in Keys, n \in 1..Len(left[c]) : entry[g] = i /\ mapOf[g] = left[c][n]
      BY <2>2, <1>1, <1>2, <1>7 DEF WaitInv
    <3>2. CASE n = 1
      <4>1. mapOf[g] = Head(left[c]) BY <3>1, <3>2, <1>2
      <4>2. i # None BY <1>2, <1>7, NoneIsNoInformer
      <4> QED BY <4>1, <4>2, <3>1, <1>7 DEF Entries
    <3>3. CASE n # 1
      <4>1. n - 1 \in 1..Len(Tail(left[c])) /\ Tail(left[c])[n - 1] = left[c][n]
        BY <3>3, <1>2
      <4> QED BY <4>1, <3>1, <1>7
    <3> QED BY <3>2, <3>3
  <2> QED BY <2>1, <2>2
<1>9. WaitInv(c)'
  <2>1. pc'[c] = "collect" BY <1>7
  <2> QED BY <2>1, <1>8 DEF WaitInv
<1> QED BY <1>2, <1>6, <1>9, WaitFrameStep

\* When no map is left, everything that was present has been collected.
LEMMA CollectedStep ==
  ASSUME IInv, NEW c \in Callers, Collected(c)
  PROVE  IInv'
<1>1. TypeOK /\ WaitInv(c) BY DEF IInv
<1>2. pc[c] = "collect" /\ left[c] = <<>> BY DEF Collected
<1>3. pending' = [pending EXCEPT ![c] = pending[c]] /\ pending[c] \in SUBSET Informer
  BY <1>1 DEF TypeOK, Collected
<1>4. WaitFrame(c) BY <1>3, ConstantsAssumption DEF WaitFrame, Collected, Goto
<1>5. /\ pc'[c] = "started" /\ present'[c] = present[c] /\ left'[c] = Maps
      /\ pending'[c] = pending[c]
  BY <1>1 DEF TypeOK, Collected, Goto
<1>6. present[c] \subseteq pending[c] BY <1>1, <1>2 DEF WaitInv
<1>7. \A m \in MapSet : \E n \in 1..Len(Maps) : Maps[n] = m BY DEF MapSet
<1>8. WaitInv(c)' BY <1>5, <1>6, <1>7 DEF WaitInv
<1> QED BY <1>2, <1>4, <1>8, WaitFrameStep

\* The maps that are not left have been seen started.
LEMMA SawStartedStep ==
  ASSUME IInv, NEW c \in Callers, SawStarted(c)
  PROVE  IInv'
<1>1. TypeOK /\ WaitInv(c) BY DEF IInv
<1>2. pc[c] = "started" /\ left[c] \in Seq(MapSet) BY <1>1 DEF TypeOK, SawStarted
<1>3. pending' = [pending EXCEPT ![c] = pending[c]] /\ pending[c] \in SUBSET Informer
  BY <1>1 DEF TypeOK, SawStarted
<1>4. UNCHANGED <<mapVars, synced, stopped, cancelled, saw, inf, present, kindVars>>
  BY DEF SawStarted
<1>5. CASE left[c] = <<>>
  <2>1. pc' = [pc EXCEPT ![c] = "sync"] /\ left' = [left EXCEPT ![c] = left[c]]
    BY <1>1, <1>5 DEF TypeOK, SawStarted, Goto
  <2>2. WaitFrame(c) BY <2>1, <1>2, <1>3, <1>4 DEF WaitFrame
  <2>3. \A m \in MapSet : started[m] BY <1>1, <1>2, <1>5 DEF WaitInv
  <2>4. pc'[c] = "sync" /\ pending'[c] = pending[c] /\ present'[c] = present[c] /\ started' = started
    BY <2>1, <1>1, <1>3, <1>4 DEF TypeOK, mapVars
  <2>5. present[c] \subseteq pending[c] BY <1>1, <1>2 DEF WaitInv
  <2>6. WaitInv(c)' BY <2>3, <2>4, <2>5 DEF WaitInv
  <2> QED BY <2>2, <2>6, <1>2, WaitFrameStep
<1>6. CASE left[c] # <<>>
  <2>1. /\ pc' = [pc EXCEPT ![c] = "started"]
        /\ left' = [left EXCEPT ![c] = Tail(left[c])] /\ started[Head(left[c])]
    BY <1>1, <1>2, <1>6 DEF TypeOK, SawStarted
  <2>2. Tail(left[c]) \in Seq(MapSet) BY <1>2, <1>6
  <2>3. WaitFrame(c) BY <2>1, <2>2, <1>3, <1>4 DEF WaitFrame
  <2>4. /\ pc'[c] = "started" /\ pending'[c] = pending[c] /\ present'[c] = present[c]
        /\ started' = started /\ left'[c] = Tail(left[c])
    BY <2>1, <1>1, <1>3, <1>4 DEF TypeOK, mapVars
  <2>5. ASSUME NEW m \in MapSet, ~started[m]
        PROVE  \E n \in 1..Len(left'[c]) : left'[c][n] = m
    <3>1. PICK n \in 1..Len(left[c]) : left[c][n] = m BY <2>5, <1>1, <1>2 DEF WaitInv
    <3>2. n # 1 BY <3>1, <2>1, <2>5, <1>2, <1>6
    <3>3. n - 1 \in 1..Len(Tail(left[c])) /\ Tail(left[c])[n - 1] = left[c][n]
      BY <3>2, <1>2, <1>6
    <3> QED BY <3>1, <3>3, <2>4
  <2>6. present[c] \subseteq pending[c] BY <1>1, <1>2 DEF WaitInv
  <2>7. WaitInv(c)' BY <2>4, <2>5, <2>6 DEF WaitInv
  <2> QED BY <2>3, <2>7, <1>2, WaitFrameStep
<1> QED BY <1>5, <1>6

\* The wait ends with an answer: everything it collected has synced, or not.
LEMMA AnswerStep ==
  ASSUME IInv, NEW c \in Callers, SawSynced(c) \/ WaitFails(c)
  PROVE  IInv'
<1>1. TypeOK /\ WaitInv(c) BY DEF IInv
<1>2. pc[c] \in {"started", "sync"} BY DEF SawSynced, WaitFails
<1>3. /\ pending' = [pending EXCEPT ![c] = pending[c]] /\ pending[c] \in SUBSET Informer
      /\ left' = [left EXCEPT ![c] = left[c]] /\ left[c] \in Seq(MapSet)
  BY <1>1 DEF TypeOK, SawSynced, WaitFails
<1>4. UNCHANGED <<mapVars, synced, stopped, cancelled, saw, inf, present, kindVars>>
  BY DEF SawSynced, WaitFails
<1>5. WaitFrame(c) BY <1>3, <1>4 DEF WaitFrame, SawSynced, WaitFails, Goto
<1>6. CASE SawSynced(c)
  <2>1. pc[c] = "sync" /\ pending[c] \subseteq synced /\ pc'[c] = "true"
    BY <1>1, <1>6 DEF TypeOK, SawSynced, Goto
  <2>2. pending'[c] = pending[c] /\ present'[c] = present[c] /\ started' = started /\ synced' = synced
    BY <1>1, <1>3, <1>4 DEF TypeOK, mapVars
  <2> QED BY <2>1, <2>2, <1>1, <1>2, <1>5, WaitFrameStep DEF WaitInv
<1>7. CASE WaitFails(c)
  <2>1. pc'[c] = "false" BY <1>1, <1>7 DEF TypeOK, WaitFails, Goto
  <2> QED BY <2>1, <1>2, <1>5, NotWaiting, WaitFrameStep
<1> QED BY <1>6, <1>7

\* The manager calls WaitForCacheSync.
LEMMA WaiterBeginsStep ==
  ASSUME IInv, NEW c \in Callers, WaiterBegins(c)
  PROVE  IInv'
<1>1. TypeOK /\ OneEach /\ RunOnce BY DEF IInv
<1>2. UNCHANGED <<mapVars, synced, stopped, cancelled, saw, inf, pending, kindVars>>
  BY DEF WaiterBegins
<1>3. /\ WaitInv(c)' /\ present' = [present EXCEPT ![c] = Entries(MapSet)]
      /\ Entries(MapSet) \subseteq Informer
  BY <1>2, BeginsWaiting DEF WaiterBegins
<1>4. c \notin Getters /\ c \notin Kinds
  BY ConstantsAssumption DEF WaiterBegins, Getters
<1>5. TypeOK'
  BY <1>1, <1>2, <1>3, ConstantsAssumption DEF TypeOK, WaiterBegins, BeginWait, Goto, mapVars, kindVars
<1>6. OneEach' /\ RunOnce' BY <1>1, <1>2, KeepsMaps
<1>7. Grows BY <1>2 DEF Grows, mapVars, kindVars
<1>8. Others({c})
  BY <1>1, <1>2, <1>3 DEF TypeOK, Others, SameWait, SameGet, SameKind, WaiterBegins, BeginWait, Goto,
     Callers, Getters, kindVars
<1> QED BY <1>3, <1>4, <1>5, <1>6, <1>7, <1>8, Assemble

----------------------------------------------------------------------------
(* Reads and Kind sources *)

\* A read that saw the cache started has waited for its informer.
LEMMA ReadEndsStep ==
  ASSUME IInv, NEW c \in Callers, ReadEnds(c)
  PROVE  IInv'
<1>1. TypeOK /\ OneEach /\ RunOnce BY DEF IInv
<1>2. UNCHANGED <<mapVars, synced, stopped, cancelled, saw, inf, left, pending, present, kindVars>>
  BY DEF ReadEnds
<1>3. c \in Getters /\ c \notin Kinds /\ GetInv(c)
  BY ConstantsAssumption DEF IInv, ReadEnds, Getters
<1>4. pc'[c] \in {"failed", "read", "notStarted"} /\ (pc'[c] = "read" => pc[c] = "got" /\ saw[c])
  BY <1>1, <1>3 DEF TypeOK, ReadEnds, Goto
<1>5. TypeOK' BY <1>1, <1>2 DEF TypeOK, ReadEnds, Goto, mapVars, kindVars
<1>6. OneEach' /\ RunOnce' BY <1>1, <1>2, KeepsMaps
<1>7. Grows BY <1>2 DEF Grows, mapVars, kindVars
<1>8. Others({c})
  BY <1>1, <1>2 DEF TypeOK, Others, SameWait, SameGet, SameKind, ReadEnds, Goto, Callers, Getters, kindVars
<1>9. WaitInv(c)' BY <1>4, NotWaiting
<1>10. GetInv(c)' BY <1>2, <1>3, <1>4 DEF GetInv, mapVars
<1> QED BY <1>3, <1>5, <1>6, <1>7, <1>8, <1>9, <1>10, Assemble

\* A source registers its handler before it begins to wait, so the informer
\* it has is among those it waits for.
LEMMA KindRegistersStep ==
  ASSUME IInv, NEW k \in Callers, KindRegisters(k)
  PROVE  IInv'
<1>1. TypeOK /\ OneEach /\ RunOnce BY DEF IInv
<1>2. UNCHANGED <<mapVars, synced, stopped, cancelled, saw, inf, pending, startedCh, wait>>
  BY DEF KindRegisters
<1>3. k \in Kinds /\ k \in Getters /\ GetInv(k) /\ KindInv(k) /\ pc[k] = "got"
  BY DEF IInv, KindRegisters, Getters
<1>4. /\ WaitInv(k)' /\ present' = [present EXCEPT ![k] = Entries(MapSet)]
      /\ Entries(MapSet) \subseteq Informer
  BY <1>2, BeginsWaiting DEF KindRegisters
<1>5. inf[k] # None /\ inf[k] = entry[wants[k]] /\ inf[k] \in Informer
  BY <1>1, <1>3 DEF TypeOK, GetInv
<1>6. inf[k] \in Entries(MapSet)
  BY <1>3, <1>5, ConstantsAssumption DEF Entries
<1>7. pc'[k] = "collect" /\ handler' = [handler EXCEPT ![k] = @ \cup {inf[k]}]
  BY <1>1 DEF TypeOK, KindRegisters, BeginWait, Goto
<1>8. TypeOK'
  BY <1>1, <1>2, <1>4, <1>5, ConstantsAssumption
  DEF TypeOK, KindRegisters, BeginWait, Goto, mapVars
<1>9. OneEach' /\ RunOnce' BY <1>1, <1>2, KeepsMaps
<1>10. Grows BY <1>1, <1>2, <1>7 DEF TypeOK, Grows, mapVars
<1>11. Others({k})
  BY <1>1, <1>2, <1>4 DEF TypeOK, Others, SameWait, SameGet, SameKind, KindRegisters, BeginWait, Goto,
     Callers, Getters
<1>12. GetInv(k)' BY <1>2, <1>3, <1>5, <1>7 DEF GetInv, mapVars
<1>13. KindInv(k)'
  <2>1. /\ handler'[k] = handler[k] \cup {inf[k]} /\ present'[k] = Entries(MapSet)
        /\ inf'[k] = inf[k] /\ synced' = synced /\ startedCh' = startedCh /\ wait' = wait
    BY <1>1, <1>2, <1>3, <1>4, <1>7 DEF TypeOK
  <2> QED BY <2>1, <1>3, <1>5, <1>6 DEF KindInv
<1> QED BY <1>3, <1>4, <1>8, <1>9, <1>10, <1>11, <1>12, <1>13, Assemble

\* The channel of a source is closed for a good reason, or after an error.
LEMMA KindClosesStep ==
  ASSUME IInv, NEW k \in Callers, KindCloses(k)
  PROVE  IInv'
<1>1. TypeOK /\ OneEach /\ RunOnce /\ WaitInv(k) BY DEF IInv
<1>2. UNCHANGED <<mapVars, synced, stopped, cancelled, saw, inf, left, pending, present, handler, wait>>
  BY DEF KindCloses
<1>3. k \in Kinds /\ k \in Getters /\ GetInv(k) /\ KindInv(k) /\ pc[k] = "true"
  BY DEF IInv, KindCloses, Getters
<1>4. pc'[k] = "end" BY <1>1 DEF TypeOK, KindCloses, Goto
<1>5. inf[k] # None /\ inf[k] \in handler[k] \cap synced
  BY <1>1, <1>3 DEF WaitInv, GetInv, KindInv
<1>6. TypeOK' BY <1>1, <1>2 DEF TypeOK, KindCloses, Goto, mapVars
<1>7. OneEach' /\ RunOnce' BY <1>1, <1>2, KeepsMaps
<1>8. Grows BY <1>2 DEF Grows, mapVars
<1>9. Others({k})
  BY <1>1, <1>2 DEF TypeOK, Others, SameWait, SameGet, SameKind, KindCloses, Goto, Callers, Getters
<1>10. WaitInv(k)' BY <1>4, NotWaiting
<1>11. GetInv(k)' BY <1>2, <1>3, <1>4 DEF GetInv, mapVars
<1>12. KindInv(k)' BY <1>2, <1>4, <1>5 DEF KindInv
<1> QED BY <1>3, <1>6, <1>7, <1>8, <1>9, <1>10, <1>11, <1>12, Assemble

\* The wait of a controller for a source begins, succeeds or times out.
LEMMA ControllerWaitsStep ==
  ASSUME IInv, NEW k \in Kinds, WaitForSync(k) \/ SyncedSource(k) \/ WaitForSyncTimesOut(k)
  PROVE  IInv'
<1>1. TypeOK /\ OneEach /\ RunOnce /\ KindInv(k) /\ GetInv(k) /\ WaitInv(k)
  BY DEF IInv, Getters, Callers
<1>2. UNCHANGED <<mapVars, synced, stopped, callVars, handler, startedCh>>
  BY DEF WaitForSync, SyncedSource, WaitForSyncTimesOut
<1>3. k \in Callers /\ k \in Getters BY DEF Callers, Getters
<1>4. TypeOK'
  BY <1>1, <1>2, <1>3
  DEF TypeOK, WaitForSync, SyncedSource, WaitForSyncTimesOut, mapVars, callVars
<1>5. OneEach' /\ RunOnce' BY <1>1, <1>2, KeepsMaps
<1>6. Grows BY <1>2 DEF Grows, mapVars
<1>7. Others({k})
  BY <1>1, <1>2 DEF TypeOK, Others, SameWait, SameGet, SameKind, WaitForSync, SyncedSource,
     WaitForSyncTimesOut, callVars
<1>8. WaitInv(k)' BY <1>1, <1>2, <1>3, <1>6, KeepsWait DEF SameWait, callVars
<1>9. GetInv(k)' BY <1>1, <1>2, <1>3, <1>6, KeepsGet DEF SameGet, callVars
<1>10. KindInv(k)'
  BY <1>1, <1>2 DEF TypeOK, KindInv, WaitForSync, SyncedSource, WaitForSyncTimesOut, callVars
<1> QED BY <1>4, <1>5, <1>6, <1>7, <1>8, <1>9, <1>10, Assemble

\* An error that was handed over is never taken for a sync.
LEMMA SourceFailsStep ==
  ASSUME IInv, NEW k \in Kinds, SourceFails(k)
  PROVE  IInv'
<1>1. TypeOK /\ OneEach /\ RunOnce /\ GetInv(k) BY DEF IInv, Getters
<1>2. UNCHANGED <<mapVars, synced, stopped, cancelled, saw, inf, left, pending, present, handler>>
  BY DEF SourceFails
<1>3. k \in Callers /\ k \in Getters BY DEF Callers, Getters
<1>4. pc'[k] = "end" /\ wait'[k] = "error" BY <1>1, <1>3 DEF TypeOK, SourceFails, Goto
<1>5. TypeOK' BY <1>1, <1>2 DEF TypeOK, SourceFails, Goto, mapVars
<1>6. OneEach' /\ RunOnce' BY <1>1, <1>2, KeepsMaps
<1>7. Grows BY <1>2 DEF Grows, mapVars
<1>8. Others({k})
  BY <1>1, <1>2 DEF TypeOK, Others, SameWait, SameGet, SameKind, SourceFails, Goto, Callers, Getters
<1>9. WaitInv(k)' BY <1>4, NotWaiting
<1>10. GetInv(k)' BY <1>1, <1>2, <1>4 DEF GetInv, mapVars
<1>11. KindInv(k)' BY <1>4 DEF KindInv
<1> QED BY <1>5, <1>6, <1>7, <1>8, <1>9, <1>10, <1>11, Assemble

----------------------------------------------------------------------------
(* The invariant *)

\* What happens outside the calls: an informer syncs, a context ends.
LEMMA EnvironmentStep ==
  ASSUME IInv, (\E i \in Informer : InformerSyncs(i)) \/ (\E c \in Readers : CancelRead(c)) \/ Stop
  PROVE  IInv'
<1>1. TypeOK /\ OneEach /\ RunOnce BY DEF IInv
<1>2. UNCHANGED <<mapVars, callVars, kindVars>> BY DEF InformerSyncs, CancelRead, Stop
<1>3. TypeOK'
  BY <1>1, <1>2 DEF TypeOK, InformerSyncs, CancelRead, Stop, Callers, mapVars, callVars, kindVars
<1>4. OneEach' /\ RunOnce' BY <1>1, <1>2, KeepsMaps
<1>5. synced \subseteq synced' BY DEF InformerSyncs, CancelRead, Stop
<1>6. Grows BY <1>2, <1>5 DEF Grows, mapVars, kindVars
<1>7. Others({}) BY <1>2 DEF Others, SameWait, SameGet, SameKind, callVars, kindVars
<1> QED BY <1>3, <1>4, <1>6, <1>7, Assemble

\* One step of a call.
LEMMA CallStepKeeps ==
  ASSUME IInv, NEW c \in Callers, CallStep(c)
  PROVE  IInv'
<1>1. CASE c \in Getters /\ GetStep(c)
  BY <1>1, FindsStep, GetMovesStep, AddMakesStep DEF GetStep, GetMoves
<1>2. CASE WaitStep(c)
  BY <1>2, CollectStep, CollectedStep, SawStartedStep, AnswerStep DEF WaitStep
<1>3. CASE WaiterBegins(c) BY <1>3, WaiterBeginsStep
<1>4. CASE ReadEnds(c) BY <1>4, ReadEndsStep
<1>5. CASE KindRegisters(c) BY <1>5, KindRegistersStep
<1>6. CASE KindCloses(c) BY <1>6, KindClosesStep
<1> QED BY <1>1, <1>2, <1>3, <1>4, <1>5, <1>6 DEF CallStep

\* The calls start with nothing, and the maps are empty.
LEMMA Initially == Init => IInv
<1> SUFFICES ASSUME Init PROVE IInv OBVIOUS
<1>1. TypeOK
  <2>1. <<>> \in Seq(MapSet) OBVIOUS
  <2>2. \A g \in Keys : 0 \in 0..MaxInformers
    BY ConstantsAssumption DEF MaxInformers
  <2>3. left \in [Callers -> Seq(MapSet)] BY <2>1 DEF Init
  <2>4. made \in [Keys -> 0..MaxInformers] BY <2>2 DEF Init
  <2>5. /\ started \in [MapSet -> BOOLEAN] /\ entry \in [Keys -> Informer \cup {None}]
        /\ synced \subseteq Informer /\ stopped \in BOOLEAN /\ cancelled \subseteq Callers
    BY Zenon DEF Init
  <2>6. runs \in [Informer -> 0..2] BY DEF Init
  <2>7. /\ saw \in [Getters -> BOOLEAN] /\ inf \in [Getters -> Informer \cup {None}]
        /\ pending \in [Callers -> SUBSET Informer] /\ present \in [Callers -> SUBSET Informer]
        /\ handler \in [Kinds -> SUBSET Informer] /\ startedCh \in [Kinds -> BOOLEAN]
    BY DEF Init
  <2> QED BY <2>3, <2>4, <2>5, <2>6, <2>7 DEF Init, TypeOK
<1>2. OneEach BY DEF Init, OneEach
<1>3. RunOnce BY NoneIsNoInformer, ConstantsAssumption DEF Init, RunOnce, ToRun
<1>4. \A c \in Callers : WaitInv(c) BY DEF Init, WaitInv
<1>5. \A c \in Getters : GetInv(c) BY DEF Init, GetInv, Callers, Getters
<1>6. \A k \in Kinds : KindInv(k) BY DEF Init, KindInv, Callers
<1> QED BY <1>1, <1>2, <1>3, <1>4, <1>5, <1>6 DEF IInv

\* A step that changes nothing.
LEMMA Stutter ==
  ASSUME IInv, UNCHANGED vars
  PROVE  IInv'
<1>1. TypeOK /\ OneEach /\ RunOnce BY DEF IInv
<1>2. UNCHANGED <<mapVars, synced, stopped, cancelled, callVars, kindVars>> BY DEF vars
<1>3. TypeOK' BY <1>1, <1>2 DEF TypeOK, mapVars, callVars, kindVars
<1>4. OneEach' /\ RunOnce' BY <1>1, <1>2, KeepsMaps
<1>5. Grows BY <1>2 DEF Grows, mapVars, kindVars
<1>6. Others({}) BY <1>2 DEF Others, SameWait, SameGet, SameKind, callVars, kindVars
<1> QED BY <1>3, <1>4, <1>5, <1>6, Assemble

\* Every step keeps the invariant.
LEMMA Step == IInv /\ [Next]_vars => IInv'
<1> SUFFICES ASSUME IInv, [Next]_vars PROVE IInv' OBVIOUS
<1>1. CASE \E m \in MapSet : Start(m) BY <1>1, StartStep
<1>2. CASE \E c \in Callers : CallStep(c) BY <1>2, CallStepKeeps
<1>3. CASE \E k \in Kinds : WaitForSync(k) \/ SyncStep(k) \/ WaitForSyncTimesOut(k)
  BY <1>3, ControllerWaitsStep, SourceFailsStep DEF SyncStep
<1>4. CASE (\E i \in Informer : InformerSyncs(i)) \/ (\E c \in Readers : CancelRead(c)) \/ Stop
  BY <1>4, EnvironmentStep
<1>5. CASE UNCHANGED vars BY <1>5, Stutter
<1> QED BY <1>1, <1>2, <1>3, <1>4, <1>5 DEF Next

LEMMA Invariant == Spec => []IInv
BY Initially, Step, PTL DEF Spec

----------------------------------------------------------------------------
(* Theorems *)

\* For any number of types, maps, reads and sources: however Start and the
\* calls that make informers interleave, the informer of a key is run once,
\* when its map is started, and all calls for the key have the same one.
THEOREM SharedInformerHolds == Spec => []SharedInformer
<1>1. IInv => SharedInformer
  <2> SUFFICES ASSUME IInv PROVE SharedInformer OBVIOUS
  <2>1. TypeOK /\ RunOnce /\ \A c \in Getters : GetInv(c) BY DEF IInv
  <2>2. ASSUME NEW i \in Informer
        PROVE  ToRun(i) <=> \E m \in MapSet : started[m] /\ i \in Entries({m})
    <3>1. i # None BY NoneIsNoInformer
    <3>2. \A m : i \in Entries({m}) <=> \E g \in Keys : mapOf[g] = m /\ entry[g] = i
      BY <3>1 DEF Entries
    <3> QED BY <3>2, ConstantsAssumption DEF ToRun
  <2>3. \A i \in Informer :
          runs[i] = IF \E m \in MapSet : started[m] /\ i \in Entries({m}) THEN 1 ELSE 0
    BY <2>1, <2>2 DEF RunOnce
  <2> QED BY <2>1, <2>3 DEF SharedInformer, GetInv
<1> QED BY <1>1, Invariant, PTL

\* For any number of types, maps, reads, sources and waiters: no reader, no
\* controller and no manager is told that a cache has synced before it has.
THEOREM SyncedWhenSaidHolds == Spec => []SyncedWhenSaid
<1>1. IInv => SyncedWhenSaid
  <2> SUFFICES ASSUME IInv PROVE SyncedWhenSaid OBVIOUS
  <2>1. ReadsSynced BY DEF IInv, ReadsSynced, GetInv, Getters
  <2>2. SourceReady BY DEF IInv, SourceReady, KindInv, GetInv, Getters
  <2>3. WaitCoversPresent BY DEF IInv, WaitCoversPresent, WaitInv
  <2> QED BY <2>1, <2>2, <2>3 DEF SyncedWhenSaid
<1> QED BY <1>1, Invariant, PTL

=============================================================================
