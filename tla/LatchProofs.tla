----------------------------- MODULE LatchProofs -----------------------------
(***************************************************************************)
(* For every value of the constants: every destination of a channel source *)
(* is handed the events in order, the REST mapper finds what is installed, *)
(* and the recorder emits only while its broadcaster is up.                *)
(***************************************************************************)
EXTENDS Channel, Mapping, Recording, TLAPS

-----------------------------------------------------------------------------
(* Channel.  What went through one destination, with the numbers of the     *)
(* events: t was taken from it and b is in it, together j+1, ..., m, and h  *)
(* is what of t is in A.                                                    *)

Passed(t, b, j, m) ==
    /\ t \in Seq(Events) /\ b \in Seq(Events)
    /\ j \in Nat /\ m \in Nat /\ m <= MaxEvents
    /\ Len(t) + Len(b) + j = m
    /\ \A i \in 1 .. Len(t) : t[i] = j + i
    /\ \A i \in 1 .. Len(b) : b[i] = j + Len(t) + i

Chosen(t, h, A) ==
    /\ h \in Seq(Events)
    /\ {h[i] : i \in 1 .. Len(h)} = {t[i] : i \in 1 .. Len(t)} \cap A
    /\ \A i, k \in 1 .. Len(h) : i < k => h[i] < h[k]

Flow(t, b, h, j, m, A) == Passed(t, b, j, m) /\ Chosen(t, h, A)

\* Events have the numbers of the order they are received in.
Numbered(s) == \A i \in 1 .. Len(s) : s[i] = i

\* How far distribute has come with destination n.
Offered(n) == Len(sent) - IF Behind(n) THEN 1 ELSE 0

ChFlow ==
    \A n \in 1 .. Len(dest) :
        Flow(taken[dest[n]], buf[dest[n]], handled[dest[n]], joined[dest[n]], Offered(n),
             accepts[dest[n]])

\* A destination belongs to one call of Start that has come that far; nothing
\* went through the others.
ChDests ==
    /\ \A n, k \in 1 .. Len(dest) : dest[n] = dest[k] => n = k
    /\ \A n \in 1 .. Len(dest) : pc[dest[n]] \in {"once", "returned"}
    /\ \A c \in Starters : pc[c] = "call" => taken[c] = <<>> /\ buf[c] = <<>> /\ handled[c] = <<>>
    /\ \A c \in Starters : pc[c] # "returned" => reader[c] = "off"
    /\ \A c \in Starters : pc[c] \in {"once", "returned"} => \E n \in 1 .. Len(dest) : dest[n] = c

\* The loop runs once the first Start has come to it, holds the lock while it
\* sends, and has received an event when it distributes.
ChLoop ==
    /\ once = NoOne => loop = "off"
    /\ loop = "sending" => lock = "loop"
    /\ loop \in {"distribute", "sending"} => Len(sent) > 0
    /\ \A i \in 1 .. Len(sent) : sent[i] = i
    /\ next >= 1

ChInv == TypeOK /\ ChLoop /\ ChDests /\ ChFlow

-----------------------------------------------------------------------------
\* An empty destination.
LEMMA FlowStarts ==
    ASSUME NEW j \in 0 .. MaxEvents, NEW A
    PROVE  Flow(<<>>, <<>>, <<>>, j, j, A)
BY ConstantsAssumption DEF Flow, Passed, Chosen

\* distribute sends the next event.
LEMMA FlowSends ==
    ASSUME NEW t, NEW b, NEW h, NEW j, NEW m, NEW A, Flow(t, b, h, j, m, A), m + 1 <= MaxEvents
    PROVE  Flow(t, Append(b, m + 1), h, j, m + 1, A)
<1>1. m + 1 \in Events
  BY DEF Flow, Passed, Events
<1>2. /\ b \in Seq(Events) /\ Len(b) \in Nat /\ Len(t) \in Nat /\ j \in Nat /\ m \in Nat
      /\ Len(t) + Len(b) + j = m
      /\ \A i \in 1 .. Len(b) : b[i] = j + Len(t) + i
  BY DEF Flow, Passed
<1> DEFINE bb == Append(b, m + 1)
<1>3. /\ bb \in Seq(Events) /\ Len(bb) = Len(b) + 1 /\ bb[Len(b) + 1] = m + 1
      /\ \A i \in 1 .. Len(b) : bb[i] = b[i]
  BY <1>1, <1>2
<1> HIDE DEF bb
<1>4. \A i \in 1 .. Len(bb) : bb[i] = j + Len(t) + i
  <2> SUFFICES ASSUME NEW i \in 1 .. Len(bb) PROVE bb[i] = j + Len(t) + i
    OBVIOUS
  <2>1. i \in 1 .. Len(b) \/ i = Len(b) + 1
    BY <1>2, <1>3
  <2> QED BY <1>2, <1>3, <2>1
<1>5. Len(t) + Len(bb) + j = m + 1
  BY <1>2, <1>3
<1>6. Passed(t, bb, j, m + 1)
  BY <1>2, <1>3, <1>4, <1>5 DEF Flow, Passed
<1> QED BY <1>6 DEF bb, Flow

\* The goroutine takes the first event.
LEMMA PassedTakes ==
    ASSUME NEW t, NEW b, NEW j, NEW m, Passed(t, b, j, m), b # <<>>
    PROVE  /\ Head(b) = j + Len(t) + 1 /\ Head(b) \in Events
           /\ Passed(Append(t, Head(b)), Tail(b), j, m)
<1> DEFINE e == Head(b)
           tt == Append(t, e)
           bb == Tail(b)
<1>1. /\ t \in Seq(Events) /\ b \in Seq(Events) /\ j \in Nat /\ m \in Nat
      /\ Len(t) \in Nat /\ Len(b) \in Nat /\ Len(b) > 0
      /\ Len(t) + Len(b) + j = m /\ m <= MaxEvents
      /\ \A i \in 1 .. Len(t) : t[i] = j + i
      /\ \A i \in 1 .. Len(b) : b[i] = j + Len(t) + i
  BY DEF Passed
<1>2. e = j + Len(t) + 1 /\ e \in Events
  BY <1>1
<1>3. /\ bb \in Seq(Events) /\ Len(bb) = Len(b) - 1 /\ \A i \in 1 .. Len(bb) : bb[i] = b[i + 1]
  BY <1>1
<1> HIDE DEF e
<1>4. /\ tt \in Seq(Events) /\ Len(tt) = Len(t) + 1 /\ tt[Len(t) + 1] = e
      /\ \A i \in 1 .. Len(t) : tt[i] = t[i]
  BY <1>1, <1>2
<1> HIDE DEF tt, bb
<1>5. Len(tt) + Len(bb) + j = m
  <2>1. Len(tt) = Len(t) + 1 /\ Len(bb) = Len(b) - 1
    BY <1>3, <1>4
  <2>2. Len(t) \in Nat /\ Len(b) \in Nat /\ j \in Nat /\ Len(t) + Len(b) + j = m
    BY <1>1
  <2> QED BY <2>1, <2>2
<1>6. ASSUME NEW i \in 1 .. Len(tt) PROVE tt[i] = j + i
  <2>1. i \in 1 .. Len(t) \/ i = Len(t) + 1
    BY <1>1, <1>4
  <2>2. CASE i \in 1 .. Len(t)
    BY <1>1, <1>4, <2>2
  <2>3. CASE i = Len(t) + 1
    <3>1. tt[i] = j + Len(t) + 1 /\ j \in Nat /\ Len(t) \in Nat
      BY <1>1, <1>2, <1>4, <2>3
    <3> QED BY <2>3, <3>1
  <2> QED BY <2>1, <2>2, <2>3
<1>7. ASSUME NEW i \in 1 .. Len(bb) PROVE bb[i] = j + Len(tt) + i
  <2>1. i + 1 \in 1 .. Len(b) /\ i \in Nat
    BY <1>1, <1>3
  <2>2. bb[i] = j + Len(t) + (i + 1)
    BY <1>1, <1>3, <2>1
  <2> QED BY <1>1, <1>4, <2>1, <2>2
<1>8. Passed(tt, bb, j, m)
  BY <1>1, <1>3, <1>4, <1>5, <1>6, <1>7 DEF Passed
<1> QED BY <1>2, <1>8 DEF e, tt, bb

\* The goroutine hands an event on if it passes.
LEMMA ChosenTakes ==
    ASSUME NEW t \in Seq(Events), NEW h, NEW A, NEW e \in Events, Chosen(t, h, A),
           \A i \in 1 .. Len(t) : t[i] < e
    PROVE  Chosen(Append(t, e), IF e \in A THEN Append(h, e) ELSE h, A)
<1> DEFINE tt == Append(t, e)
           hh == Append(h, e)
           Elems(s) == {s[i] : i \in 1 .. Len(s)}
<1>1. h \in Seq(Events) /\ Len(h) \in Nat /\ Len(t) \in Nat
  BY DEF Chosen
<1>2. ASSUME NEW s \in Seq(Events)
      PROVE  /\ Append(s, e) \in Seq(Events) /\ Len(Append(s, e)) = Len(s) + 1
             /\ Append(s, e)[Len(s) + 1] = e
             /\ \A i \in 1 .. Len(s) : Append(s, e)[i] = s[i]
             /\ Elems(Append(s, e)) = Elems(s) \cup {e}
  <2> DEFINE ss == Append(s, e)
  <2>1. /\ ss \in Seq(Events) /\ Len(ss) = Len(s) + 1 /\ Len(s) \in Nat
        /\ ss[Len(s) + 1] = e /\ \A i \in 1 .. Len(s) : ss[i] = s[i]
    OBVIOUS
  <2> HIDE DEF ss
  <2>2. \A i \in 1 .. Len(ss) : i \in 1 .. Len(s) \/ i = Len(s) + 1
    BY <2>1
  <2>3. 1 .. Len(s) \subseteq 1 .. Len(ss) /\ Len(s) + 1 \in 1 .. Len(ss)
    BY <2>1
  <2>4. Elems(ss) = Elems(s) \cup {e}
    BY <2>1, <2>2, <2>3
  <2> QED BY <2>1, <2>4 DEF ss
<1>3. Elems(tt) = Elems(t) \cup {e}
  BY <1>2
<1>4. Elems(h) = Elems(t) \cap A /\ \A i, k \in 1 .. Len(h) : i < k => h[i] < h[k]
  BY DEF Chosen
<1> HIDE DEF tt
<1>5. CASE e \in A
  <2>1. /\ hh \in Seq(Events) /\ Len(hh) = Len(h) + 1 /\ hh[Len(h) + 1] = e
        /\ \A i \in 1 .. Len(h) : hh[i] = h[i]
        /\ Elems(hh) = Elems(h) \cup {e}
    BY <1>1, <1>2
  <2> HIDE DEF hh
  <2>2. \A i \in 1 .. Len(h) : h[i] < e
    <3>1. \A i \in 1 .. Len(h) : h[i] \in Elems(h)
      OBVIOUS
    <3>2. \A x \in Elems(t) : x < e
      OBVIOUS
    <3> HIDE DEF Elems
    <3> QED BY <1>4, <3>1, <3>2
  <2>3. ASSUME NEW i \in 1 .. Len(hh), NEW k \in 1 .. Len(hh), i < k
        PROVE  hh[i] < hh[k]
    <3>1. i \in 1 .. Len(h) /\ (k \in 1 .. Len(h) \/ k = Len(h) + 1)
      BY <1>1, <2>1, <2>3
    <3> QED BY <1>4, <2>1, <2>2, <2>3, <3>1
  <2>4. Elems(hh) = Elems(tt) \cap A
    <3> HIDE DEF Elems
    <3> QED BY <1>3, <1>4, <1>5, <2>1
  <2>5. Chosen(tt, hh, A)
    BY <2>1, <2>3, <2>4 DEF Chosen
  <2> QED BY <1>5, <2>5 DEF hh, tt
<1>6. CASE e \notin A
  <2>1. Elems(h) = Elems(tt) \cap A
    <3> HIDE DEF Elems
    <3> QED BY <1>3, <1>4, <1>6
  <2>2. Chosen(tt, h, A)
    BY <1>1, <1>4, <2>1 DEF Chosen
  <2> QED BY <1>6, <2>2 DEF tt
<1> QED BY <1>5, <1>6

\* Both together: one step of the goroutine.
LEMMA FlowTakes ==
    ASSUME NEW t, NEW b, NEW h, NEW j, NEW m, NEW A, Flow(t, b, h, j, m, A), b # <<>>
    PROVE  Flow(Append(t, Head(b)), Tail(b), IF Head(b) \in A THEN Append(h, Head(b)) ELSE h, j, m, A)
<1>1. Passed(t, b, j, m) /\ Chosen(t, h, A)
  BY DEF Flow
<1>2. /\ Head(b) = j + Len(t) + 1 /\ Head(b) \in Events
      /\ Passed(Append(t, Head(b)), Tail(b), j, m)
  BY <1>1, PassedTakes
<1>3. t \in Seq(Events) /\ j \in Nat /\ \A i \in 1 .. Len(t) : t[i] = j + i
  BY <1>1 DEF Passed
<1>4. \A i \in 1 .. Len(t) : t[i] < Head(b)
  BY <1>2, <1>3
<1>5. Chosen(Append(t, Head(b)), IF Head(b) \in A THEN Append(h, Head(b)) ELSE h, A)
  BY <1>1, <1>2, <1>3, <1>4, ChosenTakes
<1> QED BY <1>2, <1>5 DEF Flow

\* What went through is a piece of what was received.
LEMMA FlowMeans ==
    ASSUME NEW s \in Seq(Events), NEW t \in Seq(Events), NEW b \in Seq(Events), NEW j \in Nat, NEW m \in Nat,
           Numbered(s), Passed(t, b, j, m), m <= Len(s)
    PROVE  t \o b = SubSeq(s, j + 1, m)
<1>1. /\ t \in Seq(Events) /\ b \in Seq(Events) /\ j \in Nat /\ m \in Nat /\ Len(t) + Len(b) = m - j
      /\ Len(t) \in Nat /\ Len(b) \in Nat /\ Len(s) \in Nat
      /\ \A i \in 1 .. Len(t) : t[i] = j + i
      /\ \A i \in 1 .. Len(b) : b[i] = j + Len(t) + i
  BY DEF Passed
<1> DEFINE c == t \o b
           p == SubSeq(s, j + 1, m)
<1>2. /\ c \in Seq(Events) /\ Len(c) = Len(t) + Len(b)
      /\ \A i \in 1 .. Len(t) + Len(b) : c[i] = IF i <= Len(t) THEN t[i] ELSE b[i - Len(t)]
  BY <1>1
<1>3. \A i \in j + 1 .. m : i \in 1 .. Len(s)
  BY <1>1
<1>4. /\ p \in Seq(Events) /\ Len(p) = m - j
      /\ \A i \in 1 .. m - j : p[i] = s[j + i]
  <2>1. \A i \in j + 1 .. m : s[i] \in Events
    BY <1>3
  <2>2. p \in Seq(Events) /\ Len(p) = IF j + 1 <= m THEN m - (j + 1) + 1 ELSE 0
    BY <1>1, <2>1
  <2>3. \A i \in 1 .. m - (j + 1) + 1 : p[i] = s[(j + 1) + i - 1]
    BY <1>1
  <2> HIDE DEF p
  <2>4. m - (j + 1) + 1 = m - j /\ m - j >= 0
    BY <1>1
  <2>5. \A i \in 1 .. m - j : (j + 1) + i - 1 = j + i
    BY <1>1
  <2> QED BY <1>1, <2>2, <2>3, <2>4, <2>5
<1> HIDE DEF c, p
<1>5. ASSUME NEW i \in 1 .. m - j PROVE c[i] = p[i]
  <2>1. i \in 1 .. Len(t) + Len(b) /\ i \in Nat /\ j + i \in 1 .. Len(s)
    BY <1>1, <1>3
  <2>2. p[i] = j + i
    BY <1>4, <2>1 DEF Numbered
  <2>3. CASE i <= Len(t)
    <3>1. i \in 1 .. Len(t) /\ c[i] = t[i]
      BY <1>1, <1>2, <2>1, <2>3
    <3> QED BY <1>1, <2>2, <3>1
  <2>4. CASE ~ (i <= Len(t))
    <3>1. i - Len(t) \in 1 .. Len(b) /\ c[i] = b[i - Len(t)]
      BY <1>1, <1>2, <2>1, <2>4
    <3>2. c[i] = j + Len(t) + (i - Len(t))
      BY <1>1, <3>1
    <3> QED BY <1>1, <2>1, <2>2, <3>2
  <2> QED BY <2>3, <2>4
<1>6. Len(c) = m - j
  BY <1>1, <1>2
<1>7. c = p
  <2>1. c = [i \in 1 .. m - j |-> c[i]] /\ p = [i \in 1 .. m - j |-> p[i]]
    BY <1>2, <1>4, <1>6
  <2>2. [i \in 1 .. m - j |-> c[i]] = [i \in 1 .. m - j |-> p[i]]
    BY <1>5
  <2> QED BY <2>1, <2>2
<1> QED BY <1>7 DEF c, p

-----------------------------------------------------------------------------
\* Types, of every step; the bound on a destination is the guard of a send.
LEMMA ChTypes == ASSUME TypeOK, ChLoop, [Next]_vars PROVE TypeOK'
<1> DEFINE Control == /\ pc \in [Starters -> {"call", "once", "returned", "refused"}]
                      /\ ctxDone \subseteq Starters
                      /\ once \in Starters \cup {NoOne}
                      /\ loop \in {"off", "select", "distribute", "sending", "stop", "ended"}
                      /\ lock \in {NoOne, "loop"}
                      /\ closed \subseteq Starters
                      /\ reader \in [Starters -> {"off", "on", "ended"}]
           Data == /\ sent \in Seq(Events) /\ Len(sent) <= MaxEvents
                   /\ dest \in Seq(Starters)
                   /\ next \in Nat
                   /\ buf \in [Starters -> Seq(Events)]
                   /\ \A c \in Starters : Len(buf[c]) <= DestBufferSize
                   /\ joined \in [Starters -> 0..MaxEvents]
                   /\ handled \in [Starters -> Seq(Events)]
                   /\ taken \in [Starters -> Seq(Events)]
<1>0. Control /\ Data /\ open \in BOOLEAN
  BY DEF TypeOK
<1> SUFFICES Control' /\ Data' /\ open' \in BOOLEAN
  BY DEF TypeOK
<1>1. CASE ReceiveEvent
  <2>1. Len(sent) + 1 \in Events /\ Len(sent) + 1 <= MaxEvents
    BY <1>0, <1>1, ConstantsAssumption DEF ReceiveEvent, Events
  <2>2. Data'
    BY <1>0, <1>1, <2>1 DEF ReceiveEvent, destVars, readVars
  <2>3. Control'
    BY <1>0, <1>1 DEF ReceiveEvent, destVars, readVars
  <2> QED BY <1>0, <1>1, <2>2, <2>3, Zenon DEF ReceiveEvent
<1>2. CASE LeaveLoop \/ DistributeLocks \/ DistributeUnlocks \/ CloseSource
  <2>1. Data'
    BY <1>0, <1>2 DEF LeaveLoop, DistributeLocks, DistributeUnlocks, CloseSource, destVars, readVars
  <2>2. Control'
    BY <1>0, <1>2 DEF LeaveLoop, DistributeLocks, DistributeUnlocks, CloseSource, destVars, readVars
  <2>3. open' \in BOOLEAN
    BY <1>0, <1>2, Zenon DEF LeaveLoop, DistributeLocks, DistributeUnlocks, CloseSource
  <2> QED BY <2>1, <2>2, <2>3
<1>3. CASE DistributeSends
  <2>1. dest[next] \in Starters
    BY <1>0, <1>3 DEF DistributeSends, ChLoop
  <2>2. buf[dest[next]] \in Seq(Events) /\ sent[Len(sent)] \in Events
    <3>1. Len(sent) \in Nat /\ Len(sent) > 0 /\ sent \in Seq(Events)
      BY <1>0, <1>3 DEF DistributeSends, ChLoop
    <3>2. Len(sent) \in 1 .. Len(sent)
      BY <3>1
    <3>3. sent[Len(sent)] \in Events
      BY <3>1, <3>2
    <3> QED BY <1>0, <2>1, <3>3
  <2>3. /\ Append(buf[dest[next]], sent[Len(sent)]) \in Seq(Events)
        /\ Len(Append(buf[dest[next]], sent[Len(sent)])) <= DestBufferSize
    BY <1>3, <2>1, <2>2, ConstantsAssumption DEF DistributeSends
  <2>4. buf' \in [Starters -> Seq(Events)] /\ \A c \in Starters : Len(buf'[c]) <= DestBufferSize
    BY <1>0, <1>3, <2>1, <2>3 DEF DistributeSends
  <2>5. Data'
    <3>1. next' \in Nat /\ UNCHANGED <<sent, dest, joined, handled, taken>>
      BY <1>0, <1>3 DEF DistributeSends, readVars
    <3> QED BY <1>0, <2>4, <3>1
  <2>6. Control' /\ open' \in BOOLEAN
    BY <1>0, <1>3 DEF DistributeSends, readVars
  <2> QED BY <2>5, <2>6
<1>4. CASE StopCloses
  <2>1. \A n \in 1 .. Len(dest) : dest[n] \in Starters
    BY <1>0
  <2>2. closed' \subseteq Starters
    BY <1>4, <2>1 DEF StopCloses
  <2> QED BY <1>0, <1>4, <2>2 DEF StopCloses, readVars
<1>5. ASSUME NEW c \in Starters, StartRefused(c) \/ StartReturns(c) \/ Cancel(c)
      PROVE  Control' /\ Data' /\ open' \in BOOLEAN
  BY <1>0, <1>5 DEF StartRefused, StartReturns, Cancel, destVars, readVars
<1>6. ASSUME NEW c \in Starters, StartAdds(c)
      PROVE  Control' /\ Data' /\ open' \in BOOLEAN
  <2>1. (IF loop = "distribute" THEN Len(sent) - 1 ELSE Len(sent)) \in 0 .. MaxEvents
    BY <1>0, ConstantsAssumption DEF ChLoop
  <2> QED BY <1>0, <1>6, <2>1 DEF StartAdds, readVars
<1>7. ASSUME NEW c \in Starters, Read(c)
      PROVE  Control' /\ Data' /\ open' \in BOOLEAN
  <2>1. buf[c] \in Seq(Events) /\ buf[c] # <<>> /\ Len(buf[c]) <= DestBufferSize
    BY <1>0, <1>7 DEF Read
  <2>2. Head(buf[c]) \in Events /\ Tail(buf[c]) \in Seq(Events) /\ Len(Tail(buf[c])) <= DestBufferSize
    BY <2>1, ConstantsAssumption
  <2>3. buf' \in [Starters -> Seq(Events)] /\ \A d \in Starters : Len(buf'[d]) <= DestBufferSize
    BY <1>0, <1>7, <2>2 DEF Read
  <2>4. taken' \in [Starters -> Seq(Events)] /\ handled' \in [Starters -> Seq(Events)]
    BY <1>0, <1>7, <2>2 DEF Read
  <2> QED BY <1>0, <1>7, <2>3, <2>4 DEF Read
<1>8. ASSUME NEW c \in Starters, ReaderEnds(c)
      PROVE  Control' /\ Data' /\ open' \in BOOLEAN
  BY <1>0, <1>8 DEF ReaderEnds, destVars
<1>9. CASE UNCHANGED vars
  BY <1>0, <1>9 DEF vars, destVars, readVars
<1> HIDE DEF Control, Data
<1> QED BY <1>1, <1>2, <1>3, <1>4, <1>5, <1>6, <1>7, <1>8, <1>9
        DEF Next, LoopStep, StartStep, ReaderStep

\* The loop.
LEMMA ChLoops == ASSUME TypeOK, ChLoop, [Next]_vars PROVE ChLoop'
<1>1. CASE ReceiveEvent
  <2>1. /\ sent' = Append(sent, Len(sent) + 1) /\ loop' = "distribute" /\ loop = "select"
        /\ UNCHANGED <<once, lock, next>> /\ sent \in Seq(Events)
    BY <1>1 DEF ReceiveEvent, TypeOK, destVars
  <2>2. Len(sent') = Len(sent) + 1 /\ \A i \in 1 .. Len(sent') : sent'[i] = i
    BY <2>1 DEF ChLoop
  <2> QED BY <2>1, <2>2 DEF ChLoop
<1>2. CASE LeaveLoop \/ DistributeLocks \/ DistributeUnlocks \/ CloseSource \/ DistributeSends \/ StopCloses
  BY <1>2, SMTT(40) DEF LeaveLoop, DistributeLocks, DistributeUnlocks, CloseSource, DistributeSends,
                        StopCloses, ChLoop, TypeOK, destVars
<1>3. ASSUME NEW c \in Starters
      PROVE StartRefused(c) \/ StartReturns(c) \/ Cancel(c) \/ StartAdds(c) \/ Read(c) \/ ReaderEnds(c) => ChLoop'
  BY ConstantsAssumption DEF StartRefused, StartReturns, Cancel, StartAdds, Read, ReaderEnds,
                              ChLoop, destVars
<1>4. CASE UNCHANGED vars
  BY <1>4 DEF vars, ChLoop, destVars
<1> QED BY <1>1, <1>2, <1>3, <1>4 DEF Next, LoopStep, StartStep, ReaderStep

\* The destinations.
LEMMA ChDested == ASSUME TypeOK, ChLoop, ChDests, [Next]_vars PROVE ChDests'
<1>1. CASE ReceiveEvent \/ LeaveLoop \/ DistributeLocks \/ DistributeUnlocks \/ CloseSource \/ StopCloses
  BY <1>1, SMTT(40) DEF ReceiveEvent, LeaveLoop, DistributeLocks, DistributeUnlocks, CloseSource,
                        StopCloses, ChDests, destVars, readVars
<1>2. CASE DistributeSends
  <2>1. next \in 1 .. Len(dest) => pc[dest[next]] # "call"
    BY DEF ChDests
  <2>2. next \in 1 .. Len(dest) /\ UNCHANGED <<pc, dest, taken, handled, reader>>
        /\ \A c \in Starters : c = dest[next] \/ buf'[c] = buf[c]
    BY <1>2 DEF DistributeSends, TypeOK, readVars, ChLoop
  <2> QED BY <2>1, <2>2 DEF ChDests
<1>3. ASSUME NEW c \in Starters, StartRefused(c) \/ StartReturns(c) \/ Cancel(c) \/ ReaderEnds(c)
      PROVE ChDests'
  <2>1. /\ UNCHANGED <<dest, taken, buf, handled>>
        /\ \A d \in Starters : d = c \/ (pc'[d] = pc[d] /\ reader'[d] = reader[d])
    BY <1>3 DEF StartRefused, StartReturns, Cancel, ReaderEnds, TypeOK, destVars, readVars
  <2>2. \/ pc[c] = "call" /\ pc'[c] = "refused" /\ reader'[c] = reader[c]
        \/ pc[c] = "once" /\ pc'[c] = "returned"
        \/ pc'[c] = pc[c] /\ reader'[c] = reader[c]
        \/ pc'[c] = pc[c] /\ reader[c] = "on"
    BY <1>3 DEF StartRefused, StartReturns, Cancel, ReaderEnds, TypeOK, destVars, readVars
  <2>3. \A d \in Starters :
            /\ pc'[d] = "call" => pc[d] = "call"
            /\ pc'[d] # "returned" => pc[d] # "returned" /\ reader'[d] = reader[d]
            /\ pc'[d] \in {"once", "returned"} <=> pc[d] \in {"once", "returned"}
    BY <2>1, <2>2 DEF ChDests
  <2>4. \A n \in 1 .. Len(dest) : dest[n] \in Starters
    BY DEF TypeOK
  <2> QED BY <2>1, <2>3, <2>4 DEF ChDests
<1>4. ASSUME NEW c \in Starters, StartAdds(c) PROVE ChDests'
  <2>1. /\ UNCHANGED <<taken, buf, handled, reader>> /\ pc[c] = "call" /\ pc'[c] = "once"
        /\ \A d \in Starters : d = c \/ pc'[d] = pc[d]
        /\ dest' = Append(dest, c) /\ dest \in Seq(Starters)
    BY <1>4 DEF StartAdds, TypeOK, readVars
  <2>2. /\ Len(dest) \in Nat /\ Len(dest') = Len(dest) + 1 /\ dest'[Len(dest) + 1] = c
        /\ \A n \in 1 .. Len(dest) : dest'[n] = dest[n] /\ dest[n] \in Starters
    BY ONLY <2>1, c \in Starters
  <2>3. \A n \in 1 .. Len(dest') : n \in 1 .. Len(dest) \/ n = Len(dest) + 1
    BY <2>2
  <2>4. \A n \in 1 .. Len(dest) : dest[n] # c
    BY <2>1 DEF ChDests
  <2>5. \A n, k \in 1 .. Len(dest') : dest'[n] = dest'[k] => n = k
    BY <2>2, <2>3, <2>4 DEF ChDests
  <2>6. \A n \in 1 .. Len(dest') : pc'[dest'[n]] \in {"once", "returned"}
    BY <2>1, <2>2, <2>3, <2>4 DEF ChDests
  <2>7. \A d \in Starters : pc'[d] \in {"once", "returned"} => \E n \in 1 .. Len(dest') : dest'[n] = d
    <3>1. Len(dest) + 1 \in 1 .. Len(dest') /\ 1 .. Len(dest) \subseteq 1 .. Len(dest')
      BY <2>2
    <3> QED BY <2>1, <2>2, <3>1 DEF ChDests
  <2>8. \A d \in Starters : /\ pc'[d] = "call" => pc[d] = "call"
                            /\ pc'[d] # "returned" => pc[d] # "returned"
    BY <2>1
  <2> QED BY <2>1, <2>5, <2>6, <2>7, <2>8 DEF ChDests
<1>5. ASSUME NEW c \in Starters, Read(c) PROVE ChDests'
  <2>1. /\ UNCHANGED <<dest, pc, reader>> /\ reader[c] = "on"
        /\ \A d \in Starters : d = c \/ (taken'[d] = taken[d] /\ buf'[d] = buf[d] /\ handled'[d] = handled[d])
    BY <1>5 DEF Read, TypeOK
  <2> QED BY <2>1 DEF ChDests
<1>6. CASE UNCHANGED vars
  BY <1>6 DEF vars, ChDests, destVars, readVars
<1> QED BY <1>1, <1>2, <1>3, <1>4, <1>5, <1>6 DEF Next, LoopStep, StartStep, ReaderStep

\* The step of what went through: an event is offered to every destination
\* by the time the lock is released.
LEMMA ChFlows == ASSUME ChInv, [Next]_vars PROVE ChFlow'
<1> DEFINE F(n) == Flow(taken[dest[n]], buf[dest[n]], handled[dest[n]], joined[dest[n]], Offered(n),
                        accepts[dest[n]])
<1>0. /\ \A n \in 1 .. Len(dest) : dest[n] \in Starters /\ F(n)
      /\ Len(sent) \in Nat /\ Len(dest) \in Nat
  BY DEF ChInv, TypeOK, ChFlow
<1>1. CASE ReceiveEvent
  <2>1. /\ UNCHANGED <<taken, buf, handled, joined, dest, next>> /\ loop = "select" /\ loop' = "distribute"
        /\ sent' = Append(sent, Len(sent) + 1) /\ sent \in Seq(Events)
    BY <1>1 DEF ReceiveEvent, destVars, readVars, ChInv, TypeOK
  <2>2. Len(sent') = Len(sent) + 1
    BY ONLY <2>1
  <2>3. \A n \in 1 .. Len(dest) : Offered(n)' = Offered(n)
    BY <1>0, <2>1, <2>2 DEF Offered, Behind
  <2> QED BY <1>0, <2>1, <2>3 DEF ChFlow
<1>2. CASE LeaveLoop \/ DistributeLocks \/ DistributeUnlocks \/ CloseSource \/ StopCloses
  <2>1. UNCHANGED <<taken, buf, handled, joined, dest, sent>>
    BY <1>2 DEF LeaveLoop, DistributeLocks, DistributeUnlocks, CloseSource, StopCloses, destVars, readVars
  <2>2. ASSUME NEW n \in 1 .. Len(dest) PROVE Behind(n)' = Behind(n)
    <3>1. n >= 1 /\ n <= Len(dest) /\ next \in Nat
      BY <1>0 DEF ChInv, TypeOK
    <3> QED BY <1>2, <3>1 DEF LeaveLoop, DistributeLocks, DistributeUnlocks, CloseSource, StopCloses, Behind, destVars
  <2>3. \A n \in 1 .. Len(dest) : Offered(n)' = Offered(n)
    BY <2>1, <2>2 DEF Offered
  <2> QED BY <1>0, <2>1, <2>3 DEF ChFlow
<1>3. CASE DistributeSends
  <2> DEFINE d == dest[next]
  <2>1. /\ UNCHANGED <<taken, handled, joined, dest, sent, loop>> /\ loop = "sending"
        /\ next \in 1 .. Len(dest) /\ next' = next + 1 /\ next \in Nat
        /\ buf'[d] = Append(buf[d], sent[Len(sent)])
        /\ \A c \in Starters : c = d \/ buf'[c] = buf[c]
        /\ Len(sent) > 0
    <3>1. next \in 1 .. Len(dest) /\ next \in Nat
      BY <1>0, <1>3 DEF DistributeSends, ChInv, TypeOK, ChLoop
    <3>2. d \in Starters
      BY <1>0, <3>1
    <3> QED BY <1>3, <3>1, <3>2 DEF DistributeSends, ChInv, TypeOK, ChLoop, readVars
  <2>2. sent[Len(sent)] = Len(sent) /\ Len(sent) <= MaxEvents
    <3>1. Len(sent) \in 1 .. Len(sent)
      BY <1>0, <2>1
    <3> QED BY <3>1 DEF ChInv, ChLoop, TypeOK
  <2>3. ASSUME NEW n \in 1 .. Len(dest), n # next PROVE F(n)'
    <3>1. dest[n] # d /\ dest[n] \in Starters
      BY <1>0, <2>1, <2>3 DEF ChInv, ChDests
    <3>2. Offered(n)' = Offered(n)
      BY <1>0, <2>1, <2>3 DEF Offered, Behind
    <3> QED BY <1>0, <2>1, <3>1, <3>2
  <2>4. ASSUME NEW n \in 1 .. Len(dest), n = next PROVE F(n)'
    <3>1. Behind(n) /\ Offered(n) = Len(sent) - 1
      BY <2>1, <2>4 DEF Behind, Offered
    <3>2. Flow(taken[d], buf[d], handled[d], joined[d], Len(sent) - 1, accepts[d])
      BY <1>0, <2>1, <2>4, <3>1
    <3>3. Flow(taken[d], Append(buf[d], (Len(sent) - 1) + 1), handled[d], joined[d], (Len(sent) - 1) + 1, accepts[d])
      <4>1. (Len(sent) - 1) + 1 <= MaxEvents
        <5>1. Len(sent) \in Nat
          BY <1>0
        <5> QED BY ONLY <2>2, <5>1
      <4> HIDE DEF d
      <4> QED BY <3>2, <4>1, FlowSends
    <3>4. (Len(sent) - 1) + 1 = Len(sent)
      BY <1>0
    <3>5. Flow(taken[d], Append(buf[d], Len(sent)), handled[d], joined[d], Len(sent), accepts[d])
      BY <3>3, <3>4
    <3>6. ~ Behind(n)' /\ Offered(n)' = Len(sent)
      BY <1>0, <2>1, <2>4 DEF Behind, Offered
    <3> QED BY <2>1, <2>2, <2>4, <3>5, <3>6
  <2>5. \A n \in 1 .. Len(dest) : F(n)'
    BY <2>3, <2>4
  <2> QED BY <2>1, <2>5 DEF ChFlow
<1>4. ASSUME NEW c \in Starters, StartAdds(c) PROVE ChFlow'
  <2>1. /\ UNCHANGED <<taken, buf, handled, loop, sent, next>> /\ pc[c] = "call" /\ lock = NoOne
        /\ \A d \in Starters : d = c \/ joined'[d] = joined[d]
        /\ joined'[c] = IF loop = "distribute" THEN Len(sent) - 1 ELSE Len(sent)
        /\ dest' = Append(dest, c) /\ dest \in Seq(Starters)
    BY <1>4 DEF StartAdds, readVars, ChInv, TypeOK
  <2>2. /\ Len(dest') = Len(dest) + 1 /\ dest'[Len(dest) + 1] = c
        /\ \A n \in 1 .. Len(dest) : dest'[n] = dest[n]
    BY <2>1
  <2>3. \A n \in 1 .. Len(dest') : n \in 1 .. Len(dest) \/ n = Len(dest) + 1
    BY <1>0, <2>2
  <2>4. ASSUME NEW n PROVE Offered(n)' = Offered(n)
    BY <2>1 DEF Offered, Behind
  <2>5. ASSUME NEW n \in 1 .. Len(dest) PROVE F(n)'
    <3>1. dest[n] # c /\ dest'[n] = dest[n] /\ dest[n] \in Starters
      BY <1>0, <2>1, <2>2 DEF ChInv, ChDests
    <3> QED BY <1>0, <2>1, <2>4, <3>1
  <2>6. ASSUME NEW n \in 1 .. Len(dest'), n = Len(dest) + 1 PROVE F(n)'
    <3>1. loop # "sending"
      BY <2>1 DEF ChInv, ChLoop, NoOne
    <3>2. Offered(n)' = joined'[c] /\ joined'[c] \in 0 .. MaxEvents
      <4>1. Offered(n)' = joined'[c]
        <5>1. CASE loop = "distribute"
          BY <1>0, <2>1, <5>1 DEF Offered, Behind
        <5>2. CASE loop # "distribute"
          BY <1>0, <2>1, <3>1, <5>2, SMTT(40) DEF Offered, Behind
        <5> QED BY <5>1, <5>2
      <4>2. Len(sent) <= MaxEvents /\ (loop = "distribute" => Len(sent) > 0)
        BY DEF ChInv, ChLoop, TypeOK
      <4> QED BY <1>0, <2>1, <4>1, <4>2, ConstantsAssumption
    <3>3. taken'[c] = <<>> /\ buf'[c] = <<>> /\ handled'[c] = <<>>
      BY <2>1 DEF ChInv, ChDests
    <3>4. Flow(<<>>, <<>>, <<>>, joined'[c], joined'[c], accepts[c])
      BY <3>2, FlowStarts
    <3> QED BY <2>2, <2>6, <3>2, <3>3, <3>4
  <2>7. \A n \in 1 .. Len(dest') : F(n)'
    BY <2>3, <2>5, <2>6
  <2> QED BY <2>7 DEF ChFlow
<1>5. ASSUME NEW c \in Starters, StartRefused(c) \/ StartReturns(c) \/ Cancel(c) \/ ReaderEnds(c)
      PROVE ChFlow'
  <2>1. UNCHANGED <<taken, buf, handled, joined, dest, sent, next>>
    BY <1>5 DEF StartRefused, StartReturns, Cancel, ReaderEnds, destVars, readVars
  <2>2. loop' = loop \/ (loop = "off" /\ loop' = "select")
    BY <1>5 DEF StartRefused, StartReturns, Cancel, ReaderEnds, ChInv, ChLoop
  <2>3. \A n \in 1 .. Len(dest) : Offered(n)' = Offered(n)
    BY <2>1, <2>2 DEF Offered, Behind
  <2> QED BY <1>0, <2>1, <2>3 DEF ChFlow
<1>6. ASSUME NEW c \in Starters, Read(c) PROVE ChFlow'
  <2>1. /\ UNCHANGED <<joined, dest, sent, next, loop>> /\ buf[c] # <<>>
        /\ taken'[c] = Append(taken[c], Head(buf[c])) /\ buf'[c] = Tail(buf[c])
        /\ handled'[c] = IF Head(buf[c]) \in accepts[c] THEN Append(handled[c], Head(buf[c])) ELSE handled[c]
        /\ \A d \in Starters : d = c \/ (taken'[d] = taken[d] /\ buf'[d] = buf[d] /\ handled'[d] = handled[d])
    BY <1>6 DEF Read, ChInv, TypeOK
  <2>2. \A n \in 1 .. Len(dest) : Offered(n)' = Offered(n)
    BY <2>1 DEF Offered, Behind
  <2>3. ASSUME NEW n \in 1 .. Len(dest) PROVE F(n)'
    <3>1. CASE dest[n] = c
      <4>1. Flow(taken[c], buf[c], handled[c], joined[c], Offered(n), accepts[c])
        BY <1>0, <3>1
      <4>2. Flow(Append(taken[c], Head(buf[c])), Tail(buf[c]),
                 IF Head(buf[c]) \in accepts[c] THEN Append(handled[c], Head(buf[c])) ELSE handled[c],
                 joined[c], Offered(n), accepts[c])
        BY <2>1, <4>1, FlowTakes
      <4>3. Flow(taken'[c], buf'[c], handled'[c], joined'[c], Offered(n)', accepts[c])
        BY <2>1, <2>2, <4>2
      <4> QED BY <2>1, <3>1, <4>3
    <3>2. CASE dest[n] # c
      BY <1>0, <2>1, <2>2, <3>2
    <3> QED BY <3>1, <3>2
  <2> QED BY <2>1, <2>3 DEF ChFlow
<1>7. CASE UNCHANGED vars
  <2>1. UNCHANGED <<taken, buf, handled, joined, dest, sent, next, loop>>
    BY <1>7 DEF vars, destVars, readVars
  <2>2. \A n \in 1 .. Len(dest) : Offered(n)' = Offered(n)
    BY <2>1 DEF Offered, Behind
  <2> QED BY <1>0, <2>1, <2>2 DEF ChFlow
<1> QED BY <1>1, <1>2, <1>3, <1>4, <1>5, <1>6, <1>7 DEF Next, LoopStep, StartStep, ReaderStep

\* The invariant says what InOrder says.
LEMMA ChMeans == ASSUME ChInv PROVE InOrder
<1> SUFFICES ASSUME NEW n \in 1 .. Len(dest)
             PROVE  LET c == dest[n] IN
                    /\ taken[c] \o buf[c] = SubSeq(sent, joined[c] + 1, Offered(n))
                    /\ {handled[c][i] : i \in 1 .. Len(handled[c])}
                         = {taken[c][i] : i \in 1 .. Len(taken[c])} \cap accepts[c]
                    /\ \A i, j \in 1 .. Len(handled[c]) : i < j => handled[c][i] < handled[c][j]
  BY DEF InOrder, Offered
<1> DEFINE c == dest[n]
<1>1. Passed(taken[c], buf[c], joined[c], Offered(n)) /\ Chosen(taken[c], handled[c], accepts[c])
  BY DEF ChInv, ChFlow, Flow
<1>2. sent \in Seq(Events) /\ Numbered(sent)
  BY DEF ChInv, TypeOK, ChLoop, Numbered
<1>3. Offered(n) <= Len(sent)
  BY <1>2 DEF Offered
<1> HIDE DEF c
<1>4. taken[c] \o buf[c] = SubSeq(sent, joined[c] + 1, Offered(n))
  <2>1. taken[c] \in Seq(Events) /\ buf[c] \in Seq(Events) /\ joined[c] \in Nat /\ Offered(n) \in Nat
    BY <1>1 DEF Passed
  <2>2. \A t, b \in Seq(Events), j, m \in Nat :
            Passed(t, b, j, m) /\ m <= Len(sent) => t \o b = SubSeq(sent, j + 1, m)
    BY <1>2, FlowMeans
  <2> QED BY <1>1, <1>3, <2>1, <2>2, Zenon
<1> QED BY <1>1, <1>4 DEF Chosen, c

\* InOrder: each destination gets exactly the events received since its Start
\* added it, and its handler exactly those that pass, once each and in order,
\* for any number of Starts, events and any size of the buffers.
THEOREM InOrderHolds == Spec => []InOrder
<1>1. Init => ChInv
  <2> SUFFICES ASSUME Init PROVE ChInv
    OBVIOUS
  <2>1. dest = <<>> /\ Len(dest) = 0 /\ sent = <<>> /\ Len(sent) = 0
    BY DEF Init
  <2>2. TypeOK
    BY <2>1, ConstantsAssumption DEF Init, TypeOK
  <2> QED BY <2>1, <2>2 DEF Init, ChInv, ChLoop, ChDests, ChFlow
<1>2. ChInv /\ [Next]_vars => ChInv'
  BY ChTypes, ChLoops, ChDested, ChFlows DEF ChInv
<1> QED BY <1>1, <1>2, ChMeans, PTL DEF Spec

-----------------------------------------------------------------------------
(* Mapper.                                                                  *)

MPcs == {"idle", "cached", "lock cache", "init", "discover", "check", "lock", "reload", "return"}
MResults == {"none", "ok", "nomatch", "ambiguous", "limited", "failed", "panic"}
MTypes ==
    lookup \in [Threads -> [pc : MPcs, kind : Kinds \cup {M!None}, client : BOOLEAN,
                            result : MResults, missed : BOOLEAN]]

\* One thread discovers at a time, the others wait for the first discovery, and
\* only the thread that holds drm.mu reloads.
MLocks ==
    /\ \A p \in Threads : lookup[p].pc = "discover" => mapOnce = "running"
    /\ \A p \in Threads : lookup[p].pc \in {"check", "lock", "reload"} => mapOnce = "done"
    /\ \A p, q \in Threads : lookup[p].pc = "discover" /\ lookup[q].pc = "discover" => p = q
    /\ \A p \in Threads : lookup[p].pc = "reload" => mapWriter = p

\* A thread that looks up a kind which is away knows that it may miss it.
MMissed ==
    \A p \in Threads : lookup[p].pc # "idle" /\ lookup[p].kind \notin mapServer => lookup[p].missed

MInv == MTypes /\ MLocks /\ MMissed /\ M!LookupsRight

\* What a thread that goes on keeps, and what the others keep.
MGoes(p, at, end) ==
    /\ lookup' \in [Threads -> [pc : MPcs, kind : Kinds \cup {M!None}, client : BOOLEAN,
                               result : MResults, missed : BOOLEAN]]
    /\ lookup'[p].pc = at /\ lookup'[p].result = end
    /\ lookup'[p].kind = lookup[p].kind /\ lookup'[p].missed = lookup[p].missed
    /\ \A q \in Threads : q = p \/ lookup'[q] = lookup[q]

\* Goto changes where the thread is.
LEMMA MGotoGoes ==
    ASSUME MTypes, NEW p \in Threads, NEW x \in MPcs, M!Goto(p, x)
    PROVE  MGoes(p, x, lookup[p].result)
<1>1. lookup' = [lookup EXCEPT ![p] = [lookup[p] EXCEPT !.pc = x]]
  BY DEF M!Goto
<1> QED BY <1>1 DEF MTypes, MGoes

\* End gives the lookup its result.
LEMMA MEndGoes ==
    ASSUME MTypes, NEW p \in Threads, NEW r \in MResults, M!End(p, r)
    PROVE  MGoes(p, "return", r)
<1>1. lookup' = [lookup EXCEPT ![p] = [lookup[p] EXCEPT !.pc = "return", !.result = r]]
  BY DEF M!End, MTypes
<1> QED BY <1>1 DEF MTypes, MGoes, MPcs

\* A lookup that goes on keeps what is known of its kind.
LEMMA MKept ==
    ASSUME MInv, NEW p \in Threads, NEW x \in MPcs \ {"idle"}, NEW r \in MResults, MGoes(p, x, r),
           lookup[p].pc # "idle", mapServer' = mapServer,
           r # "nomatch" \/ r = lookup[p].result \/ lookup[p].kind \notin mapServer
    PROVE  MTypes' /\ MMissed' /\ M!FoundIfServed'
<1>1. MTypes'
  BY DEF MGoes, MTypes
<1>2. \A q \in Threads : q = p \/ lookup'[q] = lookup[q]
  BY DEF MGoes
<1>3. lookup'[p].pc = x /\ lookup'[p].result = r
  BY DEF MGoes
<1>4. lookup'[p].kind = lookup[p].kind /\ lookup'[p].missed = lookup[p].missed
  BY DEF MGoes
<1>5. MMissed'
  BY <1>2, <1>3, <1>4 DEF MInv, MMissed
<1>6. M!FoundIfServed'
  BY <1>2, <1>3, <1>4 DEF MInv, M!FoundIfServed, M!LookupsRight, MMissed
<1> QED BY <1>1, <1>5, <1>6

\* A step of the lookup that neither takes nor needs drm.mu or the once.
LEMMA MAside ==
    ASSUME MInv, NEW p \in Threads, NEW x \in MPcs \ {"idle", "discover", "check", "reload"},
           NEW r \in MResults, MGoes(p, x, r), lookup[p].pc # "idle",
           x = "lock" => lookup[p].pc = "check", r # "nomatch" \/ r = lookup[p].result,
           mapServer' = mapServer, static' = static, mapOnce' = mapOnce, mapWriter' = mapWriter
    PROVE  MInv'
<1>1. MTypes' /\ MMissed' /\ M!FoundIfServed'
  BY MKept
<1>2. \A q \in Threads : q = p \/ lookup'[q] = lookup[q]
  BY DEF MGoes
<1>3. lookup'[p].pc = x
  BY DEF MGoes
<1>4. MLocks'
  <2>1. \A q \in Threads : lookup'[q].pc \in {"discover", "reload"} => lookup'[q] = lookup[q]
    BY <1>2, <1>3
  <2>2. \A q \in Threads : lookup'[q].pc \in {"check", "lock"} => mapOnce = "done"
    BY <1>2, <1>3 DEF MInv, MLocks
  <2> QED BY <2>1, <2>2 DEF MInv, MLocks
<1>5. M!NoWastedReload'
  BY <1>2, <1>3 DEF MInv, M!NoWastedReload, M!LookupsRight
<1> QED BY <1>1, <1>4, <1>5 DEF MInv, M!LookupsRight

\* The step, one action after the other.
LEMMA MapperStep == ASSUME M!None \notin Threads, MInv, [M!Next]_M!vars PROVE MInv'
<1> DEFINE Call == [pc : MPcs, kind : Kinds \cup {M!None}, client : BOOLEAN,
                    result : MResults, missed : BOOLEAN]
<1>0. MTypes /\ MLocks /\ MMissed /\ M!FoundIfServed /\ M!NoWastedReload
  BY DEF MInv, M!LookupsRight
<1> USE DEF MTypes
<1>1. ASSUME NEW p \in Threads, NEW k \in Kinds, NEW client \in BOOLEAN, M!Call(p, k, client)
      PROVE  MInv'
  <2> DEFINE first == IF client THEN "cached" ELSE "init"
             away == k \notin mapServer
             new == [M!Idle EXCEPT !.pc = first, !.kind = k, !.client = client, !.missed = away]
  <2>1. lookup' = [lookup EXCEPT ![p] = new]
    BY <1>1 DEF M!Call
  <2>2. new \in Call
    <3>1. M!Idle \in Call /\ first \in MPcs /\ away \in BOOLEAN
      BY DEF M!Idle, M!None, MPcs, MResults
    <3> HIDE DEF first, away
    <3> QED BY <3>1
  <2>3. /\ new.pc \in {"cached", "init"} /\ new.kind = k /\ new.result = "none"
        /\ (new.missed <=> k \notin mapServer)
    <3>1. new.pc = first /\ new.kind = k /\ new.result = M!Idle.result /\ new.missed = away
      <4>1. M!Idle \in Call
        BY DEF M!Idle, M!None, MPcs, MResults
      <4> HIDE DEF first, away
      <4> QED BY <4>1
    <3> HIDE DEF new
    <3> QED BY <3>1 DEF M!Idle, M!None
  <2> HIDE DEF new
  <2>4. \A q \in Threads : q = p \/ lookup'[q] = lookup[q]
    BY <1>0, <2>1
  <2>5. lookup'[p] = new /\ MTypes'
    BY <1>0, <2>1, <2>2
  <2>6. mapServer' = mapServer /\ static' = static /\ mapOnce' = mapOnce /\ mapWriter' = mapWriter
    BY <1>1 DEF M!Call
  <2>7. MLocks'
    <3>1. \A q \in Threads : lookup'[q].pc \in {"discover", "check", "lock", "reload"}
                             => lookup'[q] = lookup[q]
      BY <2>3, <2>4, <2>5
    <3> QED BY <1>0, <2>6, <3>1 DEF MLocks
  <2>8. MMissed'
    BY <1>0, <2>3, <2>4, <2>5, <2>6 DEF MMissed
  <2>9. M!FoundIfServed' /\ M!NoWastedReload'
    BY <1>0, <2>3, <2>4, <2>5, <2>6 DEF M!FoundIfServed, M!NoWastedReload
  <2> QED BY <2>5, <2>7, <2>8, <2>9 DEF MInv, M!LookupsRight
<1>2. ASSUME NEW p \in Threads, M!getResource(p) PROVE MInv'
  <2>1. MGoes(p, "return", "ok") \/ MGoes(p, "lock cache", lookup[p].result)
    BY <1>0, <1>2, MGotoGoes, MEndGoes DEF M!getResource, MPcs, MResults
  <2>2. /\ lookup[p].pc = "cached" /\ mapServer' = mapServer /\ static' = static /\ mapWriter' = mapWriter
        /\ mapOnce' = mapOnce /\ lookup[p].result \in MResults
    BY <1>0, <1>2 DEF M!getResource
  <2> QED BY <2>1, <2>2, MAside DEF MPcs, MResults
<1>3. ASSUME NEW p \in Threads, M!newResource(p) PROVE MInv'
  <2>1. MGoes(p, "init", lookup[p].result)
    BY <1>0, <1>3, MGotoGoes DEF M!newResource, MPcs
  <2> QED BY <1>0, <1>3, <2>1, MAside DEF M!newResource, MPcs
<1>4. ASSUME NEW p \in Threads, M!init(p) PROVE MInv'
  <2>1. \/ MGoes(p, "discover", lookup[p].result) /\ mapOnce = "no" /\ mapOnce' = "running"
        \/ MGoes(p, "check", lookup[p].result) /\ mapOnce # "running" /\ mapOnce' = "done"
    BY <1>0, <1>4, MGotoGoes DEF M!init, MPcs
  <2>2. lookup[p].pc = "init" /\ mapServer' = mapServer /\ static' = static /\ mapWriter' = mapWriter
    BY <1>4 DEF M!init
  <2>3. MTypes' /\ MMissed' /\ M!FoundIfServed'
    <3>1. lookup[p].result \in MResults
      BY <1>0
    <3> QED BY <2>1, <2>2, <3>1, MKept DEF MPcs
  <2>4. /\ \A q \in Threads : q = p \/ lookup'[q] = lookup[q]
        /\ lookup'[p].pc \in {"discover", "check"}
    BY <2>1 DEF MGoes
  <2>5. MLocks'
    <3>1. CASE mapOnce = "no" /\ mapOnce' = "running" /\ lookup'[p].pc = "discover"
      BY <1>0, <2>2, <2>4, <3>1 DEF MLocks
    <3>2. CASE mapOnce # "running" /\ mapOnce' = "done" /\ lookup'[p].pc = "check"
      BY <1>0, <2>2, <2>4, <3>2 DEF MLocks
    <3> QED BY <2>1, <3>1, <3>2 DEF MGoes
  <2>6. M!NoWastedReload'
    BY <1>0, <2>2, <2>4 DEF M!NoWastedReload
  <2> QED BY <2>3, <2>5, <2>6 DEF MInv, M!LookupsRight
<1>5. ASSUME NEW p \in Threads, M!initDiscovers(p) PROVE MInv'
  <2>1. MGoes(p, "check", lookup[p].result) \/ MGoes(p, "return", "failed")
    BY <1>0, <1>5, MGotoGoes, MEndGoes DEF M!initDiscovers, MPcs, MResults
  <2>2. lookup[p].pc = "discover" /\ mapServer' = mapServer /\ mapWriter' = mapWriter /\ mapOnce' = "done"
    BY <1>5 DEF M!initDiscovers
  <2>3. MTypes' /\ MMissed' /\ M!FoundIfServed'
    <3>1. lookup[p].result \in MResults
      BY <1>0
    <3>2. CASE MGoes(p, "check", lookup[p].result)
      BY <2>2, <3>1, <3>2, MKept DEF MPcs
    <3>3. CASE MGoes(p, "return", "failed")
      BY <2>2, <3>3, MKept DEF MPcs, MResults
    <3> QED BY <2>1, <3>2, <3>3
  <2>4. /\ \A q \in Threads : q = p \/ lookup'[q] = lookup[q]
        /\ lookup'[p].pc \in {"check", "return"}
    BY <2>1 DEF MGoes
  <2>5. \A q \in Threads : lookup'[q].pc \notin {"discover", "reload"}
    BY <1>0, <2>2, <2>4 DEF MLocks
  <2>6. MLocks'
    BY <2>2, <2>5 DEF MLocks
  <2>7. M!NoWastedReload'
    BY <2>5 DEF M!NoWastedReload
  <2> QED BY <2>3, <2>6, <2>7 DEF MInv, M!LookupsRight
<1>6. ASSUME NEW p \in Threads, M!check(p) PROVE MInv'
  <2>1. \E r \in {"panic", "ok"} : M!End(p, r) \/ M!Goto(p, "lock")
    BY <1>6, Zenon DEF M!check
  <2>2. (\E r \in {"panic", "ok"} : MGoes(p, "return", r)) \/ MGoes(p, "lock", lookup[p].result)
    BY <1>0, <2>1, MGotoGoes, MEndGoes DEF MPcs, MResults
  <2>3. /\ lookup[p].pc = "check" /\ mapServer' = mapServer /\ static' = static /\ mapWriter' = mapWriter
        /\ mapOnce' = mapOnce
    BY <1>6 DEF M!check
  <2>4. lookup[p].result \in MResults
    BY <1>0
  <2> QED BY <2>2, <2>3, <2>4, MAside DEF MPcs, MResults
<1>7. ASSUME NEW p \in Threads, M!checkAgain(p) PROVE MInv'
  <2>1. \/ (\E r \in {"limited", "ok"} : MGoes(p, "return", r)) /\ mapWriter' = mapWriter
        \/ MGoes(p, "reload", lookup[p].result) /\ mapWriter' = p
           /\ M!Lookup(lookup[p].kind, static) # "ok"
    BY <1>0, <1>7, MGotoGoes, MEndGoes DEF M!checkAgain, MPcs, MResults
  <2>2. /\ lookup[p].pc = "lock" /\ mapWriter = M!None /\ mapServer' = mapServer /\ static' = static
        /\ mapOnce' = mapOnce
    BY <1>7 DEF M!checkAgain
  <2>3. CASE \E r \in {"limited", "ok"} : MGoes(p, "return", r) /\ mapWriter' = mapWriter
    <3>1. PICK r \in {"limited", "ok"} : MGoes(p, "return", r)
      BY <2>3
    <3>2. r \in MResults /\ r # "nomatch" /\ mapWriter' = mapWriter
      BY <2>3 DEF MResults
    <3> QED BY <2>2, <3>1, <3>2, MAside DEF MPcs
  <2>4. CASE MGoes(p, "reload", lookup[p].result) /\ mapWriter' = p
             /\ M!Lookup(lookup[p].kind, static) # "ok"
    <3>0. "reload" \in MPcs \ {"idle"} /\ lookup[p].result \in MResults /\ lookup[p].pc # "idle"
      BY <1>0, <2>2 DEF MPcs
    <3>1. MTypes' /\ MMissed' /\ M!FoundIfServed'
      BY <1>0, <2>2, <2>4, <3>0, MKept
    <3>2. /\ \A q \in Threads : q = p \/ lookup'[q] = lookup[q]
          /\ lookup'[p].pc = "reload" /\ lookup'[p].kind = lookup[p].kind
      BY <2>4 DEF MGoes
    <3>3. \A q \in Threads : lookup[q].pc # "reload"
      BY <1>0, <2>2 DEF MLocks
    <3>4. MLocks'
      BY <1>0, <2>2, <2>4, <3>2, <3>3 DEF MLocks
    <3>5. M!NoWastedReload'
      BY <2>2, <2>4, <3>2, <3>3 DEF M!NoWastedReload
    <3> QED BY <3>1, <3>4, <3>5 DEF MInv, M!LookupsRight
  <2> QED BY <2>1, <2>3, <2>4
<1>8. ASSUME NEW p \in Threads, M!reload(p) PROVE MInv'
  <2>1. \E r \in MResults : MGoes(p, "return", r) /\ (r = "nomatch" => lookup[p].kind \notin mapServer)
    BY <1>0, <1>8, MEndGoes DEF M!reload, MResults, M!Lookup
  <2>2. lookup[p].pc = "reload" /\ mapServer' = mapServer /\ mapOnce' = mapOnce /\ mapWriter' = M!None
    BY <1>8 DEF M!reload
  <2>3. MTypes' /\ MMissed' /\ M!FoundIfServed'
    BY <1>0, <2>1, <2>2, MKept DEF MPcs
  <2>4. (\A q \in Threads : q = p \/ lookup'[q] = lookup[q]) /\ lookup'[p].pc = "return"
    BY <2>1 DEF MGoes
  <2>5. \A q \in Threads : lookup'[q].pc # "reload"
    BY <1>0, <2>2, <2>4 DEF MLocks
  <2>6. MLocks'
    BY <1>0, <2>2, <2>4, <2>5 DEF MLocks
  <2>7. M!NoWastedReload'
    BY <2>5 DEF M!NoWastedReload
  <2> QED BY <2>3, <2>6, <2>7 DEF MInv, M!LookupsRight
<1>9. ASSUME NEW p \in Threads, M!Return(p) PROVE MInv'
  <2>1. M!Idle \in Call /\ M!Idle.pc = "idle" /\ M!Idle.result = "none"
    BY DEF M!Idle, M!None, MPcs, MResults
  <2>2. lookup' = [lookup EXCEPT ![p] = M!Idle] /\ mapServer' = mapServer /\ static' = static
        /\ mapOnce' = mapOnce /\ mapWriter' = mapWriter
    BY <1>9 DEF M!Return
  <2>3. MTypes' /\ lookup'[p] = M!Idle /\ \A q \in Threads : q = p \/ lookup'[q] = lookup[q]
    BY <1>0, <2>1, <2>2
  <2>4. \A q \in Threads : lookup'[q].pc # "idle" => lookup'[q] = lookup[q]
    BY <2>1, <2>3
  <2>5. MLocks'
    BY <1>0, <2>2, <2>4 DEF MLocks
  <2>6. MMissed' /\ M!NoWastedReload'
    BY <1>0, <2>2, <2>4 DEF MMissed, M!NoWastedReload
  <2>7. M!FoundIfServed'
    BY <1>0, <2>1, <2>2, <2>3 DEF M!FoundIfServed
  <2> QED BY <2>3, <2>5, <2>6, <2>7 DEF MInv, M!LookupsRight
<1>10. ASSUME NEW k \in Kinds, M!Install(k) PROVE MInv'
  <2>1. \A p \in Threads :
          lookup'[p] = [lookup[p] EXCEPT !.missed = lookup[p].missed \/ (lookup[p].kind = k /\ k \in mapServer)]
    BY <1>10 DEF M!Install
  <2>2. ASSUME NEW p \in Threads
        PROVE  /\ lookup'[p] \in Call
               /\ lookup'[p].pc = lookup[p].pc /\ lookup'[p].kind = lookup[p].kind
               /\ lookup'[p].result = lookup[p].result
               /\ lookup'[p].missed <=> lookup[p].missed \/ (lookup[p].kind = k /\ k \in mapServer)
    <3> DEFINE new == [lookup[p] EXCEPT !.missed = lookup[p].missed \/ (lookup[p].kind = k /\ k \in mapServer)]
    <3>1. lookup[p] \in Call
      BY <1>0
    <3>2. lookup'[p] = new
      BY <2>1
    <3>3. /\ new \in Call /\ new.pc = lookup[p].pc /\ new.kind = lookup[p].kind
          /\ new.result = lookup[p].result
      BY <3>1
    <3>4. new.missed <=> lookup[p].missed \/ (lookup[p].kind = k /\ k \in mapServer)
      BY <3>1
    <3> QED BY <3>2, <3>3, <3>4
  <2>3. lookup' = [p \in Threads |-> lookup'[p]]
    BY <1>10 DEF M!Install
  <2>4. MTypes'
    BY <2>2, <2>3
  <2>5. /\ static' = static /\ mapOnce' = mapOnce /\ mapWriter' = mapWriter
        /\ \A j : j \notin mapServer' => j \notin mapServer \/ (j = k /\ k \in mapServer)
    BY <1>10 DEF M!Install
  <2>6. MLocks'
    <3>1. \A p \in Threads : lookup'[p].pc = lookup[p].pc
      BY <2>2
    <3> QED BY <1>0, <2>5, <3>1 DEF MLocks
  <2>7. MMissed'
    BY <1>0, <2>2, <2>5 DEF MMissed
  <2>8. M!FoundIfServed' /\ M!NoWastedReload'
    BY <1>0, <2>2, <2>5 DEF M!FoundIfServed, M!NoWastedReload
  <2> QED BY <2>4, <2>6, <2>7, <2>8 DEF MInv, M!LookupsRight
<1>11. ASSUME lookup' = lookup, mapServer' = mapServer, static' = static, mapOnce' = mapOnce, mapWriter' = mapWriter
       PROVE  MInv'
  BY <1>0, <1>11 DEF MInv, M!LookupsRight, MLocks, MMissed, M!FoundIfServed, M!NoWastedReload
<1>12. CASE M!Refill
  BY <1>11, <1>12 DEF M!Refill
<1>13. CASE UNCHANGED M!vars
  BY <1>11, <1>13 DEF M!vars
<1> QED BY <1>1, <1>2, <1>3, <1>4, <1>5, <1>6, <1>7, <1>8, <1>9, <1>10, <1>12, <1>13
        DEF M!Next, M!Step

\* LookupsRight: a kind that is served all through a lookup is found, and a
\* reload is made only for a kind that is not known; for any threads and kinds.
THEOREM LookupsRightHolds == M!Spec => []LookupsRight
<1>1. M!Init => MInv
  <2> SUFFICES ASSUME M!Init PROVE MInv
    OBVIOUS
  <2>1. \A p \in Threads : lookup[p].pc = "idle" /\ lookup[p].result = "none"
    BY MapperConstants DEF M!Init, M!Idle, M!None
  <2>2. MTypes
    BY MapperConstants DEF M!Init, MTypes, MPcs, MResults, M!None, M!Idle
  <2> QED BY <2>1, <2>2 DEF MInv, MLocks, MMissed, M!LookupsRight, M!FoundIfServed, M!NoWastedReload
<1>2. MInv /\ [M!Next]_M!vars => MInv'
  BY MapperStep, MapperConstants
<1>3. MInv => LookupsRight
  BY DEF MInv, LookupsRight
<1> QED BY <1>1, <1>2, <1>3, PTL DEF M!Spec

-----------------------------------------------------------------------------
(* Recorder.                                                                *)

\* Who makes the broadcaster is in broadcasterOnce, which ends with it; whoever
\* is past getBroadcaster has one.
RecMade ==
    /\ \A p \in R!Procs : recPc[p] = "making" => recOnce = p
    /\ recOnce # R!None => broadcaster = "none" /\ recPc[recOnce] = "making"
    /\ \A p \in R!Procs : recPc[p] \in {"got", "locked", "waiting", "shutdown"} => broadcaster # "none"
    /\ \A e \in Emitters : recPc[e] \in {"got", "locked"} => e \in rec
    /\ rec # {} => broadcaster # "none"

\* The lock: emitters hold it for reading, Stop's goroutine alone for writing,
\* and only under it the broadcaster goes down.
RecLock ==
    /\ \A e \in Emitters : recPc[e] = "locked" <=> e \in readers
    /\ writer => readers = {} /\ recPc[R!Stopper] = "shutdown"
    /\ broadcaster = "down" /\ ~ recStopped => writer
    /\ stopCall = "no" => recPc[R!Stopper] = "idle"

RecInv == R!TypeOK /\ RecMade /\ RecLock

\* A step of one goroutine leaves the others where they are.
LEMMA RecGoes ==
    ASSUME recPc \in [R!Procs -> R!Pcs], NEW p \in R!Procs, NEW to \in R!Pcs, R!Goto(p, to)
    PROVE  /\ recPc' \in [R!Procs -> R!Pcs] /\ recPc'[p] = to
           /\ \A x \in R!Procs : x # p => recPc'[x] = recPc[x]
BY DEF R!Goto

\* Emitters, Stop and its goroutine step by step (Event, getBroadcaster, Stop).
LEMMA RecStep == ASSUME RecConstants, RecInv, [R!Next]_R!vars PROVE RecInv'
<1> USE DEF RecInv
<1>0. /\ recPc \in [R!Procs -> R!Pcs] /\ R!Stopper \in R!Procs /\ Emitters \subseteq R!Procs
      /\ \A p \in R!Procs : p = R!Stopper \/ p \in Emitters
      /\ R!Stopper \notin Emitters /\ R!None \notin R!Procs
      /\ recOnce # R!None => recOnce \in R!Procs
  <2>1. R!None # R!Stopper
    BY DEF R!None, R!Stopper
  <2> QED BY <2>1 DEF R!TypeOK, R!Procs, RecConstants
<1>a. \A to \in {"idle", "get", "making", "got", "locked", "waiting", "shutdown", "done"} : to \in R!Pcs
  BY DEF R!Pcs
<1>1. ASSUME NEW e \in Emitters, R!Event(e) PROVE RecInv'
  <2>1. PICK to \in {"got", "get"} : R!Goto(e, to) /\ (to = "got" => e \in rec)
    BY <1>1, Zenon DEF R!Event
  <2>2. UNCHANGED <<broadcaster, stopIt, recOnce, readers, writer, recStopped, rec, stopCall, recCtxDone>>
        /\ recPc[e] = "idle"
    BY <1>1 DEF R!Event
  <2>3. /\ recPc' \in [R!Procs -> R!Pcs] /\ recPc'[e] = to
        /\ \A x \in R!Procs : x # e => recPc'[x] = recPc[x]
    BY <2>1, <1>0, <1>a, RecGoes
  <2>4. recSent' \in [Emitters -> 0 .. EventsEach]
    BY <1>1 DEF R!Event, R!TypeOK, RecConstants
  <2>5. R!TypeOK'
    BY <2>2, <2>3, <2>4 DEF R!TypeOK
  <2>6. RecMade'
    BY <1>0, <2>1, <2>2, <2>3 DEF RecMade
  <2>7. RecLock'
    BY <1>0, <2>1, <2>2, <2>3 DEF RecLock
  <2> QED BY <2>5, <2>6, <2>7
<1>2. ASSUME NEW p \in R!Procs, R!getBroadcaster(p) PROVE RecInv'
  <2>1. /\ UNCHANGED <<broadcaster, stopIt, readers, writer, recStopped, recSent, stopCall, recCtxDone>>
        /\ recPc[p] = "get"
    BY <1>2 DEF R!getBroadcaster
  <2>2. CASE broadcaster = "none"
    <3>1. R!Goto(p, "making") /\ recOnce = R!None /\ recOnce' = p /\ rec' = rec
      BY <1>2, <2>2 DEF R!getBroadcaster
    <3>2. /\ recPc' \in [R!Procs -> R!Pcs] /\ recPc'[p] = "making"
          /\ \A x \in R!Procs : x # p => recPc'[x] = recPc[x]
      BY <3>1, <1>0, <1>a, RecGoes
    <3>3. R!TypeOK'
      BY <2>1, <3>1, <3>2 DEF R!TypeOK
    <3>4. RecMade'
      BY <1>0, <2>1, <2>2, <3>1, <3>2 DEF RecMade
    <3>5. RecLock'
      BY <1>0, <2>1, <3>1, <3>2 DEF RecLock
    <3> QED BY <3>3, <3>4, <3>5
  <2>3. CASE broadcaster # "none"
    <3>1. R!Goto(p, "got") /\ recOnce' = recOnce /\ rec' = rec \cup ({p} \cap Emitters)
      BY <1>2, <2>3 DEF R!getBroadcaster
    <3>2. /\ recPc' \in [R!Procs -> R!Pcs] /\ recPc'[p] = "got"
          /\ \A x \in R!Procs : x # p => recPc'[x] = recPc[x]
      BY <3>1, <1>0, <1>a, RecGoes
    <3>3. R!TypeOK'
      BY <2>1, <3>1, <3>2 DEF R!TypeOK
    <3>4. RecMade'
      BY <1>0, <2>1, <2>3, <3>1, <3>2 DEF RecMade
    <3>5. RecLock'
      BY <1>0, <2>1, <3>1, <3>2 DEF RecLock
    <3> QED BY <3>3, <3>4, <3>5
  <2> QED BY <2>2, <2>3
<1>3. ASSUME NEW p \in R!Procs, R!MakeBroadcaster(p) PROVE RecInv'
  <2>1. /\ UNCHANGED <<readers, writer, recStopped, recSent, stopCall, recCtxDone>>
        /\ recPc[p] = "making" /\ recOnce = p /\ broadcaster' = "up" /\ recOnce' = R!None
        /\ rec' = rec \cup ({p} \cap Emitters) /\ R!Goto(p, "got")
    BY <1>3 DEF R!MakeBroadcaster
  <2>2. stopIt' \in BOOLEAN
    BY <1>3 DEF R!MakeBroadcaster, RecConstants
  <2>3. /\ recPc' \in [R!Procs -> R!Pcs] /\ recPc'[p] = "got"
        /\ \A x \in R!Procs : x # p => recPc'[x] = recPc[x]
    BY <2>1, <1>0, <1>a, RecGoes
  <2>4. R!TypeOK'
    BY <2>1, <2>2, <2>3 DEF R!TypeOK
  <2>5. RecMade'
    BY <1>0, <2>1, <2>3 DEF RecMade
  <2>6. RecLock'
    BY <1>0, <2>1, <2>3 DEF RecLock, RecMade
  <2> QED BY <2>4, <2>5, <2>6
<1>4. ASSUME NEW e \in Emitters, R!RLock(e) PROVE RecInv'
  <2>1. /\ UNCHANGED <<broadcaster, stopIt, recOnce, writer, recStopped, rec, recSent, stopCall, recCtxDone>>
        /\ recPc[e] = "got" /\ ~ writer /\ readers' = readers \cup {e} /\ R!Goto(e, "locked")
    BY <1>4 DEF R!RLock
  <2>2. /\ recPc' \in [R!Procs -> R!Pcs] /\ recPc'[e] = "locked"
        /\ \A x \in R!Procs : x # e => recPc'[x] = recPc[x]
    BY <2>1, <1>0, <1>a, RecGoes
  <2>3. R!TypeOK'
    BY <2>1, <2>2 DEF R!TypeOK
  <2>4. RecMade'
    BY <1>0, <2>1, <2>2 DEF RecMade
  <2>5. RecLock'
    BY <1>0, <2>1, <2>2 DEF RecLock, RecMade
  <2> QED BY <2>3, <2>4, <2>5
<1>5. ASSUME NEW e \in Emitters, R!Emit(e) PROVE RecInv'
  <2>1. /\ UNCHANGED <<broadcaster, stopIt, recOnce, writer, recStopped, rec, recSent, stopCall, recCtxDone>>
        /\ recPc[e] = "locked" /\ readers' = readers \ {e} /\ R!Goto(e, "idle")
    BY <1>5 DEF R!Emit
  <2>2. /\ recPc' \in [R!Procs -> R!Pcs] /\ recPc'[e] = "idle"
        /\ \A x \in R!Procs : x # e => recPc'[x] = recPc[x]
    BY <2>1, <1>0, <1>a, RecGoes
  <2>3. R!TypeOK'
    BY <2>1, <2>2 DEF R!TypeOK
  <2>4. RecMade'
    BY <1>0, <2>1, <2>2 DEF RecMade
  <2>5. RecLock'
    BY <1>0, <2>1, <2>2 DEF RecLock, RecMade
  <2> QED BY <2>3, <2>4, <2>5
<1>6. CASE R!Stop
  <2>1. /\ UNCHANGED <<broadcaster, stopIt, recOnce, readers, writer, recStopped, rec, recSent, recCtxDone>>
        /\ stopCall = "no" /\ stopCall' = "waiting" /\ R!Goto(R!Stopper, "get")
    BY <1>6 DEF R!Stop
  <2>2. /\ recPc' \in [R!Procs -> R!Pcs] /\ recPc'[R!Stopper] = "get"
        /\ \A x \in R!Procs : x # R!Stopper => recPc'[x] = recPc[x]
    BY <2>1, <1>0, <1>a, RecGoes
  <2>3. R!TypeOK'
    BY <2>1, <2>2 DEF R!TypeOK
  <2>4. RecMade'
    BY <1>0, <2>1, <2>2 DEF RecMade, RecLock
  <2>5. RecLock'
    BY <1>0, <2>1, <2>2 DEF RecLock, RecMade
  <2> QED BY <2>3, <2>4, <2>5
<1>7. CASE R!StopLock
  <2>1. /\ UNCHANGED <<broadcaster, stopIt, recOnce, readers, writer, recStopped, rec, recSent,
                       stopCall, recCtxDone>>
        /\ recPc[R!Stopper] = "got"
    BY <1>7 DEF R!StopLock
  <2>2. PICK to \in {"waiting", "done"} : R!Goto(R!Stopper, to)
    BY <1>7, Zenon DEF R!StopLock
  <2>3. /\ recPc' \in [R!Procs -> R!Pcs] /\ recPc'[R!Stopper] = to
        /\ \A x \in R!Procs : x # R!Stopper => recPc'[x] = recPc[x]
    BY <2>2, <1>0, <1>a, RecGoes
  <2>4. R!TypeOK'
    BY <2>1, <2>3 DEF R!TypeOK
  <2>5. RecMade'
    BY <1>0, <2>1, <2>3 DEF RecMade
  <2>6. RecLock'
    BY <1>0, <2>1, <2>3 DEF RecLock
  <2> QED BY <2>4, <2>5, <2>6
<1>8. CASE R!StopLocked
  <2>1. /\ UNCHANGED <<stopIt, recOnce, readers, recStopped, rec, recSent, stopCall, recCtxDone>>
        /\ recPc[R!Stopper] = "waiting" /\ readers = {} /\ writer' = TRUE /\ broadcaster' = "down" /\ R!Goto(R!Stopper, "shutdown")
    BY <1>8 DEF R!StopLocked
  <2>2. /\ recPc' \in [R!Procs -> R!Pcs] /\ recPc'[R!Stopper] = "shutdown"
        /\ \A x \in R!Procs : x # R!Stopper => recPc'[x] = recPc[x]
    BY <2>1, <1>0, <1>a, RecGoes
  <2>3. R!TypeOK'
    BY <2>1, <2>2 DEF R!TypeOK
  <2>4. RecMade'
    BY <1>0, <2>1, <2>2 DEF RecMade
  <2>5. RecLock'
    BY <1>0, <2>1, <2>2 DEF RecLock, RecMade
  <2> QED BY <2>3, <2>4, <2>5
<1>9. CASE R!StopUnlock
  <2>1. /\ UNCHANGED <<broadcaster, stopIt, recOnce, readers, rec, recSent, stopCall, recCtxDone>>
        /\ recPc[R!Stopper] = "shutdown" /\ recStopped' = TRUE /\ writer' = FALSE /\ R!Goto(R!Stopper, "done")
    BY <1>9 DEF R!StopUnlock
  <2>2. /\ recPc' \in [R!Procs -> R!Pcs] /\ recPc'[R!Stopper] = "done"
        /\ \A x \in R!Procs : x # R!Stopper => recPc'[x] = recPc[x]
    BY <2>1, <1>0, <1>a, RecGoes
  <2>3. R!TypeOK'
    BY <2>1, <2>2 DEF R!TypeOK
  <2>4. RecMade'
    BY <1>0, <2>1, <2>2 DEF RecMade
  <2>5. RecLock'
    BY <1>0, <2>1, <2>2 DEF RecLock, RecMade
  <2> QED BY <2>3, <2>4, <2>5
<1>10. CASE R!StopReturns \/ R!Expire \/ UNCHANGED R!vars
  <2>1. UNCHANGED <<broadcaster, stopIt, recOnce, readers, writer, recStopped, rec, recPc, recSent>>
    BY <1>10, Zenon DEF R!StopReturns, R!Expire, R!vars
  <2>2. /\ stopCall' \in {"no", "waiting", "returned"} /\ (stopCall' = "no" => stopCall = "no")
        /\ recCtxDone' \in BOOLEAN
    BY <1>10, Zenon DEF R!StopReturns, R!Expire, R!vars, R!TypeOK
  <2>3. R!TypeOK'
    BY <2>1, <2>2 DEF R!TypeOK
  <2>4. RecMade' /\ RecLock'
    BY <2>1, <2>2 DEF RecMade, RecLock
  <2> QED BY <2>3, <2>4
<1>11. CASE \E e \in Emitters : R!Event(e) \/ R!Emitting(e)
  BY <1>11, <1>0, <1>1, <1>2, <1>3, <1>4, <1>5 DEF R!Emitting
<1>12. CASE R!Stopping
  BY <1>12, <1>0, <1>2, <1>3, <1>7, <1>8, <1>9 DEF R!Stopping
<1> QED BY <1>6, <1>10, <1>11, <1>12 DEF R!Next

\* EmitsWhileUp: an event is handed only to a broadcaster that is not shut
\* down, for any number of emitters and events.
THEOREM EmitsWhileUpHolds == R!Spec => []EmitsWhileUp
<1> USE DEF R!Procs, R!Pcs, R!Stopper, R!None
<1>1. R!Init => RecInv
  <2> SUFFICES ASSUME R!Init PROVE RecInv
    OBVIOUS
  <2>1. R!TypeOK
    <3>1. 0 \in 0 .. EventsEach
      BY RecorderConstants DEF RecConstants
    <3>2. recPc \in [R!Procs -> R!Pcs] /\ recSent \in [Emitters -> 0 .. EventsEach]
      BY <3>1 DEF R!Init
    <3> QED BY <3>2 DEF R!Init, R!TypeOK
  <2>2. RecMade /\ RecLock
    BY RecorderConstants DEF R!Init, RecMade, RecLock, RecConstants
  <2> QED BY <2>1, <2>2 DEF RecInv
<1>2. RecInv /\ [R!Next]_R!vars => RecInv'
  BY RecStep, RecorderConstants
<1>3. RecInv => EmitsWhileUp
  BY DEF RecInv, RecMade, RecLock, R!TypeOK, EmitsWhileUp, R!EmitsWhileUp
<1> QED BY <1>1, <1>2, <1>3, PTL DEF R!Spec

==============================================================================
