------------------------------ MODULE Channel ------------------------------
(***************************************************************************)
(* pkg/source, Channel: events from outside the cluster are distributed to  *)
(* every controller that watches the channel.  Each Start adds a buffered   *)
(* destination and a goroutine that empties it; the first Start also starts *)
(* the loop that distributes, which holds destLock while it does.           *)
(***************************************************************************)
EXTENDS Naturals, Sequences

CONSTANTS
  Starters,        \* the calls of Start, one for each watching controller
  DestBufferSize,  \* the capacity of a destination
  MaxEvents,       \* bound: how many events are sent on Source
  accepts          \* the events that pass the predicates of each Starter

Events == 1..MaxEvents
NoOne == "no one"

ASSUME ConstantsAssumption ==
  /\ DestBufferSize \in Nat \ {0}
  /\ MaxEvents \in Nat
  /\ accepts \in [Starters -> SUBSET Events]
  /\ NoOne \notin Starters

VARIABLES
  pc,       \* where each Start is
  ctxDone,  \* the Starters whose context is done
  once,     \* the Starter whose context the loop has, or NoOne
  loop,     \* where the loop is
  sent,     \* history: the events the loop received, in order
  open,     \* Source is open
  lock,     \* who holds destLock: "loop", or NoOne
  dest,     \* Channel.dest: the Starters in the order of their destinations
  next,     \* the place in dest that distribute has reached
  buf,      \* the content of each destination
  closed,   \* the destinations that are closed
  joined,   \* history: how many events were received before Start added one
  handled,  \* the events each handler was called with
  taken,    \* history: the events each goroutine took from its destination
  reader    \* the goroutine of each Start: "off", "on" or "ended"

destVars == <<dest, next, buf, closed, joined>>
readVars == <<handled, taken, reader>>
vars == <<pc, ctxDone, once, loop, sent, open, lock, destVars, readVars>>

TypeOK ==
  /\ pc \in [Starters -> {"call", "once", "returned", "refused"}]
  /\ ctxDone \subseteq Starters
  /\ once \in Starters \cup {NoOne}
  /\ loop \in {"off", "select", "distribute", "sending", "stop", "ended"}
  /\ sent \in Seq(Events) /\ Len(sent) <= MaxEvents
  /\ open \in BOOLEAN
  /\ lock \in {NoOne, "loop"}
  /\ dest \in Seq(Starters)
  /\ next \in Nat
  /\ buf \in [Starters -> Seq(Events)]
  /\ \A c \in Starters : Len(buf[c]) <= DestBufferSize
  /\ closed \subseteq Starters
  /\ joined \in [Starters -> 0..MaxEvents]
  /\ handled \in [Starters -> Seq(Events)]
  /\ taken \in [Starters -> Seq(Events)]
  /\ reader \in [Starters -> {"off", "on", "ended"}]

Init ==
  /\ pc = [c \in Starters |-> "call"]
  /\ ctxDone = {} /\ once = NoOne /\ loop = "off" /\ sent = <<>> /\ open = TRUE
  /\ lock = NoOne /\ dest = <<>> /\ next = 1
  /\ buf = [c \in Starters |-> <<>>]
  /\ closed = {}
  /\ joined = [c \in Starters |-> 0]
  /\ handled = [c \in Starters |-> <<>>]
  /\ taken = [c \in Starters |-> <<>>]
  /\ reader = [c \in Starters |-> "off"]

----------------------------------------------------------------------------
(* Start *)

\* Source is nil, or no stop channel was injected.
StartRefused(c) ==
  /\ pc[c] = "call"
  /\ pc' = [pc EXCEPT ![c] = "refused"]
  /\ UNCHANGED <<ctxDone, once, loop, sent, open, lock, destVars, readVars>>

\* Slip: the destination is added without destLock.
StartAddsUnlocked(c) ==
  /\ pc[c] = "call"
  /\ dest' = Append(dest, c)
  /\ joined' = [joined EXCEPT ![c] = Len(sent)]
  /\ pc' = [pc EXCEPT ![c] = "once"]
  /\ UNCHANGED <<ctxDone, once, loop, sent, open, lock, next, buf, closed, readVars>>

\* An event that the loop has received but not begun to distribute still
\* reaches a destination that is added now.
StartAdds(c) ==
  /\ pc[c] = "call" /\ lock = NoOne
  /\ dest' = Append(dest, c)
  /\ joined' = [joined EXCEPT ![c] = IF loop = "distribute" THEN Len(sent) - 1 ELSE Len(sent)]
  /\ pc' = [pc EXCEPT ![c] = "once"]
  /\ UNCHANGED <<ctxDone, once, loop, sent, open, lock, next, buf, closed, readVars>>

\* The loop runs with the context of the Start that comes first here.
StartReturns(c) ==
  /\ pc[c] = "once"
  /\ IF once = NoOne
       THEN once' = c /\ loop' = "select"
       ELSE UNCHANGED <<once, loop>>
  /\ reader' = [reader EXCEPT ![c] = "on"]
  /\ pc' = [pc EXCEPT ![c] = "returned"]
  /\ UNCHANGED <<ctxDone, sent, open, lock, destVars, handled, taken>>

----------------------------------------------------------------------------
(* syncLoop *)

ReceiveEvent ==
  /\ loop = "select" /\ open /\ Len(sent) < MaxEvents
  /\ sent' = Append(sent, Len(sent) + 1)
  /\ loop' = "distribute"
  /\ UNCHANGED <<pc, ctxDone, once, open, lock, destVars, readVars>>

\* The context is done, or Source is closed.
LeaveLoop ==
  /\ loop = "select" /\ (once \in ctxDone \/ ~open)
  /\ loop' = "stop"
  /\ UNCHANGED <<pc, ctxDone, once, sent, open, lock, destVars, readVars>>

DistributeLocks ==
  /\ loop = "distribute" /\ lock = NoOne
  /\ lock' = "loop" /\ loop' = "sending" /\ next' = 1
  /\ UNCHANGED <<pc, ctxDone, once, sent, open, dest, buf, closed, joined, readVars>>

\* A full destination blocks the loop, which keeps the lock.
DistributeSends ==
  /\ loop = "sending" /\ next <= Len(dest)
  /\ Len(buf[dest[next]]) < DestBufferSize
  /\ buf' = [buf EXCEPT ![dest[next]] = Append(@, sent[Len(sent)])]
  /\ next' = next + 1
  /\ UNCHANGED <<pc, ctxDone, once, loop, sent, open, lock, dest, closed, joined, readVars>>

\* Slip: destLock is not released.
DistributeKeepsLock ==
  /\ loop = "sending" /\ next > Len(dest)
  /\ loop' = "select"
  /\ UNCHANGED <<pc, ctxDone, once, sent, open, lock, destVars, readVars>>

DistributeUnlocks ==
  /\ loop = "sending" /\ next > Len(dest)
  /\ lock' = NoOne /\ loop' = "select"
  /\ UNCHANGED <<pc, ctxDone, once, sent, open, destVars, readVars>>

\* doStop.
StopCloses ==
  /\ loop = "stop" /\ lock = NoOne
  /\ closed' = {dest[n] : n \in 1..Len(dest)}
  /\ loop' = "ended"
  /\ UNCHANGED <<pc, ctxDone, once, sent, open, lock, dest, next, buf, joined, readVars>>

LoopStep ==
  \/ LeaveLoop \/ DistributeLocks \/ DistributeSends \/ DistributeUnlocks \/ StopCloses

----------------------------------------------------------------------------
(* The goroutine that empties a destination *)

\* Slip: the first event that fails a predicate ends the goroutine.
ReadStops(c) ==
  /\ reader[c] = "on" /\ buf[c] # <<>>
  /\ taken' = [taken EXCEPT ![c] = Append(@, Head(buf[c]))]
  /\ buf' = [buf EXCEPT ![c] = Tail(@)]
  /\ IF Head(buf[c]) \in accepts[c]
       THEN handled' = [handled EXCEPT ![c] = Append(@, Head(buf[c]))] /\ UNCHANGED reader
       ELSE reader' = [reader EXCEPT ![c] = "ended"] /\ UNCHANGED handled
  /\ UNCHANGED <<pc, ctxDone, once, loop, sent, open, lock, dest, next, closed, joined>>

Read(c) ==
  /\ reader[c] = "on" /\ buf[c] # <<>>
  /\ taken' = [taken EXCEPT ![c] = Append(@, Head(buf[c]))]
  /\ buf' = [buf EXCEPT ![c] = Tail(@)]
  /\ handled' = IF Head(buf[c]) \in accepts[c]
                  THEN [handled EXCEPT ![c] = Append(@, Head(buf[c]))] ELSE handled
  /\ UNCHANGED <<pc, ctxDone, once, loop, sent, open, lock, dest, next, closed, joined, reader>>

ReaderEnds(c) ==
  /\ reader[c] = "on" /\ buf[c] = <<>> /\ c \in closed
  /\ reader' = [reader EXCEPT ![c] = "ended"]
  /\ UNCHANGED <<pc, ctxDone, once, loop, sent, open, lock, destVars, handled, taken>>

----------------------------------------------------------------------------
CloseSource ==
  /\ open
  /\ open' = FALSE
  /\ UNCHANGED <<pc, ctxDone, once, loop, sent, lock, destVars, readVars>>

Cancel(c) ==
  /\ c \notin ctxDone
  /\ ctxDone' = ctxDone \cup {c}
  /\ UNCHANGED <<pc, once, loop, sent, open, lock, destVars, readVars>>

StartStep(c) == StartAdds(c) \/ StartReturns(c)
ReaderStep(c) == Read(c) \/ ReaderEnds(c)

Next ==
  \/ ReceiveEvent \/ LoopStep \/ CloseSource
  \/ \E c \in Starters : StartRefused(c) \/ StartStep(c) \/ ReaderStep(c) \/ Cancel(c)

Spec == Init /\ [][Next]_vars

\* Goroutines run, and a Start that waits for destLock gets it: the lock is
\* free again and again, and a Go mutex does not starve those who wait.
FairSpec ==
  /\ Spec
  /\ WF_vars(LoopStep)
  /\ \A c \in Starters : SF_vars(StartStep(c)) /\ WF_vars(ReaderStep(c))

----------------------------------------------------------------------------
(* Properties *)

\* The last event received has not yet been offered to destination n.
Behind(n) == loop = "distribute" \/ (loop = "sending" /\ n >= next)

\* What went into a destination is exactly what was received since Start added
\* it, in order, nothing twice and nothing left out, however many Starts,
\* readers and blocked sends interleave; and the handler is called with
\* exactly those events that pass the predicates, each once and in that order:
\* events have the numbers of the order they were received in.
InOrder ==
  \A n \in 1..Len(dest) :
    LET c == dest[n] IN
    /\ taken[c] \o buf[c] = SubSeq(sent, joined[c] + 1, Len(sent) - IF Behind(n) THEN 1 ELSE 0)
    /\ {handled[c][i] : i \in 1..Len(handled[c])} = {taken[c][i] : i \in 1..Len(taken[c])} \cap accepts[c]
    /\ \A i, j \in 1..Len(handled[c]) : i < j => handled[c][i] < handled[c][j]

\* Every event received is handled by every controller that watches by then,
\* even when the source is closed or the context ends meanwhile: what is
\* buffered is not lost.
EventsHandled ==
  \A c \in Starters, e \in Events :
    e \in accepts[c] /\ c \in {dest[n] : n \in 1..Len(dest)} /\ joined[c] < e /\ e <= Len(sent)
      ~> \E n \in 1..Len(handled[c]) : handled[c][n] = e

\* No Start is blocked for ever on the lock that distribute holds while a
\* destination is full.
StartNotBlocked == \A c \in Starters : pc[c] = "call" ~> pc[c] \in {"returned", "refused"}

\* When the loop stops, the goroutine of every destination it knows ends.
ReadersEnd ==
  \A c \in Starters :
    loop = "stop" /\ c \in {dest[n] : n \in 1..Len(dest)} ~> reader[c] = "ended"
============================================================================
