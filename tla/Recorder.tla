------------------------------ MODULE Recorder -------------------------------
(***************************************************************************)
(* pkg/internal/recorder: goroutines emit events through lazy recorders,   *)
(* which start the provider's broadcaster on first use; the manager stops  *)
(* the provider when everything else has ended, or when its patience has.  *)
(***************************************************************************)
EXTENDS Naturals, FiniteSets

CONSTANTS Emitters,        \* goroutines, each with a lazyRecorder of its own
          MaxEvents,       \* bound: events of one emitter
          StopWithProvider \* what makeBroadcaster may answer for stop

Stopper == "stopper"
None == "none"

VARIABLES
    broadcaster,  \* "none", "up", "down"
    stopIt,       \* stopBroadcaster
    once,         \* who runs broadcasterOnce, or None
    readers,      \* who holds lock for reading
    writer,       \* whether Stop's goroutine holds it for writing
    stopped,
    rec,          \* emitters whose recorder is made
    pc,           \* of the emitters and of Stop's goroutine
    sent,         \* events each emitter has emitted
    stopCall,     \* the caller of Stop
    ctxDone       \* its shutdownCtx

vars == <<broadcaster, stopIt, once, readers, writer, stopped, rec, pc, sent, stopCall, ctxDone>>

Procs == Emitters \cup {Stopper}
Pcs == {"idle", "get", "making", "got", "locked", "waiting", "shutdown", "done"}

TypeOK ==
    /\ broadcaster \in {"none", "up", "down"} /\ stopIt \in BOOLEAN
    /\ once \in Procs \cup {None} /\ readers \subseteq Emitters
    /\ writer \in BOOLEAN /\ stopped \in BOOLEAN /\ rec \subseteq Emitters
    /\ pc \in [Procs -> Pcs] /\ sent \in [Emitters -> 0 .. MaxEvents]
    /\ stopCall \in {"no", "waiting", "returned"} /\ ctxDone \in BOOLEAN

Init ==
    /\ broadcaster = "none" /\ stopIt = FALSE /\ once = None /\ readers = {}
    /\ writer = FALSE /\ stopped = FALSE /\ rec = {} /\ pc = [p \in Procs |-> "idle"]
    /\ sent = [e \in Emitters |-> 0] /\ stopCall = "no" /\ ctxDone = FALSE

Goto(p, to) == pc' = [pc EXCEPT ![p] = to]

\* Event, Eventf and AnnotatedEventf begin alike: ensureRecording.
Event(e) ==
    /\ pc[e] = "idle" /\ sent[e] < MaxEvents
    /\ sent' = [sent EXCEPT ![e] = @ + 1]
    /\ Goto(e, IF e \in rec THEN "got" ELSE "get")
    /\ UNCHANGED <<broadcaster, stopIt, once, readers, writer, stopped, rec, stopCall, ctxDone>>

\* getBroadcaster: the first to come makes the broadcaster, everybody else
\* waits until it is there.
getBroadcaster(p) ==
    /\ pc[p] = "get"
    /\ IF broadcaster = "none"
       THEN once = None /\ once' = p /\ Goto(p, "making") /\ UNCHANGED rec
       ELSE /\ Goto(p, "got")
            /\ rec' = rec \cup ({p} \cap Emitters)
            /\ UNCHANGED once
    /\ UNCHANGED <<broadcaster, stopIt, readers, writer, stopped, sent, stopCall, ctxDone>>

MakeBroadcaster(p) ==
    /\ pc[p] = "making" /\ once = p
    /\ broadcaster' = "up"
    /\ stopIt' \in StopWithProvider
    /\ once' = None
    /\ rec' = rec \cup ({p} \cap Emitters)
    /\ Goto(p, "got")
    /\ UNCHANGED <<readers, writer, stopped, sent, stopCall, ctxDone>>

\* The event is handed over under the read lock; a writer that waits keeps
\* new readers out.
RLock(e) ==
    /\ e \in Emitters /\ pc[e] = "got" /\ ~writer /\ pc[Stopper] # "waiting"
    /\ readers' = readers \cup {e}
    /\ Goto(e, "locked")
    /\ UNCHANGED <<broadcaster, stopIt, once, writer, stopped, rec, sent, stopCall, ctxDone>>

Emit(e) ==
    /\ pc[e] = "locked"
    /\ readers' = readers \ {e}
    /\ Goto(e, "idle")
    /\ UNCHANGED <<broadcaster, stopIt, once, writer, stopped, rec, sent, stopCall, ctxDone>>

\* Stop: a goroutine shuts down, the caller waits for it or for the context.
Stop ==
    /\ stopCall = "no"
    /\ stopCall' = "waiting"
    /\ Goto(Stopper, "get")
    /\ UNCHANGED <<broadcaster, stopIt, once, readers, writer, stopped, rec, sent, ctxDone>>

StopLock ==
    /\ pc[Stopper] = "got"
    /\ IF stopIt THEN Goto(Stopper, "waiting") ELSE Goto(Stopper, "done")
    /\ UNCHANGED <<broadcaster, stopIt, once, readers, writer, stopped, rec, sent, stopCall, ctxDone>>

\* Slip: Shutdown does not wait for the emitters.
StopUnlocked ==
    /\ pc[Stopper] = "waiting"
    /\ writer' = TRUE
    /\ broadcaster' = "down"
    /\ Goto(Stopper, "shutdown")
    /\ UNCHANGED <<stopIt, once, readers, stopped, rec, sent, stopCall, ctxDone>>

StopLocked ==
    /\ pc[Stopper] = "waiting" /\ readers = {}
    /\ writer' = TRUE
    /\ broadcaster' = "down"
    /\ Goto(Stopper, "shutdown")
    /\ UNCHANGED <<stopIt, once, readers, stopped, rec, sent, stopCall, ctxDone>>

StopUnlock ==
    /\ pc[Stopper] = "shutdown"
    /\ stopped' = TRUE
    /\ writer' = FALSE
    /\ Goto(Stopper, "done")
    /\ UNCHANGED <<broadcaster, stopIt, once, readers, rec, sent, stopCall, ctxDone>>

StopReturns ==
    /\ stopCall = "waiting" /\ (ctxDone \/ pc[Stopper] = "done")
    /\ stopCall' = "returned"
    /\ UNCHANGED <<broadcaster, stopIt, once, readers, writer, stopped, rec, pc, sent, ctxDone>>

Expire == ~ctxDone /\ ctxDone' = TRUE
          /\ UNCHANGED <<broadcaster, stopIt, once, readers, writer, stopped, rec, pc, sent, stopCall>>

Emitting(e) == getBroadcaster(e) \/ MakeBroadcaster(e) \/ RLock(e) \/ Emit(e)
Stopping == getBroadcaster(Stopper) \/ MakeBroadcaster(Stopper) \/ StopLock \/ StopLocked \/ StopUnlock

Next ==
    \/ \E e \in Emitters : Event(e) \/ Emitting(e)
    \/ Stop \/ Stopping \/ StopReturns \/ Expire

Spec ==
    /\ Init /\ [][Next]_vars
    /\ \A e \in Emitters : WF_vars(Emitting(e))
    /\ WF_vars(Stopping) /\ WF_vars(StopReturns)

-----------------------------------------------------------------------------
\* No event is handed to a broadcaster that was shut down (that would be a
\* send on a closed channel), however Stop and the emitters interleave, and
\* there is only one broadcaster (Event, Stop, getBroadcaster).
EmitsWhileUp ==
    \A e \in Emitters : pc[e] = "locked" /\ ~stopped => broadcaster = "up" /\ e \in rec

\* Stop returns, its goroutine ends even if the caller has given up on it, and
\* no emitter is left hanging (Stop).
AllEnd ==
    /\ (stopCall = "waiting") ~> (stopCall = "returned" /\ pc[Stopper] = "done")
    /\ \A e \in Emitters : (pc[e] = "get") ~> (pc[e] = "idle")

=============================================================================
