------------------------------- MODULE Recording -------------------------------
(* The manager's event recorder and those who emit. *)
EXTENDS Naturals

CONSTANTS Emitters, EventsEach, StopWithProvider

VARIABLES broadcaster, stopIt, recOnce, readers, writer, recStopped, rec, recPc, recSent, stopCall,
          recCtxDone

R == INSTANCE Recorder
    WITH MaxEvents <- EventsEach, once <- recOnce, stopped <- recStopped, pc <- recPc, sent <- recSent,
         ctxDone <- recCtxDone

\* The goroutine that stops the provider is none of the emitters.
RecConstants ==
    /\ R!Stopper \notin Emitters /\ R!None \notin Emitters
    /\ EventsEach \in Nat /\ StopWithProvider \subseteq BOOLEAN

ASSUME RecorderConstants == RecConstants

\* Events go to a broadcaster that is up (Recorder.tla).
EmitsWhileUp == R!TypeOK /\ R!EmitsWhileUp

================================================================================
