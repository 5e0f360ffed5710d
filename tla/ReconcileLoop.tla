--------------------------- MODULE ReconcileLoop ---------------------------
(***************************************************************************)
(* What a controller promises, without queue or locks: a request            *)
(* that is asked for is reconciled, by one reconcile at a time, and while   *)
(* the loop is live none is forgotten.  Controller implements it.           *)
(***************************************************************************)
CONSTANTS Items, Requests, Workers

VARIABLES
  want,     \* the items asked for and not yet begun
  running,  \* of each item, the workers that reconcile it
  live      \* the workers run and the queue accepts work

vars == <<want, running, live>>

Idle == [k \in Items |-> {}]

Init == want = {} /\ running = Idle /\ live = FALSE

Ask(k) == want' = want \cup {k} /\ UNCHANGED <<running, live>>

\* A reconcile answers everything asked for up to its beginning, and none of
\* the same request is under way.  It may also find nothing asked for: a
\* delayed request is not withdrawn when an earlier reconcile has answered it.
Begin(k) ==
  /\ k \in Requests /\ running[k] = {}
  /\ \E w \in Workers : running' = [running EXCEPT ![k] = {w}]
  /\ want' = want \ {k}
  /\ UNCHANGED live

\* An item that is no request is dropped; a request never is.
Discard(k) ==
  /\ k \in want \ Requests
  /\ want' = want \ {k}
  /\ UNCHANGED <<running, live>>

\* A reconcile ends, and asks for another one or not.
End(k, again) ==
  /\ running[k] # {}
  /\ running' = [running EXCEPT ![k] = {}]
  /\ want' = IF again THEN want \cup {k} ELSE want
  /\ UNCHANGED live

\* A new queue replaces the one of a Start that failed.
Restart ==
  /\ ~live /\ running = Idle
  /\ want' = {}
  /\ UNCHANGED <<running, live>>

Live == ~live /\ live' = TRUE /\ UNCHANGED <<want, running>>

Stop == live /\ live' = FALSE /\ UNCHANGED <<want, running>>

Next ==
  \/ \E k \in Items : Ask(k) \/ Begin(k) \/ Discard(k)
  \/ \E k \in Items, again \in BOOLEAN : End(k, again)
  \/ Restart \/ Live \/ Stop

Spec == Init /\ [][Next]_vars

\* While the loop is live, what is asked for is begun and what is begun ends.
Serve(k) == live /\ k \in want /\ (Begin(k) \/ Discard(k))

FairSpec ==
  /\ Spec
  /\ \A k \in Items : WF_vars(Serve(k)) /\ WF_vars(\E again \in BOOLEAN : End(k, again))
============================================================================
