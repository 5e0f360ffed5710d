----------------------------- MODULE WorkQueue -----------------------------
(***************************************************************************)
(* The rate limiting work queue of client-go, from how the controller, the  *)
(* event handlers and the sources use it.  It is not part of the            *)
(* repository.  A queue is a record, and every method maps a queue to the   *)
(* queue it leaves behind, so that a caller's sequence of calls is a        *)
(* composition.                                                             *)
(*                                                                          *)
(*   order         the FIFO order of the items ready for Get                *)
(*   dirty         the items that need processing, queued or not            *)
(*   processing    the items handed out by Get and not yet Done             *)
(*   waiting       the items AddAfter holds back until their delay is over  *)
(*   failed        the items the rate limiter remembers a failure of (the   *)
(*                 controller tells only "some" from "none" apart)          *)
(*   shuttingDown  ShutDown was called                                      *)
(***************************************************************************)
EXTENDS Sequences

CONSTANT Items

Queues ==
  [order : Seq(Items), dirty : SUBSET Items, processing : SUBSET Items,
   waiting : SUBSET Items, failed : SUBSET Items, shuttingDown : BOOLEAN]

NewQueue ==
  [order |-> <<>>, dirty |-> {}, processing |-> {}, waiting |-> {},
   failed |-> {}, shuttingDown |-> FALSE]

\* Add marks the item dirty; an item that is being processed is not queued
\* again before Done.
Add(q, k) ==
  IF q.shuttingDown \/ k \in q.dirty
  THEN q
  ELSE [q EXCEPT !.dirty = @ \cup {k},
                 !.order = IF k \in q.processing THEN @ ELSE Append(@, k)]

CanGet(q) == q.order # <<>>

\* Get blocks until there is an item or the queue is shut down and drained.
Get(q) ==
  [q EXCEPT !.order = Tail(@),
            !.processing = @ \cup {Head(q.order)},
            !.dirty = @ \ {Head(q.order)}]

Drained(q) == q.shuttingDown /\ q.order = <<>>

\* Done queues the item again if it was added while it was processed.
Done(q, k) ==
  [q EXCEPT !.processing = @ \ {k},
            !.order = IF k \in q.dirty THEN Append(@, k) ELSE @]

AddAfter(q, k) ==
  IF q.shuttingDown THEN q ELSE [q EXCEPT !.waiting = @ \cup {k}]

\* The back-off of the next AddRateLimited grows with the failures.
AddRateLimited(q, k) == AddAfter([q EXCEPT !.failed = @ \cup {k}], k)

Forget(q, k) == [q EXCEPT !.failed = @ \ {k}]

\* The delay of k is over: the loop of the delaying queue adds the item.
DelayOver(q, k) == Add([q EXCEPT !.waiting = @ \ {k}], k)

\* ShutDown stops the delaying loop: nothing it holds is added any more.
ShutDown(q) == [q EXCEPT !.shuttingDown = TRUE]

============================================================================
