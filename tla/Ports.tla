-------------------------------- MODULE Ports --------------------------------
(***************************************************************************)
(* pkg/internal/testing/addr: Suggest hands out ports.  The operating      *)
(* system offers a port that nobody listens on, the listener is closed     *)
(* again, and a cache under a lock keeps the port from being handed out    *)
(* twice while it is reserved.                                             *)
(***************************************************************************)
EXTENDS Naturals, Sequences

CONSTANTS
    Callers,      \* goroutines that may call Suggest
    PortNumbers,
    ReserveTime,  \* portReserveTime
    Retries,      \* portConflictRetry
    MaxTime       \* bound: how long the clock runs

PortsAssumption == ReserveTime \in Nat /\ Retries \in Nat /\ MaxTime \in Nat

VARIABLES
    now,     \* the clock
    ports,   \* portCache.ports: when a port was added, for the ports in it
    call,    \* of each caller: idle, or the tries made and the port offered
    given    \* history: the ports handed out, and when, in order

vars == <<now, ports, call, given>>

None == [pc |-> "idle", tries |-> 0]
Calls == [pc : {"idle", "ask"}, tries : 0 .. Retries]
         \cup [pc : {"offer"}, tries : 0 .. Retries, port : PortNumbers]
Entries == [port : PortNumbers, at : 0 .. MaxTime]

TypeOK ==
    /\ now \in 0 .. MaxTime
    /\ ports \subseteq Entries /\ given \in Seq(Entries)
    /\ call \in [Callers -> Calls]

Init == now = 0 /\ ports = {} /\ given = <<>> /\ call = [c \in Callers |-> None]

Suggest(c) ==
    /\ call[c].pc = "idle" /\ Retries > 0
    /\ call' = [call EXCEPT ![c] = [pc |-> "ask", tries |-> 0]]
    /\ UNCHANGED <<now, ports, given>>

\* suggest: the listener is open only inside this step, so two callers, or
\* the same one again, may be offered the same port.
suggest(c) ==
    /\ call[c].pc = "ask"
    /\ \E p \in PortNumbers :
         call' = [call EXCEPT ![c] = [pc |-> "offer", tries |-> call[c].tries, port |-> p]]
    /\ UNCHANGED <<now, ports, given>>

\* Resolving or listening fails: Suggest returns the error.
suggestFails(c) ==
    /\ call[c].pc = "ask"
    /\ call' = [call EXCEPT ![c] = None]
    /\ UNCHANGED <<now, ports, given>>

\* Slip: a reservation ends one instant early.
outdatedEarly == {e \in ports : now - e.at >= ReserveTime}

\* portCache.add forgets what is outdated before it looks for the port.
outdated == {e \in ports : now - e.at > ReserveTime}

add(c) ==
    LET p == call[c].port
        kept == ports \ outdated
        taken == \E e \in kept : e.port = p
    IN  /\ call[c].pc = "offer"
        /\ IF taken
           THEN /\ ports' = kept
                /\ call' = [call EXCEPT ![c] =
                              IF call[c].tries + 1 < Retries
                              THEN [pc |-> "ask", tries |-> call[c].tries + 1] ELSE None]
                /\ UNCHANGED given
           ELSE /\ ports' = kept \cup {[port |-> p, at |-> now]}
                /\ given' = Append(given, [port |-> p, at |-> now])
                /\ call' = [call EXCEPT ![c] = None]
        /\ UNCHANGED now

Tick == now < MaxTime /\ now' = now + 1 /\ UNCHANGED <<ports, call, given>>

Next == Tick \/ \E c \in Callers : Suggest(c) \/ suggest(c) \/ suggestFails(c) \/ add(c)

Spec == Init /\ [][Next]_vars

\* "It makes sure that new port allocated does not conflict with old ports
\* allocated within 1 minute": a port handed out twice, to whichever callers, was
\* handed out more than the reserve time apart (Suggest, portCache.add).
NotGivenTwice ==
    \A i, j \in DOMAIN given :
        i < j /\ given[i].port = given[j].port => given[j].at - given[i].at > ReserveTime

=============================================================================
