----------------------------- MODULE CertWatcher -----------------------------
(***************************************************************************)
(* pkg/certwatcher: the certificate and key files are read once, then      *)
(* watched; on an event both are read again and, if they fit together,     *)
(* become the certificate that handshakes get.  Somebody else rewrites or  *)
(* replaces the files, one after the other.                                *)
(***************************************************************************)
EXTENDS Naturals, Sequences

CONSTANTS MaxVersion,   \* bound: certificates issued
          MaxEvents     \* bound: events waiting in the watcher's channel

Files == {"cert", "key"}

VARIABLES
    issued,    \* the newest version there is
    disk,      \* of each file: the version it is of, 0 if it is not there
    watched,   \* the files the watcher has a watch on
    events,    \* fsnotify.Watcher.Events
    cw,        \* the goroutine: new, reading, started, ...
    current,   \* currentCert: the version served, 0 before the first read
    ctxDone,
    unseen     \* history: the files that changed with no watch on them and
               \* were not read since

vars == <<issued, disk, watched, events, cw, current, ctxDone, unseen>>

Event == [op : {"write", "create", "remove", "chmod"}, file : Files]
Pcs == {"new", "add", "wait", "rewatch", "readCert", "readKey", "closed", "failed"}

TypeOK ==
    /\ issued \in 1 .. MaxVersion /\ disk \in [Files -> 0 .. MaxVersion]
    /\ watched \subseteq Files /\ unseen \subseteq Files
    /\ events \in Seq(Event) /\ Len(events) <= MaxEvents
    /\ cw \in [pc : Pcs, file : Files, got : 0 .. MaxVersion, back : Pcs]
    /\ current \in 0 .. MaxVersion /\ ctxDone \in BOOLEAN

Init ==
    /\ issued = 1 /\ disk = [f \in Files |-> 1]
    /\ watched = {} /\ events = <<>> /\ current = 0 /\ ctxDone = FALSE /\ unseen = {}
    /\ cw = [pc |-> "readCert", file |-> "cert", got |-> 0, back |-> "new"]

\* ReadCertificate: tls.LoadX509KeyPair reads the one file and then the other,
\* and fails if one is missing or the key is not that of the certificate.
ReadCert ==
    /\ cw.pc = "readCert"
    /\ cw' = [cw EXCEPT !.pc = "readKey", !.got = disk["cert"]]
    /\ unseen' = unseen \ {"cert"}
    /\ UNCHANGED <<issued, disk, watched, events, current, ctxDone>>

\* Slip: a pair that does not fit ends the watch.
ReadCertificateOrEnd ==
    LET fits == cw.got # 0 /\ cw.got = disk["key"]
    IN  /\ cw.pc = "readKey"
        /\ current' = IF fits THEN cw.got ELSE current
        /\ cw' = [cw EXCEPT !.pc = IF cw.back # "new" THEN (IF fits THEN cw.back ELSE "closed")
                                   ELSE IF fits THEN "add" ELSE "failed", !.got = 0]
        /\ unseen' = unseen \ {"key"}
        /\ UNCHANGED <<issued, disk, watched, events, ctxDone>>

ReadCertificate ==
    LET fits == cw.got # 0 /\ cw.got = disk["key"]
    IN  /\ cw.pc = "readKey"
        /\ current' = IF fits THEN cw.got ELSE current
        /\ cw' = [cw EXCEPT !.pc = IF cw.back # "new" THEN cw.back
                                   ELSE IF fits THEN "add" ELSE "failed", !.got = 0]
        /\ unseen' = unseen \ {"key"}
        /\ UNCHANGED <<issued, disk, watched, events, ctxDone>>

\* Start: a watch for each file, in order; the first that fails ends it.
Start ==
    /\ cw.pc = "add"
    /\ IF disk[cw.file] = 0
       THEN cw' = [cw EXCEPT !.pc = "failed"] /\ UNCHANGED watched
       ELSE /\ watched' = watched \cup {cw.file}
            /\ cw' = IF cw.file = "cert" THEN [cw EXCEPT !.file = "key"]
                     ELSE [cw EXCEPT !.pc = "wait", !.back = "wait"]
    /\ UNCHANGED <<issued, disk, events, current, ctxDone, unseen>>

\* Watch and handleEvent: an event that changes nothing is dropped, after a
\* removal the file is watched again, and both files are read.
handleEvent ==
    LET e == Head(events)
    IN  /\ cw.pc = "wait" /\ events # <<>>
        /\ events' = Tail(events)
        /\ cw' = CASE e.op = "chmod" -> cw
                   [] e.op = "remove" -> [cw EXCEPT !.pc = "rewatch", !.file = e.file]
                   [] OTHER -> [cw EXCEPT !.pc = "readCert"]
        /\ UNCHANGED <<issued, disk, watched, current, ctxDone, unseen>>

\* watcher.Add fails if the file is not back yet; that is only logged.
Rewatch ==
    /\ cw.pc = "rewatch"
    /\ watched' = IF disk[cw.file] = 0 THEN watched ELSE watched \cup {cw.file}
    /\ cw' = [cw EXCEPT !.pc = "readCert"]
    /\ UNCHANGED <<issued, disk, events, current, ctxDone, unseen>>

\* The context is done: Close, and Watch ends when it comes round again.
Close ==
    /\ ctxDone /\ cw.pc = "wait"
    /\ cw' = [cw EXCEPT !.pc = "closed"]
    /\ watched' = {} /\ events' = <<>>
    /\ UNCHANGED <<issued, disk, current, ctxDone, unseen>>

-----------------------------------------------------------------------------
(* The issuer of the certificates, and the kernel's notifications.          *)

Notify(op, f) ==
    IF f \in watched
    THEN events' = Append(events, [op |-> op, file |-> f]) /\ UNCHANGED unseen
    ELSE unseen' = unseen \cup {f} /\ UNCHANGED events

Room == Len(events) < MaxEvents

\* A new certificate and key are issued; each file follows in its own time,
\* written in place or taken away, its watch with it, and put back.
Issue ==
    /\ issued < MaxVersion /\ \A f \in Files : disk[f] = issued
    /\ issued' = issued + 1
    /\ UNCHANGED <<disk, watched, events, cw, current, ctxDone, unseen>>

Write(f) ==
    /\ disk[f] \notin {0, issued} /\ Room
    /\ disk' = [disk EXCEPT ![f] = issued]
    /\ Notify("write", f)
    /\ UNCHANGED <<issued, watched, cw, current, ctxDone>>

Remove(f) ==
    /\ disk[f] \notin {0, issued} /\ Room
    /\ disk' = [disk EXCEPT ![f] = 0]
    /\ Notify("remove", f)
    /\ watched' = watched \ {f}
    /\ UNCHANGED <<issued, cw, current, ctxDone>>

Create(f) ==
    /\ disk[f] = 0 /\ Room
    /\ disk' = [disk EXCEPT ![f] = issued]
    /\ Notify("create", f)
    /\ UNCHANGED <<issued, watched, cw, current, ctxDone>>

Chmod(f) ==
    /\ f \in watched /\ events = <<>>
    /\ events' = <<[op |-> "chmod", file |-> f]>>
    /\ UNCHANGED <<issued, disk, watched, cw, current, ctxDone, unseen>>

Cancel == ~ctxDone /\ ctxDone' = TRUE
          /\ UNCHANGED <<issued, disk, watched, events, cw, current, unseen>>

Watcher == ReadCert \/ ReadCertificate \/ Start \/ handleEvent \/ Rewatch \/ Close
Issuer == Issue \/ \E f \in Files : Write(f) \/ Remove(f) \/ Create(f) \/ Chmod(f)
Next == Watcher \/ Issuer \/ Cancel

Spec == Init /\ [][Next]_vars /\ WF_vars(Watcher)

-----------------------------------------------------------------------------
\* Handshakes get a certificate and the key that goes with it, of the newest
\* version in both files, as soon as the events are handled; the exceptions
\* are a change that happened while the file had no watch (between the first
\* read and Start, or between a removal and the new watch), a watch that could
\* not be set up, and a watcher that was stopped (handleEvent,
\* ReadCertificate, Start).
NewCertServed ==
    (disk = [f \in Files |-> MaxVersion]) ~>
        (current = MaxVersion \/ unseen # {} \/ ctxDone \/ cw.pc = "failed")

=============================================================================
