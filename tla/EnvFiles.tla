------------------------------ MODULE EnvFiles ------------------------------
(***************************************************************************)
(* What pkg/envtest hands to the API server: the CRDs and the webhook      *)
(* configurations it finds in the paths and the lists of an Environment.   *)
(* A file has an extension and holds documents, or cannot be parsed; a     *)
(* document keeps the fields the code looks at.  The functions return      *)
(* [err, val]; one step, Read, does what Start does with one input.        *)
(***************************************************************************)
EXTENDS Naturals, Sequences, FiniteSets, SequencesExt

CONSTANTS
    Inputs,      \* the inputs, records as Read uses them
    Convertible, \* the CRD names whose kind the scheme can convert
    CA           \* LocalServingCAData

VARIABLES input, output

vars == <<input, output>>

Missing == [missing |-> TRUE, files |-> <<>>]
Failed == [err |-> TRUE, val |-> <<>>]
Ok(v) == [err |-> FALSE, val |-> v]

\* A function over the files or paths of a list that ends at the first error.
Collect(f(_), s) ==
    LET r == [i \in DOMAIN s |-> f(s[i])]
    IN  IF \E i \in DOMAIN r : r[i].err THEN Failed
        ELSE Ok(FlattenSeq([i \in DOMAIN r |-> r[i].val]))

readDocuments(file) == IF file.bad THEN Failed ELSE Ok(file.docs)

\* Only files with an allowed extension are read.  A document that is no CRD, or
\* has no kind or group, is skipped; one of whatever kind where these are no
\* strings is an error.
Extensions == {".json", ".yaml", ".yml"}
readCRDs(files) ==
    LET read(file) == IF file.ext \in Extensions THEN readDocuments(file) ELSE Ok(<<>>)
        all == Collect(read, files)
    IN  IF all.err \/ \E d \in Range(all.val) : d.names = "wrong" THEN Failed
        ELSE Ok(SelectSeq(all.val, LAMBDA d : d.kind = "CRD" /\ d.names = "set"))

\* renderCRDs: of the documents with the same version, kind and name the last
\* one is kept; the map gives the survivors back in any order.
GVKN(d) == <<d.api, d.name>>
lastOf(docs) == {i \in DOMAIN docs : \A j \in i + 1 .. Len(docs) : GVKN(docs[j]) # GVKN(docs[i])}

renderCRDs(paths, errorIfMissing) ==
    LET read(p) == IF p.missing THEN [err |-> errorIfMissing, val |-> <<>>]
                                ELSE readCRDs(p.files)
        all == Collect(read, paths)
    IN  IF all.err THEN {Failed}
        ELSE {Ok([k \in DOMAIN o |-> all.val[o[k]]]) : o \in SetToSeqs(lastOf(all.val)) }

\* Slip: the first list wins.
mergeFirst(s1, s2) ==
    LET all == s2 \o s1
        keep == {i \in DOMAIN all : \A j \in i + 1 .. Len(all) : all[j].name # all[i].name}
    IN  {[k \in DOMAIN o |-> all[o[k]]] : o \in SetToSeqs(keep)}

\* mergeCRDs: by name, the second list wins, in any order.
mergeCRDs(s1, s2) ==
    LET all == s1 \o s2
        keep == {i \in DOMAIN all : \A j \in i + 1 .. Len(all) : all[j].name # all[i].name}
    IN  {[k \in DOMAIN o |-> all[o[k]]] : o \in SetToSeqs(keep)}

\* modifyConversionWebhooks: a CRD that keeps unknown fields, which a v1beta1
\* CRD does unless it says otherwise, and one that cannot be converted stay as
\* they are.  A preserveUnknownFields that is no boolean counts as not found in
\* a v1beta1 CRD and is an error in a v1 CRD.
preserves(d) == d.preserve = "yes" \/ (d.preserve \in {"unset", "wrong"} /\ d.api = "v1beta1")
modifyConversionWebhooks(crds) ==
    IF \E d \in Range(crds) : d.api = "v1" /\ d.preserve = "wrong" THEN Failed
    ELSE Ok([i \in DOMAIN crds |->
                IF preserves(crds[i]) \/ crds[i].name \notin Convertible THEN crds[i]
                ELSE [crds[i] EXCEPT !.ca = CA]])

\* CreateCRDs: each CRD in turn is created or written over the one of its name.
CreateCRDs(crds) ==
    [n \in {crds[i].name : i \in DOMAIN crds} |->
        LET at == CHOOSE i \in DOMAIN crds :
                    crds[i].name = n /\ \A j \in i + 1 .. Len(crds) : crds[j].name # n
        IN  crds[at]]

\* WaitForCRDs waits for the served versions of every CRD in the list.
waitingFor(crds) ==
    UNION {{<<v, crds[i].name>> : v \in crds[i].served} : i \in DOMAIN crds}

\* readWebhooks and parseWebhook: the configurations of both kinds, and an
\* error for one of an unknown version.
readWebhooks(files) ==
    LET hooks == {"Mutating", "Validating"}
        read(file) == IF file.ext \in Extensions THEN readDocuments(file) ELSE Ok(<<>>)
        all == Collect(read, files)
        found == SelectSeq(all.val, LAMBDA d : d.kind \in hooks)
    IN  IF all.err \/ \E i \in DOMAIN found : found[i].api \notin {"v1", "v1beta1"}
        THEN Failed ELSE Ok(found)

parseWebhook(paths, ignoreMissing) ==
    LET read(p) == IF p.missing THEN [err |-> ~ignoreMissing, val |-> <<>>]
                                ELSE readWebhooks(p.files)
    IN  Collect(read, paths)

\* modifyWebhook: the CA goes into the clientConfig, which must be there, and
\* the URL of the local server replaces a service with a path; a service
\* without one stays.
modifyWebhook(w) ==
    IF ~w.config THEN Failed
    ELSE Ok(<<[w EXCEPT !.ca = CA, !.url = @ \/ w.service = "path",
                        !.service = IF @ = "path" THEN "none" ELSE @]>>)

\* Every webhook of every configuration is modified; a configuration must have
\* the list of them, if an empty one.
ModifyWebhookDefinitions(hooks) ==
    LET modify(d) ==
            LET webhooks == Collect(modifyWebhook, d.webhooks)
            IN  IF ~d.hasWebhooks \/ webhooks.err THEN Failed
                ELSE Ok(<<[d EXCEPT !.webhooks = webhooks.val]>>)
    IN  Collect(modify, hooks)

Pending == [done |-> FALSE]

Init == input \in Inputs /\ output = Pending

\* Start's part in it: PrepWithoutInstalling on the webhooks, the merge of the
\* CRD lists, and InstallCRDs.
Read ==
    /\ output = Pending
    /\ LET parsed == parseWebhook(input.hookPaths, input.ignoreMissing)
           hooks == IF parsed.err THEN Failed
                    ELSE ModifyWebhookDefinitions(input.hooks \o parsed.val)
       IN  \E crds \in mergeCRDs(input.option, input.env) :
           \E rendered \in renderCRDs(input.paths, input.errorIfMissing) :
             LET all == modifyConversionWebhooks(crds \o rendered.val)
             IN  output' = IF hooks.err \/ rendered.err \/ all.err
                           THEN [done |-> TRUE, err |-> TRUE]
                           ELSE [done |-> TRUE, err |-> FALSE, hooks |-> hooks.val,
                                 crds |-> CreateCRDs(all.val),
                                 waiting |-> waitingFor(all.val)]
    /\ UNCHANGED input

Next == Read

Spec == Init /\ [][Next]_vars

-----------------------------------------------------------------------------
Usable(d) == d.kind = "CRD" /\ d.names = "set"
Hook(d) == d.kind \in {"Mutating", "Validating"}

\* The documents of the input in reading order, whatever their kind.
AllDocs(paths) ==
    LET docs(f) == IF f.ext \in Extensions THEN f.docs ELSE <<>>
        files(p) == FlattenSeq([i \in DOMAIN p.files |-> docs(p.files[i])])
    IN  FlattenSeq([i \in DOMAIN paths |-> files(paths[i])])

\* A file decides over a list, a later document over an earlier one of the same
\* version, and Environment.CRDs over CRDInstallOptions.CRDs; what ends up in
\* the API server carries the CA of the local server exactly if it can be
\* converted and prunes unknown fields; Start waits for the versions of what it
\* installed; and every webhook configuration found trusts that CA and points
\* to the local server (renderCRDs, mergeCRDs, modifyConversionWebhooks,
\* WaitForCRDs, ModifyWebhookDefinitions), unless it named a service without a
\* path.
InstallsWhatIsWritten ==
    output.done /\ ~output.err =>
        LET docs == AllDocs(input.paths)
            hooks == {d \in Range(AllDocs(input.hookPaths) \o input.hooks) : Hook(d)}
            inFiles(n) == {i \in DOMAIN docs : Usable(docs[i]) /\ docs[i].name = n}
            newest(n) == {i \in inFiles(n) :
                            \A j \in inFiles(n) : j > i => docs[j].api # docs[i].api}
            listed(s, n) == {s[i] : i \in {k \in DOMAIN s : s[k].name = n}}
            from(n) == IF inFiles(n) # {} THEN {docs[i] : i \in newest(n)}
                       ELSE IF listed(input.env, n) # {} THEN listed(input.env, n)
                       ELSE listed(input.option, n)
        IN  /\ DOMAIN output.crds =
                 {d.name : d \in {e \in Range(docs \o input.env \o input.option) : Usable(e)}}
            /\ \A n \in DOMAIN output.crds :
                 LET d == output.crds[n]
                 IN  /\ [d EXCEPT !.ca = 0] \in from(n)
                     /\ (d.ca = CA) <=> (n \in Convertible /\ ~preserves(d))
                     /\ \A v \in d.served : <<v, n>> \in output.waiting
            /\ \A d \in hooks : \E e \in Range(output.hooks) :
                 /\ e.name = d.name /\ Len(e.webhooks) = Len(d.webhooks)
                 /\ \A i \in DOMAIN d.webhooks :
                      /\ e.webhooks[i].ca = CA
                      /\ d.webhooks[i].service # "bare" =>
                           e.webhooks[i].service = "none" /\ e.webhooks[i].url

\* An unreadable file, a missing path that is not tolerated, a document whose
\* kind and group are no strings, a v1 CRD whose preserveUnknownFields is no
\* boolean and is not overruled by another document, and a webhook
\* configuration of an unknown version, without webhooks or with one that has
\* no clientConfig fail Start before anything is sent, and nothing else does
\* (readCRDs, parseWebhook, readWebhooks, modifyConversionWebhooks,
\* modifyWebhook).
FailsOnlyOnBadInput ==
    output.done =>
        LET read(paths) ==
              UNION {{f \in Range(paths[i].files) : f.ext \in Extensions} : i \in DOMAIN paths}
            docs == AllDocs(input.paths)
            written == {i \in DOMAIN docs :
                          \A j \in i + 1 .. Len(docs) :
                             ~(Usable(docs[j]) /\ GVKN(docs[j]) = GVKN(docs[i]))}
            option == {d \in Range(input.option) : \A e \in Range(input.env) : e.name # d.name}
            crds == {d \in {docs[i] : i \in written} \cup option \cup Range(input.env) : Usable(d)}
            unusable(d) ==
              \/ d.api \notin {"v1", "v1beta1"} \/ ~d.hasWebhooks
              \/ \E w \in Range(d.webhooks) : ~w.config
        IN  output.err <=>
              \/ input.errorIfMissing /\ Missing \in Range(input.paths)
              \/ ~input.ignoreMissing /\ Missing \in Range(input.hookPaths)
              \/ \E f \in read(input.paths) \cup read(input.hookPaths) : f.bad
              \/ \E d \in Range(docs) : d.names = "wrong"
              \/ \E d \in crds : d.api = "v1" /\ d.preserve = "wrong"
              \/ \E d \in Range(AllDocs(input.hookPaths) \o input.hooks) : Hook(d) /\ unusable(d)

\* Both: what is installed is what is written, and only bad input fails.
FilesRight == InstallsWhatIsWritten /\ FailsOnlyOnBadInput
=============================================================================
