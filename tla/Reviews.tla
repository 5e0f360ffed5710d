------------------------------- MODULE Reviews -------------------------------
(***************************************************************************)
(* The HTTP handlers that answer one request from what it carries:         *)
(* admission reviews (pkg/webhook/admission), token reviews                *)
(* (pkg/webhook/authentication), CRD conversion (pkg/webhook/conversion)   *)
(* and health checks (pkg/healthz).  A handler is called once per request; *)
(* the users' code it calls is part of the request here, as what that code *)
(* would return.                                                           *)
(***************************************************************************)
EXTENDS Integers, Sequences, SequencesExt, FiniteSets

CONSTANTS
    Requests,   \* the requests that may arrive
    Group(_)    \* the API group of a group and version

VARIABLES input, output

vars == <<input, output>>

OK == 200
BadRequest == 400
Forbidden == 403
InternalServerError == 500

-----------------------------------------------------------------------------
(* Admission responses.  Code 0 stands for a missing status or a code that  *)
(* was not set, ptype for the patch type.                                   *)

Response(allowed, code, patches, ptype) ==
    [allowed |-> allowed, code |-> code, patches |-> patches, patch |-> <<>>,
     ptype |-> ptype, uid |-> "none"]

ValidationResponse(allowed) ==
    Response(allowed, IF allowed THEN OK ELSE Forbidden, <<>>, "none")
Allowed == ValidationResponse(TRUE)
Denied == ValidationResponse(FALSE)
Patched(patches) == [Allowed EXCEPT !.patches = patches]
Errored(code) == Response(FALSE, code, <<>>, "none")
PatchResponseFromRaw(diff) ==
    IF ~diff.ok THEN Errored(InternalServerError)
    ELSE Response(TRUE, 0, diff.patches, IF diff.patches = <<>> THEN "none" ELSE "json")
validationResponseFromStatus(allowed, code) == Response(allowed, code, <<>>, "none")

\* Complete; marshalling the patches may fail.
Complete(r, req) ==
    LET base == [r EXCEPT !.uid = req.uid, !.code = IF r.code = 0 THEN OK ELSE r.code]
    IN  IF r.patches = <<>> THEN [ok |-> TRUE, resp |-> base]
        ELSE [ok |-> req.marshals,
              resp |-> [base EXCEPT !.patch = r.patches, !.ptype = "json"]]

\* Decoder.DecodeRaw: "none" is an empty object, "bad" one that is no JSON.
DecodeRaw(raw) == raw = "good"
Decode(req) == req.object # "none" /\ DecodeRaw(req.object)

ValidationError(h) ==
    IF h.err = "status" THEN validationResponseFromStatus(FALSE, h.code) ELSE Denied

\* validatingHandler.Handle
ValidatingHandle(h, req) ==
    LET decoded == CASE req.op = "create" -> Decode(req)
                     [] req.op = "update" -> DecodeRaw(req.object) /\ DecodeRaw(req.oldObject)
                     [] req.op = "delete" -> DecodeRaw(req.oldObject)
                     [] OTHER -> TRUE
        validated == req.op \in {"create", "update", "delete"}
    IN  IF ~decoded THEN Errored(BadRequest)
        ELSE IF validated /\ h.err # "none" THEN ValidationError(h) ELSE Allowed

\* mutatingHandler.Handle
DefaultingHandle(h, req) ==
    IF ~Decode(req) THEN Errored(BadRequest)
    ELSE IF ~req.marshals THEN Errored(InternalServerError)
    ELSE PatchResponseFromRaw([ok |-> TRUE, patches |-> h.patches])

HandleOne(h, req) ==
    CASE h.kind = "func" -> h.resp
      [] h.kind = "validator" -> ValidatingHandle(h, req)
      [] h.kind = "defaulter" -> DefaultingHandle(h, req)

\* Slip: the first handler answers for all.
FirstAnswer(hs, req) == SelectInSeq(<<hs[1]>>, LAMBDA h : ~HandleOne(h, req).allowed)

\* multiMutating.Handle and multiValidating.Handle: the handlers in order, the
\* first that does not allow answers for all.
FirstRefusal(hs, req) == SelectInSeq(hs, LAMBDA h : ~HandleOne(h, req).allowed)

OddPatchType(h, req) == HandleOne(h, req).ptype \notin {"none", "json"}

multiMutatingHandle(hs, req) ==
    LET stop == SelectInSeq(hs, LAMBDA h : ~HandleOne(h, req).allowed \/ OddPatchType(h, req))
        patches == FlattenSeq([i \in DOMAIN hs |-> HandleOne(hs[i], req).patches])
    IN  IF stop # 0
        THEN IF HandleOne(hs[stop], req).allowed THEN Errored(InternalServerError)
             ELSE HandleOne(hs[stop], req)
        ELSE IF ~req.marshals THEN Errored(BadRequest)
        ELSE [Response(TRUE, OK, <<>>, "json") EXCEPT !.patch = patches]

multiValidatingHandle(hs, req) ==
    LET stop == FirstRefusal(hs, req)
    IN  IF stop # 0 THEN HandleOne(hs[stop], req) ELSE Response(TRUE, OK, <<>>, "none")

\* Webhook.Handle
AdmissionHandle(req) ==
    LET resp == CASE req.multi = "mutating" -> multiMutatingHandle(req.handlers, req)
                  [] req.multi = "validating" -> multiValidatingHandle(req.handlers, req)
                  [] req.multi = "no" -> HandleOne(req.handlers[1], req)
        done == Complete(resp, req)
    IN  IF done.ok THEN done.resp ELSE Errored(InternalServerError)

Typed(gvk) == IF gvk = "none" THEN "v1" ELSE gvk

\* Webhook.ServeHTTP: what is wrong with the request is answered without a
\* group, version and kind.
BadBody(req) == req.body \in {"nil", "unreadable"} \/ ~req.json \/ req.body = "undecodable"

AdmissionServeHTTP(req) ==
    IF BadBody(req) THEN [gvk |-> "none", resp |-> Errored(BadRequest)]
    ELSE [gvk |-> Typed(req.gvk), resp |-> AdmissionHandle(req)]

-----------------------------------------------------------------------------
(* Token reviews.                                                           *)

ReviewResponse(authenticated, user, error) ==
    [authenticated |-> authenticated, user |-> user, error |-> error, uid |-> "none"]
TokenErrored == ReviewResponse(FALSE, "none", TRUE)

TokenHandle(req) == [req.resp EXCEPT !.uid = req.uid]

TokenServeHTTP(req) ==
    IF BadBody(req) \/ req.token = "" THEN [gvk |-> "none", resp |-> TokenErrored]
    ELSE [gvk |-> Typed(req.gvk), resp |-> TokenHandle(req)]

-----------------------------------------------------------------------------
(* Conversion.  A scheme is a function from the groups and versions that    *)
(* have the kind to what the Go type implements: "hub", "spoke", "both" or  *)
(* "none"; "fails" are those whose ConvertTo and ConvertFrom fail.          *)

isHub(s, v) == s[v] \in {"hub", "both"}
isConvertible(s, v) == s[v] \in {"spoke", "both"}
objectGVKs(s, v) == {w \in DOMAIN s : Group(w) = Group(v)}

\* getHub: the only hub, an error if there are several.
getHub(s, v) == {w \in objectGVKs(s, v) : isHub(s, w)}

convertViaHub(s, fails, src, dst) ==
    /\ Cardinality(getHub(s, src)) = 1
    /\ src \notin fails /\ dst \notin fails

convertObject(s, fails, src, dst) ==
    /\ Group(src) = Group(dst)
    /\ src # dst
    /\ IF isHub(s, src) /\ isConvertible(s, dst) THEN dst \notin fails
       ELSE IF isHub(s, dst) /\ isConvertible(s, src) THEN src \notin fails
       ELSE /\ isConvertible(s, src) /\ isConvertible(s, dst)
            /\ convertViaHub(s, fails, src, dst)

allocateDstObject(s, v) == v \in DOMAIN s

\* handleConvertRequest: a review without a request, the body "empty", is an
\* error.  The objects are converted one after the other; the first that fails
\* ends the loop, and the ones before it are dropped with the error.
ConversionError == [ok |-> FALSE, objects |-> <<>>]
handleConvertRequest(req) ==
    LET fine(o) == /\ o.ver \in DOMAIN req.scheme
                   /\ allocateDstObject(req.scheme, req.desired)
                   /\ convertObject(req.scheme, req.fails, o.ver, req.desired)
        convert(r, o) ==
            CASE ~r.ok   -> r
              [] fine(o) -> [r EXCEPT !.objects = Append(@, [ver |-> req.desired, data |-> o.data])]
              [] OTHER   -> ConversionError
    IN  IF req.body = "empty" THEN ConversionError
        ELSE FoldLeft(convert, [ok |-> TRUE, objects |-> <<>>], req.objects)

\* ServeHTTP: a body that is no review gets a bare status and no review.  The
\* error of a review without a request is not answered: reading the UID of the
\* request panics, and net/http drops the connection, code 0.
ConversionServeHTTP(req) ==
    LET r == handleConvertRequest(req)
        bare(code) == [code |-> code, uid |-> "none", ok |-> FALSE, objects |-> <<>>]
    IN  CASE req.body = "bad"   -> bare(BadRequest)
          [] req.body = "empty" -> bare(0)
          [] req.body = "good"  -> [code |-> OK, uid |-> req.uid, ok |-> r.ok, objects |-> r.objects]

\* IsConvertible, which the builder asks before it registers the webhook.
IsConvertible(s, v) ==
    LET all == objectGVKs(s, v)
        hubs == getHub(s, v)
        nonSpokes == {w \in all \ hubs : ~isConvertible(s, w)}
        spokes == all \ (hubs \cup nonSpokes)
    IN  IF Cardinality(all) = 1 \/ (hubs = {} /\ spokes = {}) THEN "no"
        ELSE IF Cardinality(hubs) = 1 /\ nonSpokes = {} THEN "yes" ELSE "partial"

-----------------------------------------------------------------------------
(* Health checks: Checks maps names to whether the check passes now.        *)

getExcludedChecks(req) == req.exclude

serveAggregated(req) ==
    LET ran == DOMAIN req.checks \ getExcludedChecks(req)
        failed == \E c \in ran : ~req.checks[c]
    IN  [code |-> IF failed THEN InternalServerError ELSE OK,
         warned |-> (failed \/ req.verbose) /\ getExcludedChecks(req) \ DOMAIN req.checks # {}]

\* CheckHandler.ServeHTTP
CheckServeHTTP(healthy) ==
    [code |-> IF healthy THEN OK ELSE InternalServerError, warned |-> FALSE]

HealthServeHTTP(req) ==
    IF req.path = "/" THEN serveAggregated(req)
    ELSE IF DOMAIN req.checks = {} /\ req.path = "ping" THEN CheckServeHTTP(TRUE)
    ELSE IF req.path \notin DOMAIN req.checks THEN [code |-> 404, warned |-> FALSE]
    ELSE CheckServeHTTP(req.checks[req.path])

-----------------------------------------------------------------------------
Init == input \in Requests /\ output = [done |-> FALSE]

Answer ==
    CASE input.to = "admission" -> AdmissionServeHTTP(input)
      [] input.to = "token" -> TokenServeHTTP(input)
      [] input.to = "conversion" -> ConversionServeHTTP(input)
      [] input.to = "health" -> HealthServeHTTP(input)

Serve ==
    /\ ~output.done
    /\ output' = [done |-> TRUE, answer |-> Answer]
    /\ UNCHANGED input

Next == Serve

Spec == Init /\ [][Next]_vars

-----------------------------------------------------------------------------
\* Whether one handler lets the request through, in the words of its
\* documentation: a function's own answer; a validator on the objects its
\* operation is about; a defaulter on the object.
Passes(h, req) ==
    CASE h.kind = "func" -> h.resp.allowed
      [] h.kind = "defaulter" -> req.object = "good" /\ req.marshals
      [] h.kind = "validator" ->
           \/ req.op = "connect"
           \/ /\ h.err = "none"
              /\ req.op \in {"create", "update"} => req.object = "good"
              /\ req.op \in {"update", "delete"} => req.oldObject = "good"

\* An object is admitted only by a well-formed request that every handler
\* lets through, with the patches of all of them in their order; a review that
\* is answered by a handler carries the request's UID and a status code, and
\* one that could not be read is refused (AdmissionServeHTTP and what it calls).
AdmitsOnlyWhatAllAllow ==
    output.done /\ input.to = "admission" =>
      LET r == output.answer.resp
          wellFormed == input.body = "good" /\ input.json
          all == \A i \in DOMAIN input.handlers : Passes(input.handlers[i], input)
          patches == FlattenSeq([i \in DOMAIN input.handlers |->
                                   HandleOne(input.handlers[i], input).patches])
      IN  /\ r.allowed => wellFormed /\ all
          /\ wellFormed /\ all /\ input.marshals =>
               r.allowed \/ \E i \in DOMAIN input.handlers : OddPatchType(input.handlers[i], input)
          /\ r.allowed /\ input.multi # "validating" => r.patch = patches
          /\ r.allowed => r.uid = input.uid /\ r.code = OK
          /\ r.code # 0
          /\ output.answer.gvk = "none" <=> ~wellFormed

\* A token is authenticated only if the users' handler was asked about a
\* token that is not empty and said so (TokenServeHTTP).
TokensNeedAHandler ==
    output.done /\ input.to = "token" =>
      /\ output.answer.resp.authenticated <=>
           input.body = "good" /\ input.json /\ input.token # "" /\ input.resp.authenticated
      /\ output.answer.resp.authenticated => output.answer.resp.uid = input.uid

\* Of the versions of one group, those that a chain of the users' conversions
\* leads to from v: a spoke converts to and from any hub.
Reaches(s, fails, v, w) ==
    LET edge(x, y) == /\ x # y /\ Group(x) = Group(y)
                      /\ \/ isHub(s, x) /\ isConvertible(s, y) /\ y \notin fails
                         \/ isHub(s, y) /\ isConvertible(s, x) /\ x \notin fails
    IN  edge(v, w) \/ \E h \in DOMAIN s : isHub(s, h) /\ edge(v, h) /\ edge(h, w)

\* A review is answered with all the objects, in order, in the version that was
\* asked for, or with none, also when one fails after others were converted;
\* nothing is converted that the users' conversions do not lead to, in at most
\* two steps, within its group; and what IsConvertible declares convertible is
\* converted between any two versions unless the users' code fails.  Only a
\* review with a request is answered with a review, which carries its UID
\* (handleConvertRequest, convertObject, IsConvertible).
ConvertsAllOrNothing ==
    output.done /\ input.to = "conversion" =>
      LET a == output.answer
          olds == input.objects
          s == input.scheme
      IN  /\ a.code = OK <=> input.body = "good"
          /\ a.uid = IF input.body = "good" THEN input.uid ELSE "none"
          /\ a.ok => /\ Len(a.objects) = Len(olds)
                     /\ \A i \in DOMAIN olds :
                          /\ a.objects[i] = [ver |-> input.desired, data |-> olds[i].data]
                          /\ Reaches(s, input.fails, olds[i].ver, input.desired)
          /\ ~a.ok => a.objects = <<>>
          /\ /\ input.body = "good" /\ input.fails = {} /\ input.desired \in DOMAIN s
             /\ IsConvertible(s, input.desired) = "yes"
             /\ \A i \in DOMAIN olds : /\ olds[i].ver \in DOMAIN s \ {input.desired}
                                       /\ Group(olds[i].ver) = Group(input.desired)
             => a.ok

\* The aggregated endpoint fails exactly if a check that is not excluded does,
\* and a single check answers for itself (HealthServeHTTP).
HealthAsChecked ==
    output.done /\ input.to = "health" =>
      LET bad == {c \in DOMAIN input.checks : ~input.checks[c]}
      IN  /\ input.path = "/" => (output.answer.code = OK <=> bad \subseteq input.exclude)
          /\ input.path \in DOMAIN input.checks =>
               (output.answer.code = OK <=> input.path \notin bad)

\* All of the above: each kind of request is answered as its handlers say.
ReviewsRight ==
    AdmitsOnlyWhatAllAllow /\ TokensNeedAHandler /\ ConvertsAllOrNothing /\ HealthAsChecked

=============================================================================
