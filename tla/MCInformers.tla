---------------------------- MODULE MCInformers ----------------------------
(* Instances of Informers for TLC. *)
EXTENDS Informers

CONSTANTS pods, structured, metadata

\* A source and a reader of one type race for its informer, in the last map
\* that WaitForCacheSync visits; the manager waits for the cache.
MCMaps == <<structured, metadata>>
MCMapOf == [g \in Keys |-> metadata]
MCWants == [c \in Getters |-> pods]
=============================================================================
