-------------------------- MODULE MCCollectionRunner --------------------------
(* CollectionRunner on small instances.  One run is checked under every        *)
(* configuration; two runs share the service, one of them driven by rows, one  *)
(* at a time sending in parallel.                                              *)
EXTENDS CollectionRunner

AllConfigs ==
    [parallel: BOOLEAN, stopOnFailure: BOOLEAN, rows: BOOLEAN, delay: BOOLEAN]

TwoConfigs == {[parallel |-> FALSE, stopOnFailure |-> FALSE, rows |-> TRUE,
                delay |-> TRUE],
               [parallel |-> TRUE, stopOnFailure |-> FALSE, rows |-> FALSE,
                delay |-> FALSE]}
=============================================================================
