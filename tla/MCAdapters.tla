----------------------------- MODULE MCAdapters -----------------------------
(* Adapters on small instances.  Time is counted in half seconds for jekko,*)
(* jankurai and the lease, whose real values are used; the waits of zyal   *)
(* and jailgun are scaled down to a few polls.                             *)
EXTENDS Adapters

CONSTANTS a1, a2  \* browser accounts

MCAccounts == { a1, a2 }

Lists == { << a1 >>, << a1, a2 >>, << a1, a1 >> }

MCRequests ==
    [browser : Lists \cup { None }, top : { << a1 >>, Garbled, None },
     account : { << a1 >>, << a2 >>, None }]

Plain == [browser |-> None, top |-> None, account |-> None]

MCWorkOrders ==
    [kind : { "worker", "reason", "jankurai", "unknown" }] \cup
    [kind : { "jeryu", "packet" }, valid : BOOLEAN] \cup
    [kind : { "zyal" }, valid : BOOLEAN, pollTimeout : { 0, 25 }] \cup
    [kind : { "run" }, valid : { TRUE }, configured : { TRUE }, request : MCRequests] \cup
    [kind : { "run", "deploy" }, valid : BOOLEAN, configured : BOOLEAN, request : { Plain }]
=============================================================================
