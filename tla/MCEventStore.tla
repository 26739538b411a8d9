----------------------------- MODULE MCEventStore -----------------------------
(* EventStore on a small instance: one order and one key carry everything  *)
(* that is per order and per key; two contents, which are interchangeable, *)
(* tell a first write from a last one.                                     *)
EXTENDS EventStore

CONSTANTS w1, k1, old, new, proof, nobody, tab

MCOrders   == { w1 }
MCKeys     == { k1 }
MCContents == { old, new }
MCUris     == { proof }
MCStreams  == { tab }
MCSymmetry == Permutations(MCContents)
=============================================================================
