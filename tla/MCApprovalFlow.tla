---------------------------- MODULE MCApprovalFlow ----------------------------
(* ApprovalFlow on small instances.  Two orders let a token meet an order  *)
(* it was not made for; two tokens put two approvers, or two chats of one  *)
(* approver, on one order.  Orders, tokens and the two chats are           *)
(* interchangeable, and every property is one of safety.                   *)
EXTENDS ApprovalFlow, TLC

CONSTANTS w1, w2,          \* work orders
          c1, c2,          \* challenge ids
          local,           \* the approver of the HTTP surface
          telegram,        \* the approver name of one Telegram user
          atHttp, inChat, inGroup \* actors: the operator at the HTTP surface,
                           \* the Telegram user in two different chats

MCOrders     == { w1, w2 }
MCApprovers  == { local, telegram }
MCActors     == { atHttp, inChat, inGroup }
MCApproverOf == (atHttp :> local) @@ (inChat :> telegram) @@ (inGroup :> telegram)
MCTokens     == { c1, c2 }
MCTTLs       == { -1, 1 }        \* the HTTP surface takes any ttl_seconds
RenewalTTLs  == { 1 }            \* the default lifetime only
MCSymmetry   == Permutations(MCOrders) \cup Permutations(MCTokens)
                \cup Permutations({ inChat, inGroup })
=============================================================================
