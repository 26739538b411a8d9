------------------------------ MODULE MCTelegram ------------------------------
(* TelegramLoop on a small instance: one person who writes from two chats, *)
(* three updates, and the operator at the HTTP surface.                    *)
EXTENDS TelegramLoop, TLC

CONSTANTS w1, w2,          \* work orders
          c1, c2,          \* challenge ids
          local,           \* the approver of the HTTP surface
          alice,      \* a Telegram user
          home, group      \* Telegram chats

atHttp  == [user |-> local, chat |-> local]
atHome  == [user |-> alice, chat |-> home]
inGroup == [user |-> alice, chat |-> group]

MCOrders     == { w1, w2 }
MCApprovers  == { local, alice }
MCActors     == { atHttp, atHome, inGroup }
MCApproverOf == [a \in MCActors |-> a.user]
MCTokens     == { c1, c2 }
MCTTLs       == { 0 }
MCUsers      == { alice }
MCChats      == { home, group }
MCHttpActors == { atHttp }

UserIds(ids)  == [key |-> "users", ids |-> ids]
ChatIds(ids)  == [key |-> "chats", ids |-> ids]
Line(key)     == [key |-> key]

(* A file that lets Alice in from both chats, one that lets anybody in     *)
(* from one of them, and files that are refused.                           *)
MCEnvFiles == {
    << Line("token"), ChatIds({ group }) >>,
    << UserIds({ alice }), Line("token"), ChatIds({ home }), ChatIds({ group }) >>,
    << Line("token"), UserIds({}) >>,
    << Line("token"), UserIds({ alice }), Line("empty_token") >>,
    << Line("token"), ChatIds({ home }), Line("garbled_list") >> }

Says(kind, a) == [kind |-> kind, from |-> a]
Types(a, c)   == [kind |-> "typed", from |-> a, token |-> c, decision |-> "Approved"]
Voice(a, words, spoken, clear) ==
    [kind |-> "voice", from |-> a, words |-> words, spoken |-> spoken, clear |-> clear]

MCMessages ==
    { Says("submit", atHome), Types(atHome, c1),
      Voice(inGroup, { "approve" }, {}, TRUE),
      Voice(atHome, { "reject", "risky" }, { c1 }, TRUE) }

MCSymmetry == Permutations(MCOrders)
=============================================================================
