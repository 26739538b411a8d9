------------------------------ MODULE WorkOrders ------------------------------
(***************************************************************************)
(* The vocabulary of crates/jmcp-domain: the states of a work order, the   *)
(* states the methods of WorkOrder accept, and the check an approval       *)
(* challenge makes before it is used.                                      *)
(*                                                                         *)
(* Work orders are their status; a row that does not exist yet is "Absent" *)
(* so that every table is a total function over its keys.                  *)
(***************************************************************************)
EXTENDS Integers

Status == { "Submitted", "Leased", "AwaitingApproval", "Approved",
            "Completed", "Failed", "Cancelled" }

Terminal == { "Completed", "Failed", "Cancelled" }

Decisions == { "Approved", "Rejected" }

ChallengeStates == { "Pending", "Expired" } \cup Decisions

-----------------------------------------------------------------------------
(* The `allowed` statuses each method passes to WorkOrder::transition.     *)
(* WorkOrder::fail passes none: it writes Failed over any status.          *)
(* DecideTwiceFrom is a slip: apply_approval as if it accepted an order    *)
(* that has been approved already.                                         *)

LeaseFrom           == { "Submitted" }
RequireApprovalFrom == { "Submitted", "Leased" }
DecideTwiceFrom     == { "AwaitingApproval", "Approved" }
ApplyApprovalFrom   == { "AwaitingApproval" }

(* A slip: the decision taken for the status it leads to.                  *)
DecisionAsStatus(decision) == decision

(* Where WorkOrder::apply_approval sends the order. *)
DecidedStatus(decision) == IF decision = "Approved" THEN "Approved" ELSE "Failed"

(* Every deadline of the domain is still good at the instant it names:     *)
(* `expires_at < now` for leases and approvals, `now > expires_at` for     *)
(* challenges.                                                             *)
Lapsed(expires, now) == expires < now

(* A slip of the next definition: the deadline is looked at first.         *)
ChallengeAnswerClockFirst(challenge, actor, now) ==
    CASE Lapsed(challenge.expires, now)    -> "Expired"
      [] ~ Lapsed(challenge.expires, now) /\ challenge.state # "Pending" -> "AlreadyUsed"
      [] ~ Lapsed(challenge.expires, now) /\ challenge.state = "Pending"
           /\ challenge.actor # actor     -> "WrongApprover"
      [] OTHER                            -> "Accepted"

(* ApprovalChallenge::decide: what it answers to `actor`, in the order in  *)
(* which it looks.  An actor is an approver name together with the         *)
(* Telegram user and chat it speaks from.                                  *)
ChallengeAnswer(challenge, actor, now) ==
    CASE challenge.state # "Pending"    -> "AlreadyUsed"
      [] challenge.state = "Pending" /\ Lapsed(challenge.expires, now) -> "Expired"
      [] challenge.state = "Pending" /\ ~ Lapsed(challenge.expires, now)
           /\ challenge.actor # actor   -> "WrongApprover"
      [] OTHER                          -> "Accepted"

=============================================================================
