--------------------------- MODULE DeliveryBudget ---------------------------
(***************************************************************************)
(* What the stage queue promises its callers, with no rows, leases or      *)
(* workers in it.  Every message owns MaxAttempts tokens, numbered from 1. *)
(* A delivery consumes a token above every token the message has used, so  *)
(* a message is delivered at most MaxAttempts times and no two deliveries  *)
(* of it can be mistaken for one another.  A message that nobody is        *)
(* delivering any more is settled, and only a delivery or a new settlement *)
(* follows.                                                                *)
(***************************************************************************)
EXTENDS Naturals

CONSTANTS Message,      \* the dispatch decisions (one dispatch_id each)
          MaxAttempts   \* QUEUE_MAX_ATTEMPTS

VARIABLES sent,   \* the messages that were enqueued
          used    \* used[m]: the attempt numbers m was delivered under

budgetVars == <<sent, used>>

Token == 1..MaxAttempts

BudgetInit ==
    /\ sent = {}
    /\ used = [m \in Message |-> {}]

Send(m) ==
    /\ m \notin sent
    /\ sent' = sent \cup {m}
    /\ UNCHANGED used

Deliver(m) ==
    /\ m \in sent
    /\ \E t \in Token :
          /\ \A u \in used[m] : u < t
          /\ used' = [used EXCEPT ![m] = @ \cup {t}]
    /\ UNCHANGED sent

BudgetNext == \E m \in Message : Send(m) \/ Deliver(m)

BudgetSpec == BudgetInit /\ [][BudgetNext]_budgetVars

=============================================================================
