----------------------------- MODULE RulesEngine -----------------------------
(***************************************************************************)
(* app/rules/engine.py: the deterministic discount policy.  A pure module: *)
(* Decide is run once per inquiry (approval_service.run_rules), MayGrant   *)
(* again when a human decision comes back (apply_decision).                *)
(*                                                                         *)
(* Percentages are whole percents, money is in cents.  The extraction      *)
(* schema refuses quantities below 1, so 0 stands for a missing quantity.  *)
(***************************************************************************)
EXTENDS Integers

AUTO_APPROVE_MAX_PCT == 5
SALESPERSON_MAX_PCT  == 15
POLICY_MAX_PCT       == 40
MANAGER_REVIEW_TOTAL == 5000000
MAX_QUANTITY         == 10000

Outcomes == {"auto_approve", "salesperson_approval", "manager_approval",
             "human_review", "reject"}
Roles    == {"system", "salesperson", "manager"}

(* ROLE_FOR_OUTCOME, with run_rules' default: a rejection is filed under   *)
(* the manager.  A human_review has no role and creates no approval.       *)
RequiredRole(outcome) ==
    IF outcome = "auto_approve" THEN "system"
    ELSE IF outcome = "salesperson_approval" THEN "salesperson"
    ELSE "manager"

ROLE_MAX_PCT == [system      |-> AUTO_APPROVE_MAX_PCT,
                 salesperson |-> SALESPERSON_MAX_PCT,
                 manager     |-> POLICY_MAX_PCT]

OutcomeByDiscount_Exclusive(pct) ==
    IF pct < AUTO_APPROVE_MAX_PCT THEN "auto_approve"
    ELSE IF pct < SALESPERSON_MAX_PCT THEN "salesperson_approval"
    ELSE "manager_approval"

(* The discount alone, before the order-total escalation *)
OutcomeByDiscount(pct) ==
    IF pct <= AUTO_APPROVE_MAX_PCT THEN "auto_approve"
    ELSE IF pct <= SALESPERSON_MAX_PCT THEN "salesperson_approval"
    ELSE "manager_approval"

Decide_NoEscalation(productFound, quantity, pct, total) ==
    IF ~productFound \/ quantity = 0 \/ quantity > MAX_QUANTITY THEN "human_review"
    ELSE IF pct > POLICY_MAX_PCT THEN "reject"
    ELSE OutcomeByDiscount(pct)

(* decide(): the early returns in their order.  The escalation by total    *)
(* overrides whatever the discount alone asks for, so it is read first.    *)
Decide(productFound, quantity, pct, total) ==
    IF ~productFound \/ quantity = 0  THEN "human_review"
    ELSE IF quantity > MAX_QUANTITY   THEN "human_review"
    ELSE IF pct > POLICY_MAX_PCT      THEN "reject"
    ELSE IF total > MANAGER_REVIEW_TOTAL THEN "manager_approval"
    ELSE OutcomeByDiscount(pct)

MayGrant_Exclusive(role, pct) == pct < ROLE_MAX_PCT[role]

MayGrant(role, pct) == pct <= ROLE_MAX_PCT[role]
=============================================================================
