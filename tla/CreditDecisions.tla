---- MODULE CreditDecisions ----
(* One credit decision: the evaluator of the credit-rule service walks the rules
   of the applicable master (credit-rule-evaluator.service.ts) and, where it
   ends in a manual review, a reviewer recommends and another one decides
   (credit-manual-review.service.ts; the case is opened by the trigger of
   migration 052).  Amounts are whole; a source's answer and whether it meets
   the rule's condition are free. *)
EXTENDS Integers, Sequences

CONSTANTS CreditPolicy,    \* masters with their rules: [base, minimum, maximum, auto, otherwise, rules]
          CreditRequest,   \* [requested, exposure, reserved, simulation]
          SourceValue,     \* numbers a source may answer; NotANumber is the other answer
          CreditOfficer    \* people who review cases

\* What the tables' checks and the request's validation let through
\* (CK_CREDIT_MASTER_LIMITS, CK_CREDIT_EXECUTION_AMOUNTS).
CreditAction == [type : STRING, value : Int]
CreditRule == [group : STRING, onMatch : CreditAction, onNoMatch : CreditAction, onFailure : CreditAction,
               stopOnMatch : BOOLEAN, stopOnNoMatch : BOOLEAN]

ASSUME CreditAssumption ==
  /\ \A p \in CreditPolicy :
       /\ {p.base, p.minimum} \subseteq Nat /\ p.maximum \in Nat \ {0} /\ p.rules \in Seq(CreditRule)
       /\ p.auto \in BOOLEAN /\ p.otherwise \in {"REJECTED", "MANUAL_REVIEW"}
  /\ CreditRequest \subseteq [requested : Nat, exposure : Nat, reserved : Nat, simulation : BOOLEAN]
  /\ SourceValue \subseteq Int /\ "no officer" \notin CreditOfficer

VARIABLES execution,       \* the credit_rule_executions row with the evaluator's context
          reviewCase,      \* the credit_manual_review_cases row
          bindingLive      \* is there an active lender and commercial binding

creditVars == <<execution, reviewCase, bindingLive>>

NotANumber == -1
NoOfficer == "no officer"
NoReviewCase == [status |-> "none", advice |-> 0, adviser |-> NoOfficer, decider |-> NoOfficer]
Granted == {"AUTO_APPROVED", "COUNTER_OFFER"}
Outcome == Granted \union {"PROCESSING", "MANUAL_REVIEW", "REJECTED", "RESCORE_REQUIRED", "NO_MASTER_RULE"}

Least(a, b) == IF a < b THEN a ELSE b
Greatest(a, b) == IF a < b THEN b ELSE a
NotNegative(x) == Greatest(0, x)

\* ---- applyAction
UsesValue == {"SET_LIMIT_FROM_VALUE_MULTIPLIER", "CAP_LIMIT_FROM_VALUE_MULTIPLIER"}
Throws(action, value) == action.type \in UsesValue /\ value = NotANumber
LimitAfter(action, value, limit) ==
  CASE action.type \in {"SET_LIMIT_FIXED", "SET_CREDIT_OFFER"} -> action.value
    [] action.type = "ADD_LIMIT_FIXED" -> limit + action.value
    [] action.type = "SUBTRACT_LIMIT_FIXED" -> Greatest(0, limit - action.value)
    [] action.type = "CAP_LIMIT_FIXED" -> Least(limit, action.value)
    [] action.type = "SET_LIMIT_FROM_VALUE_MULTIPLIER" -> value * action.value
    [] action.type = "CAP_LIMIT_FROM_VALUE_MULTIPLIER" -> Least(limit, value * action.value)
    [] OTHER -> limit
OutcomeAfter(action, outcome) ==
  CASE action.type = "REJECT" -> "REJECTED" [] action.type = "MANUAL_REVIEW" -> "MANUAL_REVIEW" [] OTHER -> outcome

\* ---- the totals of a finished walk
FaultyAllocated(e) == NotNegative(e.limit)        \* the policy's maximum forgotten
Allocated(e) == Least(e.policy.maximum, NotNegative(e.limit))
Available(e) == NotNegative(Allocated(e) - e.request.exposure - e.request.reserved)

Automatic(e) ==
  IF e.outcome # "PROCESSING" THEN e.outcome
  ELSE IF ~e.policy.auto THEN "MANUAL_REVIEW"
  ELSE IF Allocated(e) < e.policy.minimum \/ Available(e) <= 0 THEN e.policy.otherwise
  ELSE IF Available(e) >= e.request.requested THEN "AUTO_APPROVED" ELSE "COUNTER_OFFER"
FinalOutcome(e) ==
  IF Automatic(e) \in Granted /\ ~e.request.simulation /\ ~bindingLive THEN "MANUAL_REVIEW" ELSE Automatic(e)

\* The trigger on the outcome column opens the case in the same statement, or
\* none when no active queue takes the country and the product.
Finish(e) ==
  /\ execution' = [e EXCEPT !.phase = "done"]
  /\ \/ /\ e.outcome = "MANUAL_REVIEW" /\ ~e.request.simulation
        /\ reviewCase' = [NoReviewCase EXCEPT !.status = "PENDING"]
     \/ UNCHANGED reviewCase
  /\ UNCHANGED bindingLive

FirstExecution ==
  {[policy |-> policy, request |-> request, phase |-> "scoring", outcome |-> "PROCESSING",
    next |-> 1, limit |-> policy.base, groups |-> {}, refused |-> FALSE,
    allocated |-> 0, available |-> 0, policyLimit |-> 0] :
      policy \in CreditPolicy, request \in CreditRequest}

CreditDecisionInit ==
  /\ execution \in FirstExecution
  /\ reviewCase = NoReviewCase
  /\ bindingLive \in BOOLEAN

\* resolveScore and findMaster: the score may be missing, no master may cover
\* it, and the submitted grade may differ from the scored one.
scored ==
  /\ execution.phase = "scoring"
  /\ \/ Finish([execution EXCEPT !.outcome = "RESCORE_REQUIRED"])
     \/ Finish([execution EXCEPT !.outcome = "NO_MASTER_RULE"])
     \/ Finish([execution EXCEPT !.outcome = "MANUAL_REVIEW"])
     \/ execution' = [execution EXCEPT !.phase = "walking"] /\ UNCHANGED <<reviewCase, bindingLive>>

More == execution.next <= Len(execution.policy.rules)
Rule == execution.policy.rules[execution.next]
Taken(rule) == rule.group # "" /\ rule.group \in execution.groups

skipRule ==
  /\ execution.phase = "walking" /\ More /\ Taken(Rule)
  /\ execution' = [execution EXCEPT !.next = @ + 1]
  /\ UNCHANGED <<reviewCase, bindingLive>>

\* One turn of the loop: read the source, judge it, apply the action it selects.
\* An action on an answer that is no number throws out of evaluate, after which
\* nothing touches the execution again.
applyRule(answer, value) ==
  /\ execution.phase = "walking" /\ More /\ ~Taken(Rule)
  /\ LET rule == Rule
         action == CASE answer = "error" -> rule.onFailure
                     [] answer = "match" -> rule.onMatch [] answer = "no match" -> rule.onNoMatch
         outcome == OutcomeAfter(action, execution.outcome)
         stop == \/ outcome \in {"REJECTED", "MANUAL_REVIEW"}
                 \/ answer = "match" /\ rule.stopOnMatch
                 \/ answer = "no match" /\ rule.stopOnNoMatch
     IN execution' = IF Throws(action, value) THEN [execution EXCEPT !.phase = "lost"]
          ELSE [execution EXCEPT
                  !.limit = LimitAfter(action, value, @), !.outcome = outcome,
                  !.refused = @ \/ action.type = "REJECT",
                  !.groups = IF answer = "match" /\ rule.group # "" THEN @ \union {rule.group} ELSE @,
                  !.next = IF stop THEN Len(execution.policy.rules) + 1 ELSE @ + 1]
  /\ UNCHANGED <<reviewCase, bindingLive>>

decideExecution ==
  /\ execution.phase = "walking" /\ ~More
  /\ Finish([execution EXCEPT !.outcome = FinalOutcome(execution), !.allocated = Allocated(execution),
                              !.available = Available(execution), !.policyLimit = Allocated(execution)])

\* The service stops in the middle of an evaluation: nobody resumes it.
loseEvaluation ==
  /\ execution.phase \in {"scoring", "walking"}
  /\ execution' = [execution EXCEPT !.phase = "lost"]
  /\ UNCHANGED <<reviewCase, bindingLive>>

recommend(by, limit) ==
  /\ reviewCase.status = "PENDING"
  /\ reviewCase' = [reviewCase EXCEPT !.status = "RECOMMENDED", !.adviser = by, !.advice = limit]
  /\ UNCHANGED <<execution, bindingLive>>

MayDecideCase(by) == reviewCase.status = "RECOMMENDED" /\ reviewCase.adviser # by

\* decide: zero stands for a limit left out, when the recommended or the
\* calculated one is taken.
approveCredit(by, asked) ==
  LET limit == IF asked # 0 THEN asked ELSE IF reviewCase.advice # 0 THEN reviewCase.advice ELSE execution.allocated
  IN /\ MayDecideCase(by) /\ bindingLive
     /\ limit > 0 /\ limit <= execution.allocated
     /\ reviewCase' = [reviewCase EXCEPT !.status = "APPROVED", !.decider = by]
     /\ execution' = [execution EXCEPT !.outcome = "AUTO_APPROVED", !.allocated = limit,
          !.available = Greatest(0, limit - execution.request.exposure - execution.request.reserved)]
     /\ UNCHANGED bindingLive

rejectCredit(by) ==
  /\ MayDecideCase(by)
  /\ reviewCase' = [reviewCase EXCEPT !.status = "REJECTED", !.decider = by]
  /\ execution' = [execution EXCEPT !.outcome = "REJECTED", !.allocated = 0, !.available = 0]
  /\ UNCHANGED bindingLive

bindingChanges == bindingLive' = ~bindingLive /\ UNCHANGED <<execution, reviewCase>>

\* Bound: limits up to just above the highest maximum.
Asked == UNION {0..p.maximum + 1 : p \in CreditPolicy}
CreditDecisionNext ==
  \/ scored \/ skipRule \/ decideExecution \/ loseEvaluation \/ bindingChanges
  \/ applyRule("error", NotANumber)
  \/ \E value \in SourceValue \union {NotANumber} : applyRule("match", value) \/ applyRule("no match", value)
  \/ \E by \in CreditOfficer : rejectCredit(by) \/ \E limit \in Asked : recommend(by, limit) \/ approveCredit(by, limit)

CreditDecisionTypeOK ==
  /\ execution.policy \in CreditPolicy /\ execution.request \in CreditRequest
  /\ execution.phase \in {"scoring", "walking", "done", "lost"} /\ execution.outcome \in Outcome
  /\ execution.next \in 1..Len(execution.policy.rules) + 1
  /\ {execution.allocated, execution.available, execution.policyLimit} \subseteq Nat
  /\ reviewCase.status \in {"none", "PENDING", "RECOMMENDED", "APPROVED", "REJECTED"}
  /\ {reviewCase.adviser, reviewCase.decider} \subseteq CreditOfficer \union {NoOfficer}
  /\ bindingLive \in BOOLEAN

(* Credit is granted within the policy, whatever the rules did to the limit on
   the way: never by an execution a rule refused, never above the policy's
   maximum, automatically only at or above its minimum and for what exposure
   and reservations leave, and by hand only for an amount the policy calculated
   and with a second officer.  A granted outcome is always a finished one. *)
CreditWithinPolicy ==
  execution.outcome \in Granted =>
    LET e == execution
        left == e.allocated - e.request.exposure - e.request.reserved
    IN /\ e.phase = "done" /\ ~e.refused
       /\ e.allocated \in 1..e.policy.maximum /\ e.available = NotNegative(left)
       /\ IF reviewCase.status = "APPROVED"
          THEN /\ e.allocated <= e.policyLimit
               /\ reviewCase.adviser # reviewCase.decider /\ reviewCase.adviser # NoOfficer
          ELSE /\ e.policy.auto /\ e.allocated >= e.policy.minimum /\ left > 0
               /\ e.outcome = "AUTO_APPROVED" <=> left >= e.request.requested
====
