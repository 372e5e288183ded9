---- MODULE CreditRules ----
(* The governed credit policies of the credit-rule service
   (credit-rule-management.service.ts, tables of migration 014).

   A master rule is versioned; its child rules and its own fields are edited
   while it is a draft, submitted, decided by a second person and activated.
   Every handler first reads the master's status WITHOUT a lock and writes
   later, unconditionally: a call is therefore two steps here, the checks and
   the commit, and two calls on one master may overlap. *)
EXTENDS Integers, FiniteSets

CONSTANTS RuleCode,        \* rule_code values
          RuleAdmin,       \* administrators who make and check
          PolicyScope,     \* what a master may cover: product, category ("ANY" for all),
                           \* currency ("none" for all) and band of scores (low, high, all)
          CreditBudget     \* bounds, one record per instance: how many masters are
                           \* ever created and of which scopes, how many management
                           \* calls are under way at once and how many are begun in all

\* Codes, administrators and bounds; scopes are whatever is given.
ASSUME CreditRuleAssumption ==
  /\ RuleAdmin # {} /\ "nobody" \notin RuleAdmin
  /\ CreditBudget \subseteq [masters : Nat, scopes : SUBSET PolicyScope, inTurn : BOOLEAN, atOnce : Nat, calls : Nat]

VARIABLES masters,         \* the credit_master_rules rows with their rules
          ruleCalls,       \* calls that passed their checks and have not committed
          httpActive,      \* the one HTTP integration: [by, active]
          entangled,       \* history: masters touched by two overlapping calls
          budget           \* what the bounds leave: [masters, scopes, atOnce, calls]

creditRuleVars == <<masters, ruleCalls, httpActive, entangled, budget>>

Nobody == "nobody"
MasterId == Nat \ {0}
MasterStatus == {"DRAFT", "PENDING_APPROVAL", "APPROVED", "ACTIVE",
                 "REJECTED", "SUPERSEDED", "RETIRED"}
\* A master covers the scores below a cut, those above it, or all of them.
Meet(a, b) == a = "all" \/ b = "all" \/ a = b

\* One scope for an activation: product, category and currency are compared as
\* they are stored, where the evaluator's lookup also takes a policy for any
\* category or any currency. A customer may thus come under several live
\* policies; the lookup then takes the one with the highest version.
SameScope(a, b) ==
  a.product = b.product /\ a.category = b.category /\ a.currency = b.currency /\ Meet(a.band, b.band)

\* The child rules: none, or some that read an HTTP source (the ones that
\* need nothing are never refused and add no case).
RuleContent == {"none", "http"}

\* author: created_by, whoever edited the version later; maker: who submitted its
\* last request, pending: the request is not decided; reviewer (history): who
\* approved the version having read the content it has now.
MasterRow == [code : RuleCode, status : MasterStatus, author : RuleAdmin, scope : PolicyScope,
              rules : RuleContent, maker : RuleAdmin \union {Nobody}, pending : BOOLEAN,
              reviewer : RuleAdmin \union {Nobody}]

Masters == DOMAIN masters
NextMaster == Cardinality(Masters) + 1
\* Bounds, not guards of the code.
MayAddMaster ==
  /\ NextMaster <= budget.masters
  /\ budget.inTurn => \A m \in Masters : masters[m].status \in {"APPROVED", "ACTIVE", "SUPERSEDED", "RETIRED"}
InStatus(m, statuses) == m \in Masters /\ masters[m].status \in statuses
\* The slip of editableMaster that lets an approved version be edited too.
FaultyEditableMaster(m) == InStatus(m, {"DRAFT", "REJECTED", "APPROVED"})
EditableMaster(m) == InStatus(m, {"DRAFT", "REJECTED"})

\* validateForPublication: a rule read over HTTP needs its integration active.
Publishable(m) == masters[m].rules = "http" => httpActive.active

\* The live masters an activation of m puts out of service.
Rivals(m) == {o \in Masters \ {m} : masters[o].status = "ACTIVE" /\ SameScope(masters[o].scope, masters[m].scope)}

\* ---- what each call checks before it writes
Permitted(op, m, by) ==
  CASE op \in {"updateMaster", "changeRule"} -> EditableMaster(m)
    [] op = "submit"   -> EditableMaster(m) /\ masters[m].rules # "none" /\ Publishable(m)
    [] op = "approve"  -> InStatus(m, {"PENDING_APPROVAL"}) /\ masters[m].author # by /\ Publishable(m)
    [] op = "reject"   -> InStatus(m, {"PENDING_APPROVAL"}) /\ masters[m].author # by
    [] op = "activate" -> InStatus(m, {"APPROVED"}) /\ Publishable(m)
    [] op = "retire"   -> InStatus(m, {"ACTIVE"})

RuleOp == {"updateMaster", "changeRule", "submit", "approve", "reject", "activate", "retire"}
\* stale: the content changed since the call read it; rivals: the live masters
\* an activation supersedes.
RuleCall == [op : RuleOp, master : MasterId, by : RuleAdmin, stale : BOOLEAN,
             rivals : SUBSET MasterId]

\* Two calls disturb each other when they are on one master or both activate.
Disturbs(c, op, m) == c.master = m \/ (c.op = "activate" /\ op = "activate")

\* Whoever created the integration, and (bounds, as codes and administrators
\* are interchangeable) the code of the first master, whose author he is too.
Author == CHOOSE by \in RuleAdmin : TRUE
FirstCode == CHOOSE code \in RuleCode : TRUE

CreditRuleInit ==
  /\ masters = << >>
  /\ ruleCalls = {}
  /\ httpActive = [by |-> Author, active |-> FALSE]
  /\ entangled = {}
  /\ budget \in CreditBudget

createMaster(code, by, scope) ==
  /\ MayAddMaster
  /\ Masters = {} => code = FirstCode /\ by = Author
  /\ masters' = [m \in Masters \union {NextMaster} |-> IF m = NextMaster
        THEN [code |-> code, status |-> "DRAFT", author |-> by, scope |-> scope, rules |-> "none",
              maker |-> Nobody, pending |-> FALSE, reviewer |-> Nobody]
        ELSE masters[m]]
  /\ UNCHANGED <<ruleCalls, httpActive, entangled, budget>>

cloneMaster(source, by) ==
  /\ source \in Masters /\ MayAddMaster
  /\ masters' = [m \in Masters \union {NextMaster} |-> IF m = NextMaster
        THEN [masters[source] EXCEPT !.status = "DRAFT", !.author = by, !.maker = Nobody,
                                     !.pending = FALSE, !.reviewer = Nobody]
        ELSE masters[m]]
  /\ UNCHANGED <<ruleCalls, httpActive, entangled, budget>>

\* The unlocked reads and checks of a handler; an activation also takes here
\* the set of live masters its first statement supersedes.
beginRuleCall(op, m, by) ==
  /\ Cardinality(ruleCalls) < budget.atOnce /\ budget.calls > 0
  /\ m \notin entangled     \* bound: what follows an overlap says nothing new
  /\ Permitted(op, m, by)
  /\ LET others == {c \in ruleCalls : Disturbs(c, op, m)}
     IN entangled' = IF others = {} THEN entangled
                     ELSE entangled \union {m} \union {c.master : c \in others}
  /\ ruleCalls' = ruleCalls \union
       {[op |-> op, master |-> m, by |-> by, stale |-> FALSE,
         rivals |-> IF op = "activate" THEN Rivals(m) ELSE {}]}
  /\ budget' = [budget EXCEPT !.calls = @ - 1]
  /\ UNCHANGED <<masters, httpActive>>

\* ---- the writes of a call, none of which looks at the status again
Write(c) ==
  LET m == c.master
      old == masters[m]
      Store(row) == masters' = [masters EXCEPT ![m] = row]
  IN \/ /\ c.op = "updateMaster"
        /\ \E scope \in budget.scopes : Store([old EXCEPT !.status = "DRAFT", !.scope = scope, !.reviewer = Nobody])
     \/ /\ c.op = "changeRule"
        /\ \E rules \in RuleContent : Store([old EXCEPT !.rules = rules, !.reviewer = Nobody])
     \/ /\ c.op = "submit"      \* UQ_CREDIT_CHANGE_PENDING
        /\ ~old.pending
        /\ Store([old EXCEPT !.status = "PENDING_APPROVAL", !.maker = c.by, !.pending = TRUE])
     \/ /\ c.op = "approve"     \* CK_CREDIT_CHANGE_DIFFERENT_CHECKER
        /\ old.pending => old.maker # c.by
        /\ Store([old EXCEPT !.status = "APPROVED", !.pending = FALSE,
                             !.reviewer = IF c.stale THEN Nobody ELSE c.by])
     \/ /\ c.op = "reject"
        /\ old.pending => old.maker # c.by
        /\ Store([old EXCEPT !.status = "REJECTED", !.pending = FALSE])
     \/ c.op = "retire" /\ Store([old EXCEPT !.status = "RETIRED"])
     \/ /\ c.op = "activate"    \* UQ_CREDIT_MASTER_ACTIVE_VERSION
        /\ \A o \in Masters \ ({m} \union c.rivals) :
             ~(masters[o].status = "ACTIVE" /\ masters[o].code = old.code)
        /\ masters' = [o \in Masters |->
             IF o = m THEN [old EXCEPT !.status = "ACTIVE"]
             ELSE IF o \in c.rivals /\ masters[o].status = "ACTIVE"
             THEN [masters[o] EXCEPT !.status = "SUPERSEDED"] ELSE masters[o]]

\* The calls still under way after c, those that read what c has changed marked.
StillOpen(c) ==
  {[d EXCEPT !.stale = d.stale \/ (d.master = c.master /\ c.op \in {"updateMaster", "changeRule"})]
     : d \in ruleCalls \ {c}}

commitRuleCall(c) == Write(c) /\ ruleCalls' = StillOpen(c) /\ UNCHANGED <<httpActive, entangled, budget>>

\* A constraint refused the write: nothing is stored.
abandonRuleCall(c) == ~ ENABLED Write(c) /\ ruleCalls' = ruleCalls \ {c} /\ UNCHANGED <<masters, httpActive, entangled, budget>>

\* Editing an integration takes it out of service until somebody other than
\* its creator approves it, whatever masters are live on it.
updateIntegration == httpActive' = [httpActive EXCEPT !.active = FALSE] /\ UNCHANGED <<masters, ruleCalls, entangled, budget>>
approveIntegration(by) ==
  /\ httpActive.by # by
  /\ httpActive' = [httpActive EXCEPT !.active = TRUE]
  /\ UNCHANGED <<masters, ruleCalls, entangled, budget>>

CreditRuleNext ==
  \/ \E code \in RuleCode, by \in RuleAdmin, scope \in budget.scopes : createMaster(code, by, scope)
  \/ \E m \in Masters, by \in RuleAdmin : cloneMaster(m, by)
  \/ \E op \in RuleOp, m \in Masters, by \in RuleAdmin : beginRuleCall(op, m, by)
  \/ \E c \in ruleCalls : commitRuleCall(c) \/ abandonRuleCall(c)
  \/ updateIntegration
  \/ \E by \in RuleAdmin : approveIntegration(by)

CreditRuleTypeOK ==
  /\ Masters \subseteq MasterId /\ \A m \in Masters : masters[m] \in MasterRow
  /\ ruleCalls \subseteq RuleCall
  /\ httpActive \in [by : RuleAdmin, active : BOOLEAN]
  /\ entangled \subseteq MasterId /\ budget.calls >= 0

(* A policy that decides credit was read, in exactly the form it decides with,
   by somebody who neither created the version nor submitted it, and no two live
   policies have one scope: editing and publishing exclude each other through the
   status alone, so both hold unless two management calls overlapped. One rule
   code has one live version even then. Whoever last edited the version may be
   the one who approves it, when another created and another submitted it. *)
PolicyReviewed ==
  /\ \A m \in Masters \ entangled : masters[m].status \in {"APPROVED", "ACTIVE", "SUPERSEDED", "RETIRED"} =>
        masters[m].reviewer \notin {Nobody, masters[m].author, masters[m].maker}
  /\ \A m, o \in Masters : m # o /\ masters[m].status = "ACTIVE" /\ masters[o].status = "ACTIVE" =>
        /\ masters[m].code # masters[o].code
        /\ SameScope(masters[m].scope, masters[o].scope) => {m, o} \subseteq entangled
====
