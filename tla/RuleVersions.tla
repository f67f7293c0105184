----------------------------- MODULE RuleVersions -----------------------------
(***************************************************************************)
(* The parsing rules of a company (app/services/rules.py,                  *)
(* app/routers/rules.py): a save only inserts, its created_at is the start *)
(* of its transaction, its version the minute in which the row was made,   *)
(* and it is seen from its commit on.                                      *)
(***************************************************************************)
EXTENDS Naturals

CONSTANTS
    Saves,          \* POST requests; the one that made a row is its rule_id
    Generic,        \* the prompt of a company without rules
    Minute

VARIABLES
    now,            \* the clock (the composing module's)
    rules,          \* the committed rows
    save            \* where each request is

RulesInit ==
    /\ rules = {}
    /\ save = [s \in Saves |-> [at |-> "none", created |-> 0, version |-> 0]]

\* strftime("v1-%y%m%d-%H%M")
generate_rule_version == now \div Minute

\* get_current_user's query starts the transaction that now() speaks of.
BeginSave(s) ==
    /\ save[s].at = "none"
    /\ save' = [save EXCEPT ![s].at = "begun", ![s].created = now]
    /\ UNCHANGED rules

MakeRule(s) ==
    /\ save[s].at = "begun"
    /\ save' = [save EXCEPT ![s].at = "made", ![s].version = generate_rule_version]
    /\ UNCHANGED rules

CommitRule(s) ==
    /\ save[s].at = "made"
    /\ save' = [save EXCEPT ![s].at = "over"]
    /\ rules' = rules \cup
            {[rule |-> s, created |-> save[s].created, version |-> save[s].version]}

SaveStep(s) == BeginSave(s) \/ MakeRule(s) \/ CommitRule(s)

\* ORDER BY created_at DESC LIMIT 1; rows of one instant are in any order.
Latest == {r \in rules : \A other \in rules : other.created <= r.created}

\* _build_company_context: the latest rules, or none and a version of its own.
Contexts ==
    IF rules = {} THEN {[rule |-> Generic, version |-> generate_rule_version]}
    ELSE {[rule |-> r.rule, version |-> r.version] : r \in Latest}

RulesTypeOK ==
    /\ rules \subseteq [rule : Saves, created : Nat, version : Nat]
    /\ save \in [Saves -> [at : {"none", "begun", "made", "over"},
                           created : Nat, version : Nat]]
=============================================================================
