------------------------------- MODULE Policy -------------------------------
(* The Tier 1 routing rules (policy/engine.py): which provider a request is  *)
(* sent to, in which order the others follow, and where a provider's error   *)
(* sends it.  A request's query or URL is the set of marks that the rules'   *)
(* patterns find in it; a criterion of a rule is a set of marks, and is met  *)
(* by a text that has one of them.  A rule's errors are {} if it names no    *)
(* classes; a list without any is one of a class that no error has.          *)
EXTENDS Naturals, Sequences, SequencesExt

None == "none"                 \* an optional field that is not set
Nobody == "nobody"             \* api_key_id=None
NoRule == [name |-> None]      \* no inline rule

\* The decision that leaves everything to the defaults.
DefaultDecision(config, content) ==
    [policy |-> None, provider |-> config.provider[content], chain |-> config.chain]

\* The decision of a rule: what the rule leaves unset comes from the defaults.
DecisionFromRule(config, rule, content) ==
    [policy   |-> rule.name,
     provider |-> IF rule.provider[content] # None THEN rule.provider[content]
                                                   ELSE config.provider[content],
     chain    |-> IF rule.chain # <<None>> THEN rule.chain ELSE config.chain]

\* All criteria of a rule that are set must be met; the error classes are not among them.
RuleMatches(rule, ask) ==
    /\ ask.content \in rule.content
    /\ ask.key \in rule.keys
    /\ \A criterion \in rule.wants : criterion \cap ask.text # {}

\* The decision for a new request: its inline rule alone, else the provider it asks for,
\* else the first rule that matches, else the defaults.
Evaluate(config, ask) ==
    LET default == DefaultDecision(config, ask.content)
        i == SelectInSeq(config.rules,
                         LAMBDA rule : rule.errors = {} /\ RuleMatches(rule, ask))
    IN  CASE ask.inline # NoRule ->
               IF RuleMatches(ask.inline, ask)
               THEN DecisionFromRule(config, ask.inline, ask.content) ELSE default
          [] ask.inline = NoRule /\ ask.provider # None ->
               [default EXCEPT !.provider = ask.provider]
          [] ask.inline = NoRule /\ ask.provider = None ->
               IF i = 0 THEN default
               ELSE DecisionFromRule(config, config.rules[i], ask.content)

\* Where the first rule for this class of errors sends the request, None without one.
EvaluateForError(config, class, ask) ==
    LET i == SelectInSeq(config.rules,
                         LAMBDA rule : class \in rule.errors /\ RuleMatches(rule, ask))
    IN  IF i = 0 THEN None
        ELSE DecisionFromRule(config, config.rules[i], ask.content).provider
=============================================================================
