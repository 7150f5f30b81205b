---------------------------- MODULE Predicates ----------------------------
(***************************************************************************)
(* The "when" and "skip_if" conditions of the delivery graph, as the       *)
(* runner evaluates them.  A condition is a set of clauses, a clause a set *)
(* of literals: some clause must hold with all its literals.  Every        *)
(* condition of delivery.yaml has this form once a negation is moved to    *)
(* the atoms, which changes none of the verdicts, because a judgment or an *)
(* unknown anywhere decides the whole condition.                           *)
(***************************************************************************)
EXTENDS Naturals, FiniteSets

Verdicts == {"TRUE", "FALSE", "UNKNOWN", "JUDGMENT"}

Literal(kind, name, value) ==
  [kind |-> kind, name |-> name, value |-> value, negated |-> FALSE]

Outcome(value) == Literal("outcome", "outcome", value)
Flag(name) == Literal("flag", name, "true")
Equals(name, value) == Literal("comparison", name, value)
Class(value) == Literal("class", "class", value)
Signature == Literal("signature", "has_signature", "true")
FreeText == Literal("text", "text", "")
Not(literal) == [literal EXCEPT !.negated = ~ @]

Always == {{}}
All(literals) == {literals}

(* Ctx.flag: a touches_ flag nobody declared is its capability, and the    *)
(* mockup's author is the design role unless the project says otherwise.   *)
Capability ==
  [touches_db |-> "has_db", touches_server |-> "has_server",
   touches_shared_ui |-> "has_ui"]

FlagValue(flags, name) ==
  IF flags[name] # "unset" THEN flags[name]
  ELSE IF name \in DOMAIN Capability THEN flags[Capability[name]]
  ELSE IF name = "design_source" THEN "author"
  ELSE "unset"

BoolVerdict(holds) == IF holds THEN "TRUE" ELSE "FALSE"

FlagVerdict(literal, value) ==
  IF value = "unset" THEN "UNKNOWN"
  ELSE IF literal.kind = "flag" /\ value \notin {"true", "false"} THEN "JUDGMENT"
  ELSE BoolVerdict(value = literal.value)

AtomVerdict(literal, flags, outcome) ==
  IF literal.kind = "outcome"
    THEN IF outcome = "none" THEN "UNKNOWN" ELSE BoolVerdict(outcome = literal.value)
  ELSE IF literal.kind = "signature"
    THEN BoolVerdict(flags[literal.name] = "true")
  ELSE IF literal.kind = "text" THEN "JUDGMENT"
  ELSE FlagVerdict(literal, FlagValue(flags, literal.name))

Holds(literal, flags, outcome) ==
  AtomVerdict(literal, flags, outcome) = BoolVerdict(~ literal.negated)

Evaluate(condition, flags, outcome) ==
  LET seen == {AtomVerdict(literal, flags, outcome) :
                 literal \in UNION condition}
  IN  IF "JUDGMENT" \in seen THEN "JUDGMENT"
      ELSE IF "UNKNOWN" \in seen THEN "UNKNOWN"
      ELSE BoolVerdict(\E clause \in condition :
                         \A literal \in clause : Holds(literal, flags, outcome))

Classification ==
  [TRUE |-> "eligible", FALSE |-> "skip", UNKNOWN |-> "judgment",
   JUDGMENT |-> "judgment"]

Classify(condition, flags, outcome) ==
  Classification[Evaluate(condition, flags, outcome)]

(* What the flags alone say: an unset flag, and an atom that is no flag,   *)
(* counts as true before its negation.                                     *)
StructuralHolds(literal, flags) ==
  LET value == FlagValue(flags, literal.name)
      holds == /\ literal.kind = "flag" => value # "false"
               /\ literal.kind = "comparison" => value \in {"unset", literal.value}
  IN  holds # literal.negated

StructuralLive(condition, flags) ==
  \E clause \in condition :
    \A literal \in clause : StructuralHolds(literal, flags)
============================================================================
