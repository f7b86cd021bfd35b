------------------------------ MODULE Verdict ------------------------------
(***************************************************************************)
(* What a declared status and an outcome make of a case, and the tally of  *)
(* many verdicts (fredshell-spec-runner, case.rs and verdict.rs).          *)
(***************************************************************************)
EXTENDS Integers, FiniteSets, Functions

CONSTANT Plans   \* the plans a case may be deferred to

NoPlan == "no plan"

ASSUME PlansAssumption == NoPlan \notin Plans

ASSUME PlansFinite == IsFiniteSet(Plans)

(* A status as it is written, with the plan that only deferred() has room   *)
(* for: deferred without one, and a typo, are not statuses.                 *)
StatusTexts ==
  {t \in [kind : {"pass", "fail", "wontfix", "deferred", "typo"}, plan : Plans \cup {NoPlan}] :
     t.kind # "deferred" => t.plan = NoPlan}

StatusParses(text) ==
  IF text.kind = "deferred" THEN text.plan # NoPlan ELSE text.kind # "typo"

Pass == [kind |-> "pass", plan |-> NoPlan]

Outcomes == {"match", "mismatch", "refused"}

VerdictKinds ==
  {"expected_pass", "regression", "expected_fail", "wontfix_honored",
   "deferred_honored", "reclassify"}

(* The verdict keeps the status it came from: the plan of deferred_honored, *)
(* the "from" of reclassify.                                                *)
Classify(status, outcome) ==
  [kind |->
     IF outcome = "match"
     THEN IF status.kind = "pass" THEN "expected_pass" ELSE "reclassify"
     ELSE CASE status.kind = "pass"     -> "regression"
            [] status.kind = "fail"     -> "expected_fail"
            [] status.kind = "wontfix"  -> "wontfix_honored"
            [] status.kind = "deferred" -> "deferred_honored",
   from |-> status]

IsCiFailure(verdict) == verdict.kind = "regression"

-----------------------------------------------------------------------------

NewTally ==
  [expected_pass |-> 0, regression |-> 0, expected_fail |-> 0,
   wontfix_honored |-> 0, deferred_honored |-> [p \in Plans |-> 0], reclassify |-> 0]

RecordVerdict(verdict, tally) ==
  IF verdict.kind = "deferred_honored"
  THEN [tally EXCEPT !.deferred_honored[verdict.from.plan] = @ + 1]
  ELSE [tally EXCEPT ![verdict.kind] = @ + 1]

(* The tally of verdicts[c] for c \in DOMAIN verdicts; the order of the     *)
(* cases does not matter to it.                                             *)
Tally(verdicts) == FoldFunction(RecordVerdict, NewTally, verdicts)

(* A mutant: the map of plans is forgotten.                                 *)
TotalWithoutDeferred(tally) ==
  tally.expected_pass + tally.regression + tally.expected_fail + tally.wontfix_honored
    + tally.reclassify

Total(tally) ==
  tally.expected_pass + tally.regression + tally.expected_fail + tally.wontfix_honored
    + FoldFunction(LAMBDA n, m : n + m, 0, tally.deferred_honored) + tally.reclassify

Numerator(tally) == tally.expected_pass

(* saturating_sub; a wontfix case that matches stays in the denominator.    *)
Denominator(tally) ==
  IF Total(tally) < tally.wontfix_honored THEN 0 ELSE Total(tally) - tally.wontfix_honored

HasCiFailures(tally) == tally.regression > 0
=============================================================================
