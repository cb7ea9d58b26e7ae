-------------------------------- MODULE Lab --------------------------------
(***************************************************************************)
(* The accuracy gate (lab/harness.py): each lab target has a manifest that   *)
(* lists the checks expected to fire on it, some with a least severity; the  *)
(* gate scores the drafts an adapter makes of the target against it.  Pure:  *)
(* drafts are those of module Adapters, a draft's matched_rule is its check. *)
(***************************************************************************)
EXTENDS Lists, SequencesExt

\* An expectation without min_severity.
NoFloor == -1

\* A manifest is [adapter, expect], expect a sequence of [id, min_severity].
expected_ids(manifest) == {item.id : item \in ToSet(manifest.expect)}

\* The floor of the first entry for the check that has one.
min_severity(manifest, check) ==
  LET expect == manifest.expect
      floors == Kept(expect, {n \in DOMAIN expect : /\ expect[n].id = check
                                                    /\ expect[n].min_severity # NoFloor})
  IN  IF floors = <<>> THEN NoFloor ELSE floors[1].min_severity

\* All drafts of one check.
group_by_rule(drafts, check) == {d \in ToSet(drafts) : d.rule.check = check}

meets_floor(instances, floor) == \E d \in instances : d.rule.severity >= floor

\* Variant: a check that fires below its floor is a true positive.
score_target_no_floor(manifest, drafts) ==
  LET found    == {d.rule.check : d \in ToSet(drafts)}
      expected == expected_ids(manifest)
  IN  [true_positives  |-> found \cap expected,
       false_positives |-> found \ expected,
       false_negatives |-> expected \ found]

\* A check that fires below its floor is a false positive.
score_target(manifest, drafts) ==
  LET found    == {d.rule.check : d \in ToSet(drafts)}
      expected == expected_ids(manifest)
      below    == {check \in found \cap expected :
                     ~ meets_floor(group_by_rule(drafts, check), min_severity(manifest, check))}
  IN  [true_positives  |-> (found \cap expected) \ below,
       false_positives |-> (found \ expected) \cup below,
       false_negatives |-> expected \ found]

passed(score) == score.false_positives = {} /\ score.false_negatives = {}

\* One gate run scores one adapter, on the targets it owns; none is a failure.
\* A target is [manifest, drafts], drafts what the adapter makes of it.
gate_passes(targets, adapter) ==
  LET owned == Kept(targets, {n \in DOMAIN targets : targets[n].manifest.adapter = adapter})
  IN  /\ owned # <<>>
      /\ \A t \in ToSet(owned) : passed(score_target(t.manifest, t.drafts))

=============================================================================
