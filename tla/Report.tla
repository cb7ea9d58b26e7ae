------------------------------- MODULE Report -------------------------------
(***************************************************************************)
(* The client-facing report (services/report.py, build_report_context) and  *)
(* its ATT&CK coverage (services/report_attack.py): pure functions of the    *)
(* list of findings read from the database, which comes in label order.     *)
(* A finding is a record with at least the fields each operator looks at:   *)
(* label, severity (its rank), status, in_report, techniques.  Branding and *)
(* display texts are left out.                                              *)
(***************************************************************************)
EXTENDS Lists, SequencesExt, FiniteSetsExt

CONSTANT SubTechniques   \* the sub-technique ids (T1557.002) and their parents

\* Ranks, worst first: critical, high, medium, low, info.
SEVERITY_ORDER == <<4, 3, 2, 1, 0>>

\* Variant: what a human has accepted counts as the machine's.
MACHINE_STATUSES_accepted == {"new", "triaged", "accepted_risk"}

\* Anything else means a human moved the finding forward.
MACHINE_STATUSES == {"new", "triaged"}

-----------------------------------------------------------------------------
\* The findings of the report.

\* Positions of findings by severity, worst first, then by label; the sort is
\* stable.
WorstFirst(findings, P) ==
  {p \in P \X P :
     LET f == findings[p[1]]
         g == findings[p[2]]
     IN  \/ f.severity > g.severity
         \/ f.severity = g.severity /\ f.label < g.label
         \/ f.severity = g.severity /\ f.label = g.label /\ p[1] < p[2]}

\* Variant: an accepted risk is left out as well.
report_findings_no_accepted(findings) ==
  LET keep == {n \in DOMAIN findings : /\ findings[n].in_report
                                       /\ findings[n].status \notin {"false_positive", "accepted_risk"}}
  IN  Picked(findings, InOrder(keep, WorstFirst(findings, keep)))

\* Neither what a human excluded nor a false positive.
report_findings(findings) ==
  LET keep == {n \in DOMAIN findings : findings[n].in_report /\ findings[n].status # "false_positive"}
  IN  Picked(findings, InOrder(keep, WorstFirst(findings, keep)))

\* Of the worst severity present.
risk_posture(findings) ==
  IF findings = <<>> THEN "No-material-risk"
  ELSE LET posture == <<"Informational", "Low", "Elevated", "High", "Critical">>
       IN  posture[Max({findings[n].severity : n \in DOMAIN findings}) + 1]

OfSeverity(findings, severity) ==
  Kept(findings, {n \in DOMAIN findings : findings[n].severity = severity})

\* Every band is counted, also an empty one.
severity_counts(findings) ==
  [n \in DOMAIN SEVERITY_ORDER |->
     [severity |-> SEVERITY_ORDER[n], count |-> Len(OfSeverity(findings, SEVERITY_ORDER[n]))]]

\* Variant: the last band is never reached.
remediation_roadmap_short(findings) ==
  LET bands == [n \in 1..3 |->
                  [severity |-> SEVERITY_ORDER[n], findings |-> OfSeverity(findings, SEVERITY_ORDER[n])]]
  IN  Kept(bands, {n \in DOMAIN bands : bands[n].findings # <<>>})

\* Only bands with findings appear.
remediation_roadmap(findings) ==
  LET bands == [n \in DOMAIN SEVERITY_ORDER |->
                  [severity |-> SEVERITY_ORDER[n], findings |-> OfSeverity(findings, SEVERITY_ORDER[n])]]
  IN  Kept(bands, {n \in DOMAIN bands : bands[n].findings # <<>>})

-----------------------------------------------------------------------------
\* ATT&CK coverage.

UNMAPPED_TACTIC == "Unmapped"

\* Variant: a tactic of the table is left out of the order.
TACTIC_ORDER_short == <<"Reconnaissance", "Initial-Access", "Credential-Access">>

TACTIC_ORDER == <<"Reconnaissance", "Initial-Access", "Credential-Access", "Collection">>

TECHNIQUE_INFO ==
  [T1595 |-> "Reconnaissance", T1591 |-> "Reconnaissance", T1190 |-> "Initial-Access",
   T1539 |-> "Credential-Access", T1557 |-> "Credential-Access", T1040 |-> "Credential-Access",
   T1185 |-> "Collection"]

\* A sub-technique the table does not list has the tactic of its parent.
tactic_for(technique) ==
  LET Known(t) == t \in DOMAIN TECHNIQUE_INFO
  IN  CASE Known(technique) -> TECHNIQUE_INFO[technique]
        [] technique \in DOMAIN SubTechniques /\ Known(SubTechniques[technique]) ->
             TECHNIQUE_INFO[SubTechniques[technique]]
        [] OTHER -> UNMAPPED_TACTIC

\* Each technique of each finding: the finding's position, and its own.
Mentions(findings) == UNION {{n} \X DOMAIN findings[n].techniques : n \in DOMAIN findings}

Mentioned(findings, m) == findings[m[1]].techniques[m[2]]

\* A finding counts as often as it mentions a technique of the tactic, so it
\* may count in several tactics, and twice in one.
attack_coverage(findings) ==
  LET Mentioning(t) == {m \in Mentions(findings) : Mentioned(findings, m) = t}
      In(tactic)    == {t \in {Mentioned(findings, m) : m \in Mentions(findings)} :
                          tactic_for(t) = tactic}
      Counts(tactic) == [t \in In(tactic) |-> Cardinality(Mentioning(t))]
      tactics       == Append(TACTIC_ORDER, UNMAPPED_TACTIC)
      ordered       == Kept(tactics, {n \in DOMAIN tactics : In(tactics[n]) # {}})
  IN  [n \in DOMAIN ordered |->
         [tactic     |-> ordered[n],
          count      |-> Total(Counts(ordered[n])),
          techniques |-> {[technique |-> t, count |-> Counts(ordered[n])[t]] : t \in In(ordered[n])}]]

-----------------------------------------------------------------------------
\* build_report_context, its sections of findings.
ReportSections(findings) ==
  LET kept == report_findings(findings)
  IN  [findings  |-> kept,
       machine   |-> Kept(kept, {n \in DOMAIN kept : kept[n].status \in MACHINE_STATUSES}),
       validated |-> Kept(kept, {n \in DOMAIN kept : kept[n].status \notin MACHINE_STATUSES}),
       total     |-> Len(kept)]

=============================================================================
