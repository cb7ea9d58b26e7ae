------------------------------ MODULE Readout ------------------------------
(***************************************************************************)
(* What a client is shown of the findings: engagement_report                *)
(* (api/engagements.py) reads them in one query, whenever it is asked, and   *)
(* hands them to the report.                                               *)
(***************************************************************************)
EXTENDS Pipeline

\* Findings of a store have no techniques here, so none has a parent.
R == INSTANCE Report WITH SubTechniques <- [t \in {} |-> t]

\* The findings of the engagement in label order.
_findings == [n \in 1..FindingCount |-> findings[FindingLabelled(n)]]

engagement_report == R!ReportSections(_findings)

-----------------------------------------------------------------------------
\* Only a human takes a finding out of the report or presents it as validated
\* (rule PX-HUMAN, report.py), whatever requests were lost to a race: what is
\* missing was ruled a false positive by the last event on it or excluded by
\* some event; what is under "validated" was triaged before, or accepted as a
\* risk, and has the status the last event gave it.
ReportHonoursHumans ==
  LET report == engagement_report
      Shown(section) == {section[n].label : n \in DOMAIN section}
  IN  \A i \in DOMAIN findings :
        LET label == findings[i].label
            moved == EventsOn(i, "status_change")
        IN  /\ label \notin Shown(report.findings) =>
                 \/ moved # {} /\ events[Latest(moved)].to = "false_positive"
                 \/ \E n \in EventsOn(i, "in_report_toggle") : ~ events[n].in_report
            /\ label \in Shown(report.validated) =>
                 /\ \E n \in moved : events[n].to \in {"triaged", "accepted_risk"}
                 /\ events[Latest(moved)].to \notin {"triaged", "false_positive"}

=============================================================================
