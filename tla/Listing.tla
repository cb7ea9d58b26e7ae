------------------------------ MODULE Listing ------------------------------
(***************************************************************************)
(* list_findings (api/engagements.py) while scans commit: it counts the      *)
(* appended evidence in one query and reads the findings in a second one,    *)
(* and under READ COMMITTED each sees what is committed when it runs.        *)
(***************************************************************************)
EXTENDS Readout

VARIABLE listing   \* the list request between its two queries

NoListing == [asked |-> {}, counts |-> <<>>]

\* counts is by finding; asked is a history variable: the scans committed when
\* the request counted.
ListingInit == listing = NoListing

\* Variant: the query finds rows of one evidence reference only.
appended_evidence_counts_single ==
  [i \in {e.finding : e \in evidence} |-> 1]

appended_evidence_counts ==
  [i \in {e.finding : e \in evidence} |-> Cardinality({e \in evidence : e.finding = i})]

CountEvidence ==
  /\ listing = NoListing
  /\ scans # {}
  /\ listing' = [asked |-> scans, counts |-> appended_evidence_counts]
  /\ UNCHANGED vars

\* Variant: a finding without appended evidence has none.
evidence_ref_count_appended(i) ==
  IF i \in DOMAIN listing.counts THEN 1 + listing.counts[i] ELSE 0

\* The inline evidence and what was appended.
evidence_ref_count(i) ==
  1 + IF i \in DOMAIN listing.counts THEN listing.counts[i] ELSE 0

\* The second query, and the answer.
ListFindings ==
  /\ listing # NoListing
  /\ listing' = NoListing
  /\ UNCHANGED vars

\* Scans and a reader of the list.  The fairness is that of the scans.
ListedNext ==
  \/ Next /\ UNCHANGED listing
  \/ CountEvidence
  \/ ListFindings

ListedSpec ==
  /\ Init
  /\ ListingInit
  /\ [][ListedNext]_<<vars, listing>>
  /\ Fairness

-----------------------------------------------------------------------------
\* The drafts that scans of by captured of the issue finding i is of.
DraftsOf(i, by) ==
  UNION {{s} \X {n \in DOMAIN captured[s] : captured[s][n].key = findings[i].key} : s \in by}

\* A list that is read while scans commit is short of none of the evidence
\* that was there when it was asked for and shows none that is not there when
\* it is answered, though its two queries see different states: were it
\* answered now, each finding's reference count would be at least the drafts
\* of its issue that the scans committed then had, unless a human ruled it a
\* false positive, and at most those that the scans committed now have.
ListingBetween ==
  listing # NoListing =>
    \A i \in DOMAIN findings :
      /\ \/ Cardinality(DraftsOf(i, listing.asked)) <= evidence_ref_count(i)
         \/ Ruled(i, "false_positive")
      /\ evidence_ref_count(i) <= Cardinality(DraftsOf(i, scans))

=============================================================================
