---------------------------- MODULE MCDashboard ----------------------------
(* Small instances of Dashboard for TLC. *)
EXTENDS Dashboard, TLC

CONSTANTS p, q

TwoProjects == {p, q}
ProjectP == {p}
TwoIssues == {1, 2}
ThreeIssues == {1, 2, 3}
IssuesOfP == {1, 2}
NoHash == {<<None, None>>}
\* An issue of the user's project, and a project that is not the user's.
SomeHash == {<<p, 1>>, <<q, None>>}
IssueOne == {1}
NoIssue == {}
InP == [i \in Issue |-> p]
\* Two issues in p, one in q, which the user creates on the way.
InBoth == [i \in Issue |-> IF i = 3 THEN q ELSE p]
=============================================================================
