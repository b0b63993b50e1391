------------------------------ MODULE MCIssues ------------------------------
(* Two sizes: one auditor and both pages' findings, which take two chunks;    *)
(* two auditors that overlap, and one finding.                                *)
EXTENDS Issues

CONSTANTS a1, a2, p1, EventsAlone, EventsTogether

MCScales == {
    [auditors |-> {a1}, findings |-> Fingerprints, events |-> EventsAlone],
    [auditors |-> {a1, a2}, findings |-> {f \in Fingerprints : f.page = p1},
     events |-> EventsTogether]}
=============================================================================
