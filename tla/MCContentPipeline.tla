-------------------------- MODULE MCContentPipeline --------------------------
(* A pipeline of the stages that write what a later one reads, and what       *)
(* happens in one behaviour: an operator who waits, with every way the work   *)
(* may go wrong; one who does not, with fewer.                                *)
EXTENDS ContentPipeline

MCOrder == <<"DRAFT", "FACT_CHECK", "BRAND_REVIEW", "QUALITY_REVIEW", "READY_FOR_APPROVAL">>

Scale(runs, edits, approvals, publishes, failures, missing, deaths, careful) ==
    [runs |-> runs, edits |-> edits, approvals |-> approvals, publishes |-> publishes,
     failures |-> failures, missing |-> missing, deaths |-> deaths, careful |-> careful]

MCCareful ==
    {Scale(2, 1, 1, 0, 0, 0, 1, TRUE), Scale(2, 1, 1, 1, 0, 0, 0, TRUE),
     Scale(1, 0, 1, 1, 1, 0, 1, TRUE)}
MCHasty ==
    {Scale(1, 0, 1, 1, 0, 0, 1, FALSE), Scale(1, 1, 1, 0, 0, 0, 0, FALSE),
     Scale(1, 0, 1, 0, 1, 1, 0, FALSE), Scale(2, 0, 0, 0, 0, 1, 0, FALSE),
     Scale(0, 0, 1, 3, 1, 1, 1, FALSE)}
MCAll == MCCareful \cup MCHasty

(* The violated runs: one run of the pipeline; a publication; a worker that   *)
(* dies.                                                                      *)
MCOneRun  == {Scale(1, 0, 0, 0, 0, 0, 0, TRUE)}
MCPublish == {Scale(0, 0, 1, 1, 0, 0, 0, TRUE)}
MCDeath   == {Scale(1, 0, 0, 0, 0, 0, 1, TRUE)}

(* The further configurations: a stage under way while the operator approves; *)
(* an edit after the approval; a publication that stalls.                     *)
MCRace   == {Scale(1, 0, 1, 0, 0, 0, 0, FALSE)}
MCEdited == {Scale(0, 2, 1, 0, 0, 0, 0, TRUE)}
MCStall  == {Scale(0, 0, 1, 1, 0, 0, 1, TRUE)}
=============================================================================
