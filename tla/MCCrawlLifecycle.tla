-------------------------- MODULE MCCrawlLifecycle --------------------------
(* The sizes that a .cfg names: a race of two requests; a request and a       *)
(* scheduled job that overlap; a request, a cancellation and a failing        *)
(* attempt; a scheduled job, a cancellation and a failing attempt; a request  *)
(* or a scheduled job with a call that fails or a process that dies; a        *)
(* request and a failing attempt on a site that is archived and taken back.   *)
EXTENDS CrawlLifecycle

CONSTANTS w1, w2

Scale(starts, crons, cancels, failures, crashes, archives, runs) ==
    [starts |-> starts, crons |-> crons, cancels |-> cancels, failures |-> failures,
     crashes |-> crashes, archives |-> archives, runs |-> runs]

MCRace    == {Scale(2, 0, 0, 1, 0, 0, {w1})}
MCOverlap == {Scale(1, 1, 0, 0, 0, 0, {w1, w2})}
MCCancel  == {Scale(1, 0, 1, 1, 0, 0, {w1})}
MCCron    == {Scale(0, 1, 1, 1, 0, 0, {w1})}
MCLost    == {Scale(1, 0, 1, 0, 1, 0, {w1}), Scale(1, 0, 0, 1, 1, 0, {w1}),
              Scale(0, 1, 0, 0, 1, 0, {w1}), Scale(1, 1, 0, 0, 1, 0, {w1})}
MCArchive == {Scale(1, 0, 0, 1, 0, 2, {w1})}
MCAlone   == {Scale(1, 0, 0, 1, 0, 0, {w1})}
MCBatch   == {Scale(1, 0, 0, 0, 1, 0, {w1})}
MCAll     == MCRace \cup MCOverlap \cup MCCancel \cup MCCron \cup MCLost \cup MCArchive
=============================================================================
