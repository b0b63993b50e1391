---------------------------- MODULE MCCrawlEngine ----------------------------
(* A site of five pages behind one home page, one asset and one external      *)
(* link, small enough that every crawl of it is explored.                     *)
EXTENDS CrawlEngine

CONSTANTS home, left, right, deep, deeper, image, other, hidden

MCPages     == {home, left, right, deep, deeper}
MCRefused   == {hidden}
MCAssets    == {image}
MCExternals == {other}

MCLinkSets == [p \in MCPages |->
    CASE p = home   -> {{left, right}, {left, other, hidden}}
      [] p = left   -> {{deep}, {deep, other}}
      [] p = right  -> {{deeper}, {home, image}}
      [] p = deep   -> {{deeper, hidden}, {image}}
      [] p = deeper -> {{}}]

MCImageSets == [p \in MCPages |-> IF p \in {left, deep} THEN {{}, {deeper}} ELSE {{}}]
MCMoves     == [p \in MCPages |->
    CASE p = right -> {deep} [] p = left -> {other} [] OTHER -> {}]
MCSitemaps  == {{}, {left, deeper}}

Setting(c, pages, depth, probes) ==
    [concurrency |-> c, maxPages |-> pages, maxDepth |-> depth, probes |-> probes]

MCConfigs == {Setting(1, 5, 3, TRUE), Setting(2, 3, 2, TRUE), Setting(2, 5, 2, TRUE),
              Setting(1, 1, 1, TRUE), Setting(2, 5, 3, FALSE)}
=============================================================================
