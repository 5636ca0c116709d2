--------------------------- MODULE MCNewsPipeline ---------------------------
\* Instances of NewsPipeline: which items there are and which steps overlap.
EXTENDS NewsPipeline

CONSTANTS r1, r2, a1, wRss, wApi, wBody, wBodyNow, wDedup, wEnrich, wAll, wFacts, wStories

MCAllKinds == [w \in Workers |->
    CASE w = wRss -> "rss"         [] w = wApi -> "api"
      [] w \in {wBody, wBodyNow} -> "body"       [] w = wDedup -> "dedup"
      [] w = wEnrich -> "enrich"   [] w = wAll -> "combined"
      [] w = wFacts -> "facts"     [] OTHER -> "stories"]

\* A chain: r2 resembles r1, which resembles the API item.
MCSimilar == {{r1, a1}, {r1, r2}}
=============================================================================
