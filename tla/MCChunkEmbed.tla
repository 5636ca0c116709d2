---------------------------- MODULE MCChunkEmbed ----------------------------
\* Three texts; the feed sends one summary along with the first two of them,
\* and the longest has more chunks.
EXTENDS ChunkEmbed

CONSTANTS c1, e1, e2

MCVersions == 1..3
MCSummaryOf == [v \in MCVersions |-> IF v < 3 THEN "s" ELSE "t"]
MCChunksOf == [v \in MCVersions |-> IF v = 2 THEN 2 ELSE 1]
MCWrites == [rss |-> 1, page |-> 2]
MCRssWrites == [rss |-> 2, page |-> 0]
=============================================================================
