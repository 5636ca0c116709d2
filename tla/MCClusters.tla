---------------------------- MODULE MCClusters ----------------------------
\* Two similar items of two sources with one title: they meet in the cluster
\* key and as neighbours.  The job alone, or with a manual pass.
EXTENDS Clusters

MCSourceOf == <<1, 2>>
MCKeyOf == <<"title", "title">>
MCSimilar == {{1, 2}}
MCSchedules == {{"job"}, {"job", "manual"}}
=============================================================================
