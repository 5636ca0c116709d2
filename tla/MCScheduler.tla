---------------------------- MODULE MCScheduler ----------------------------
\* Two config entries that share a name (nothing in config.go forbids it),
\* a third of its own, and one manual job; two goroutines.
EXTENDS Scheduler

CONSTANTS fetch, bodies, manualFetch, c1, c2, c3, m1

MCNames == {fetch, bodies, manualFetch}
MCCronJobs == {c1, c2, c3}
MCManualJobs == {m1}
MCNameOf == [j \in MCCronJobs \cup MCManualJobs |->
                CASE j \in {c1, c2} -> fetch
                  [] j = c3 -> bodies
                  [] OTHER -> manualFetch]
=============================================================================
