----------------------------- MODULE MCScheduler -----------------------------
(* Instances of Scheduler for TLC: the jobs each run's loop passes through.    *)
EXTENDS Scheduler

FeedAndSweep == <<"feed", "sweep">>
NudgesToo == <<"nudges", "feed", "sweep">>
FeedOnly == <<"feed">>
=============================================================================
