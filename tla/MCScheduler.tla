---------------------------- MODULE MCScheduler ----------------------------
(***************************************************************************)
(* Small instances of Scheduler for TLC: schedules are interchangeable.    *)
(***************************************************************************)
EXTENDS Scheduler, TLC

AllPolicies == [missed : {"skip", "catch_up_once"}, overlap : {"skip", "queue"}]

\* Both values of either policy, for the larger instance.
TwoPolicies == {[missed |-> "catch_up_once", overlap |-> "skip"],
                [missed |-> "skip", overlap |-> "queue"]}

Symmetry == Permutations(Schedules)
=============================================================================
