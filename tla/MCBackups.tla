------------------------------ MODULE MCBackups ------------------------------
(***************************************************************************)
(* One backup by hand beside the scheduler's; plans that keep some, none,  *)
(* by age and by both.                                                     *)
(***************************************************************************)
EXTENDS Backups
CONSTANT none

Plan(schedule, count, age) == [schedule |-> schedule, count |-> count, age |-> age]

SmallPlans == {none, Plan({1, 3}, 1, none), Plan({1, 2}, none, 1), Plan({2}, none, none)}

=============================================================================
