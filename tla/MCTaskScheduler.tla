-------------------------- MODULE MCTaskScheduler --------------------------
(* Small instances of TaskScheduler for TLC. *)
EXTENDS TaskScheduler, TLC

\* Tasks are interchangeable in every safety run without legacy tasks.
TaskSymmetry == Permutations(Tasks)

AllTasks == {Tasks}
=============================================================================
