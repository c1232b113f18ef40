---------------------------- MODULE MCFanControl ----------------------------
(* A small instance of FanControl for TLC. *)
EXTENDS FanControl

\* They reach the first, the second and the last band, and lie on the boundaries
\* below which the fans of the second, third and later bands may be slowed.
SampleReadings == {45, 60, 80}
=============================================================================
