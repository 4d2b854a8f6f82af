------------------------------ MODULE MCRetention ------------------------------
(* Instances of Retention for TLC. *)
EXTENDS Retention, TLC

CONSTANTS r1, r2, o1, w1
================================================================================
