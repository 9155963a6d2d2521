----------------------------- MODULE MCCpuTimer -----------------------------
(* Instance of CpuTimer for TLC. *)
EXTENDS CpuTimer
=============================================================================
