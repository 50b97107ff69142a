----------------------------- MODULE MCSimulator -----------------------------
(* An instance of Simulator: see MCSimulator.cfg.                          *)
EXTENDS Simulator
==============================================================================
