------------------------------- MODULE MCDelay -------------------------------
(* Instances of Delay: see MCDelay.cfg and MCDelayLost.cfg.                *)
EXTENDS Delay

CONSTANTS t1, t2, t3, sem, client

ThreeThreads == {t1, t2, t3}
OneSemaphore == {sem}
OneClient == {client}
UpToTwo == 1..2
==============================================================================
