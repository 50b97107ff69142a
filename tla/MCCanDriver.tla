----------------------------- MODULE MCCanDriver -----------------------------
(* Model values for CanDriver: see MCCanDriver.cfg.                        *)
EXTENDS CanDriver

CONSTANTS t1, t2, t3, send_lock, send_done

ThreeThreads == {t1, t2, t3}
BothSemaphores == {send_lock, send_done}
==============================================================================
