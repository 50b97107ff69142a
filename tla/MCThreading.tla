----------------------------- MODULE MCThreading -----------------------------
(* Model values for Threading: see MCThreading.cfg.                        *)
EXTENDS Threading

CONSTANTS t1, t2, t3, m1, e1

ThreeThreads == {t1, t2, t3}
OneMutex == {m1}
OneEvent == {e1}
AllSemaphores == Mutexes \cup Events
==============================================================================
