------------------------------- MODULE MCConfig ------------------------------
(* An instance of Config: two pages, see MCConfig.cfg.                     *)
EXTENDS Config

CONSTANTS loop, console, i2c_lock, i2c_done, sem

BothThreads == {loop, console}
AllSemaphores == {i2c_lock, i2c_done, sem}
OnceSaved == {<<164, 0, crc8_maxim(<<164, 0>>)>>}
Defaults == <<0, 164>>
==============================================================================
