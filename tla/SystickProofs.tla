---------------------------- MODULE SystickProofs ----------------------------
(* Arithmetic of the SysTick driver, for every clock and register width.   *)
EXTENDS ManagedTimer, TLAPS

(* Division takes back a multiplication: n * d is d times n.               *)
LEMMA DivOfProduct ==
    ASSUME NEW n, n \in Nat, NEW d, d \in Nat \ {0}
    PROVE  (n * d) \div d = n
  OBVIOUS

(* The quotient times the divisor is at most what was divided.             *)
LEMMA ProductOfDiv ==
    ASSUME NEW n, n \in Nat, NEW d, d \in Nat \ {0}
    PROVE  n \div d \in Nat /\ (n \div d) * d <= n
  OBVIOUS

\* The states of a timer with timeouts from E.
TimerState(E) ==
    [queue : Seq(E), remaining : [E -> Int], reset : [E -> Nat],
     load : Nat, val : Nat, enabled : BOOLEAN, pending : BOOLEAN]

(* The milliseconds systick_get reports to timer_managedhandler are the    *)
(* ones systick_set was asked to count, up to the largest time it can      *)
(* count: neither clock/1000*time nor LOAD*1000 loses anything, whatever   *)
(* the wrap-around of 1000*kMaxLoadValue makes of that largest time.       *)
THEOREM RoundTrip ==
    ASSUME NEW E, NEW tm, tm \in TimerState(E), NEW time, time \in Nat
    PROVE  systick_get(systick_set(tm, time)) = Clamped(time)
<1> DEFINE wrapped == (1000 * kMaxLoadValue) % Word
           c == Clamped(time)
           q == Clock \div 1000
<1>1. wrapped \in Nat /\ wrapped < Word
  BY ClockAssumption
<1>2. maxPossibleValue \in Nat /\ maxPossibleValue * Clock <= wrapped
  BY <1>1, ProductOfDiv, ClockAssumption DEF maxPossibleValue
<1>3. c \in Nat /\ c <= maxPossibleValue
  BY <1>2 DEF Clamped
<1>4. q \in Nat /\ 1000 * q = Clock
  BY ClockAssumption
<1>5. c * Clock <= maxPossibleValue * Clock
  BY <1>2, <1>3, ClockAssumption
<1>6. q * c \in Nat /\ (q * c) * 1000 = c * Clock
  BY <1>3, <1>4
<1>7. c * Clock \in Nat /\ c * Clock < Word
  BY <1>1, <1>2, <1>3, <1>5, ClockAssumption
<1>8. ((q * c) * 1000) % Word = c * Clock
  BY <1>6, <1>7, ClockAssumption
<1>9. (c * Clock) \div Clock = c
  BY <1>3, DivOfProduct, ClockAssumption
<1>10. systick_set(tm, time).load = q * c
  BY DEF systick_set, TimerState
<1> HIDE DEF c, q
<1> QED
  BY <1>8, <1>9, <1>10 DEF systick_get, c, q
==============================================================================
