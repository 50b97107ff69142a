--------------------------- MODULE SimulatorProofs ---------------------------
(***************************************************************************)
(* The safety properties of Simulator: for any number of tests.            *)
(***************************************************************************)
EXTENDS Simulator, ThumbAlu, FiniteSetTheorems, TLAPS

Failed == {t \in Tests : result[t] = "fail"}

TestType ==
    /\ current \in -1..Count /\ total \in {0, Count} /\ failed \in Nat
    /\ pc \in 0..5 /\ dirty \in BOOLEAN /\ exit \in {"no", "failed", "passed"}
    /\ type \in [Tests -> Levels] /\ runs \in [Tests -> 0..2]
    /\ result \in [Tests -> {"none", "pass", "fail", "stuck"}] /\ spoiled \subseteq Tests

Completed(t) == runs[t] = 1 /\ result[t] \in {"pass", "fail"}

(* Until the exit: the tests before the current one were run once to their *)
(* end, those behind it were not, and the mcu has not yet passed the level *)
(* at which the current one is run; the ram is initialised wherever a test *)
(* may be started.                                                         *)
TestInv ==
    /\ TestType
    /\ spoiled = {} /\ failed = Cardinality(Failed)
    /\ pc \in Levels => ~dirty
    /\ exit = "no" /\ current < 0 =>
          current = -1 /\ pc \in {Reset, 1}
          /\ \A t \in Tests : runs[t] = 0 /\ result[t] = "none"
    /\ exit = "no" /\ current >= 0 =>
          /\ current \in Tests /\ total = Count
          /\ pc \in Levels => pc <= type[current]
          /\ \A t \in Tests : /\ t < current => Completed(t)
                              /\ t > current => runs[t] = 0 /\ result[t] = "none"
          /\ runs[current] = IF pc \in {Test, Halted} THEN 1 ELSE 0
          /\ result[current] = IF pc = Halted THEN "stuck" ELSE "none"
    /\ exit # "no" =>
          /\ pc = Halted /\ \A t \in Tests : Completed(t)
          /\ exit = IF failed > 0 THEN "failed" ELSE "passed"

-----------------------------------------------------------------------------

LEMMA TestNumbers == Count \in Nat /\ Count > 0 /\ Tests = 0..(Count - 1) /\ Levels = 1..3
BY TestRunAssumption DEF Tests, Levels

LEMMA FailedFinite == ASSUME TestType PROVE IsFiniteSet(Failed) /\ Cardinality(Failed) \in Nat
<1>1. IsFiniteSet(Tests)
  BY TestNumbers, FS_Interval
<1>2. IsFiniteSet(Failed)
  BY <1>1, FS_Subset DEF Failed
<1> QED BY <1>2, FS_CardinalityType

LEMMA TestInitStep == TestInit => TestInv
<1> SUFFICES ASSUME TestInit PROVE TestInv
  OBVIOUS
<1>1. TestType
  <2>1. /\ runs \in [Tests -> 0..2] /\ type \in [Tests -> Levels]
        /\ result \in [Tests -> {"none", "pass", "fail", "stuck"}]
    BY DEF TestInit
  <2>2. current \in -1..Count /\ total \in {0, Count} /\ failed \in Nat /\ pc \in 0..5
    BY TestNumbers DEF TestInit, Reset
  <2> QED BY <2>1, <2>2 DEF TestInit, TestType
<1>2. Failed = {}
  BY DEF TestInit, Failed
<1>3. Cardinality(Failed) = 0
  BY <1>2, FS_EmptySet
<1> QED BY <1>1, <1>3, TestNumbers DEF TestInit, TestInv, Reset

(* The mcu comes out of the reset: the ram is initialised.                 *)
LEMMA ResetStep == ASSUME TestInv, do_irq_reset PROVE TestInv'
<1>1. /\ pc = 0 /\ pc' = 1 /\ dirty' = FALSE
      /\ UNCHANGED <<current, total, failed, exit, type, runs, result, spoiled>>
  BY DEF do_irq_reset, device, history, Reset
<1>2. Failed' = Failed
  BY <1>1 DEF Failed
<1>3. TestType'
  <2>1. pc' \in 0..5
    BY <1>1
  <2>2. dirty' \in BOOLEAN
    BY <1>1
  <2> QED BY <1>1, <2>1, <2>2 DEF TestInv, TestType
<1>4. exit = "no" /\ current >= 0 => 1 <= type[current]
  BY TestNumbers DEF TestInv, TestType
<1>5. \A t \in Tests : Completed(t)' <=> Completed(t)
  BY <1>1 DEF Completed
<1>6. /\ exit # "no" => pc = Halted
      /\ pc \notin {Test, Halted} /\ pc' \notin {Test, Halted} /\ pc # Halted /\ pc' # Halted
  BY <1>1 DEF TestInv, Test, Halted
<1> QED BY <1>1, <1>2, <1>3, <1>4, <1>5, <1>6, TestNumbers DEF TestInv, Reset

(* test_do: the device is set up, the test is started where its level is   *)
(* reached, or bootstrap goes on.                                          *)
LEMMA TestDoStep == ASSUME TestInv, NEW l \in Levels, test_do(l) PROVE TestInv'
<1>1. pc = l /\ exit' = exit /\ type' = type /\ l \in 1..3 /\ ~dirty
  BY TestNumbers DEF test_do, TestInv
<1>2. exit = "no"
  BY <1>1 DEF TestInv, Halted
<1>3. CASE current < 0 /\ arch_test_set_test_count
  <2>1. /\ current' = 0 /\ total' = Count /\ failed' = 0 /\ pc' = 0
        /\ UNCHANGED <<dirty, runs, result, spoiled>>
    BY <1>3 DEF arch_test_set_test_count, history, Reset
  <2>2. Failed' = {}
    BY <1>2, <1>3, <2>1, TestNumbers DEF TestInv, Failed
  <2>3. failed' = Cardinality(Failed')
    BY <2>1, <2>2, FS_EmptySet
  <2>4. current' \in -1..Count /\ current' \in Tests /\ failed' \in Nat /\ pc' \in 0..5
    BY <2>1, TestNumbers
  <2>5. TestType'
    BY <1>1, <2>1, <2>4 DEF TestInv, TestType
  <2>6. pc' \notin Levels /\ pc' \notin {Test, Halted}
    BY <2>1, TestNumbers DEF Test, Halted
  <2>7. \A t \in Tests : runs'[t] = 0 /\ result'[t] = "none" /\ ~(t < 0)
    BY <1>2, <1>3, <2>1, TestNumbers DEF TestInv
  <2>8. spoiled' = {} /\ ~(current' < 0) /\ exit' = "no"
    BY <1>1, <1>2, <2>1 DEF TestInv
  <2> QED BY <2>1, <2>3, <2>4, <2>5, <2>6, <2>7, <2>8 DEF TestInv
<1>4. CASE current >= 0 /\ type[current] = l /\ StartTest
  <2>1. /\ pc' = 4 /\ spoiled' = spoiled
        /\ runs' = [runs EXCEPT ![current] = IF runs[current] = 2 THEN 2 ELSE runs[current] + 1]
        /\ UNCHANGED <<current, total, failed, dirty, result>>
    BY <1>1, <1>4 DEF StartTest, Test
  <2>2. current \in Tests /\ runs[current] = 0 /\ runs \in [Tests -> 0..2]
    BY <1>1, <1>2, <1>4 DEF TestInv, TestType, Test, Halted
  <2>3. /\ runs' \in [Tests -> 0..2] /\ runs'[current] = 1
        /\ \A t \in Tests : t # current => runs'[t] = runs[t]
    BY <2>1, <2>2
  <2>4. Failed' = Failed
    BY <2>1 DEF Failed
  <2>5. pc' \in 0..5 /\ pc' \notin Levels /\ pc' \in {Test, Halted} /\ pc' # Halted
    BY <2>1, TestNumbers DEF Test, Halted
  <2>6. TestType'
    BY <1>1, <2>1, <2>3, <2>5 DEF TestInv, TestType
  <2>7. \A t \in Tests : (t < current => t # current) /\ (t > current => t # current)
    BY <2>2, TestNumbers
  <2>8. /\ result[current] = "none"
        /\ \A t \in Tests : /\ t < current => Completed(t)
                            /\ t > current => runs[t] = 0 /\ result[t] = "none"
    BY <1>1, <1>2, <1>4 DEF TestInv, Halted
  <2>9. /\ result'[current] = "none"
        /\ \A t \in Tests : /\ t < current => Completed(t)'
                            /\ t > current => runs'[t] = 0 /\ result'[t] = "none"
    BY <2>1, <2>3, <2>7, <2>8 DEF Completed
  <2> QED BY <1>1, <1>2, <1>4, <2>1, <2>2, <2>3, <2>4, <2>5, <2>6, <2>9 DEF TestInv
<1>5. CASE /\ current >= 0 /\ type[current] # l
           /\ pc' = (IF l = 3 THEN Halted ELSE l + 1)
           /\ UNCHANGED <<device, dirty, history>>
  <2>1. UNCHANGED <<current, total, failed, dirty, runs, result, spoiled>>
    BY <1>5 DEF device, history
  <2>2. current \in Tests /\ type[current] \in 1..3 /\ l <= type[current]
    BY <1>1, <1>2, <1>5, TestNumbers DEF TestInv, TestType
  <2>3. l < 3 /\ pc' = l + 1 /\ pc' <= type[current]
    BY <1>1, <1>5, <2>2
  <2>4. pc' \in 0..5 /\ pc' \in Levels /\ pc' \notin {Test, Halted}
    BY <1>1, <2>3, TestNumbers DEF Test, Halted
  <2>5. pc \notin {Test, Halted} /\ pc # Halted /\ pc' # Halted
    BY <1>1, <2>4 DEF Test, Halted
  <2>6. TestType'
    BY <1>1, <2>1, <2>4 DEF TestInv, TestType
  <2>7. Failed' = Failed /\ \A t \in Tests : Completed(t)' <=> Completed(t)
    BY <2>1 DEF Failed, Completed
  <2> QED BY <1>1, <1>2, <1>5, <2>1, <2>2, <2>3, <2>4, <2>5, <2>6, <2>7 DEF TestInv
<1> QED BY <1>3, <1>4, <1>5 DEF test_do

(* The status is written: the device counts, and goes on to the next test  *)
(* or exits; or the test gets stuck.                                       *)
LEMMA EndTestStep ==
    ASSUME TestInv, NEW outcome \in {"pass", "fail", "stuck"}, EndTest(outcome)
    PROVE  TestInv'
<1>1. /\ pc = Test /\ dirty' = TRUE /\ result' = [result EXCEPT ![current] = outcome]
      /\ UNCHANGED <<type, runs, spoiled>>
  BY DEF EndTest
<1>2. exit = "no" /\ current >= 0 /\ pc = 4
  <2>1. pc = 4 /\ pc # Halted /\ pc \notin {Reset, 1}
    BY <1>1 DEF Reset, Test, Halted
  <2>2. exit = "no"
    BY <2>1 DEF TestInv
  <2>3. ~(current < 0) /\ current \in -1..Count
    BY <2>1, <2>2 DEF TestInv, TestType
  <2> QED BY <2>1, <2>2, <2>3, TestNumbers
<1>3. /\ current \in Tests /\ total = Count /\ runs[current] = 1 /\ result[current] = "none"
      /\ \A t \in Tests : /\ t < current => Completed(t)
                          /\ t > current => runs[t] = 0 /\ result[t] = "none"
  BY <1>1, <1>2 DEF TestInv, Test, Halted
<1>4. /\ result' \in [Tests -> {"none", "pass", "fail", "stuck"}]
      /\ result'[current] = outcome
      /\ \A t \in Tests : t # current => result'[t] = result[t]
  BY <1>1, <1>3 DEF TestInv, TestType
<1>n. \A t \in Tests : (t < current => t # current) /\ (t > current => t # current)
  BY <1>3, TestNumbers
<1>c. /\ \A t \in Tests : /\ t < current => Completed(t)'
                          /\ t > current => runs'[t] = 0 /\ result'[t] = "none"
      /\ runs'[current] = 1
  BY <1>1, <1>3, <1>4, <1>n DEF Completed
<1>5. IsFiniteSet(Failed) /\ Cardinality(Failed) \in Nat /\ failed = Cardinality(Failed)
  BY FailedFinite DEF TestInv
<1>6. Cardinality(Failed') = IF outcome = "fail" THEN failed + 1 ELSE failed
  <2>1. current \notin Failed
    BY <1>3 DEF Failed
  <2>2. CASE outcome = "fail"
    <3>1. Failed' = Failed \cup {current}
      BY <1>3, <1>4, <2>2 DEF Failed
    <3> QED BY <1>5, <2>1, <2>2, <3>1, FS_AddElement
  <2>3. CASE outcome # "fail"
    <3>1. Failed' = Failed
      BY <1>3, <1>4, <2>3 DEF Failed
    <3> QED BY <1>5, <2>3, <3>1
  <2> QED BY <2>2, <2>3
<1>7. CASE outcome = "stuck"
  <2>1. pc' = 5 /\ UNCHANGED <<current, total, failed, exit>>
    BY <1>7 DEF EndTest, device, Halted, unittest_dev_write32
  <2>2. pc' \in 0..5 /\ pc' \notin Levels /\ pc' = Halted
    BY <2>1, TestNumbers DEF Halted
  <2>3. TestType'
    BY <1>1, <1>4, <2>1, <2>2 DEF TestInv, TestType
  <2>4. failed' = Cardinality(Failed')
    BY <1>6, <1>7, <2>1
  <2> QED BY <1>1, <1>2, <1>3, <1>4, <1>7, <1>c, <2>1, <2>2, <2>3, <2>4 DEF TestInv
<1>8. CASE outcome # "stuck"
  <2>1. /\ current' = current + 1 /\ total' = total
        /\ failed' = IF outcome = "fail" THEN failed + 1 ELSE failed
        /\ IF current + 1 >= Count
           THEN exit' = (IF failed' > 0 THEN "failed" ELSE "passed") /\ pc' = 5
           ELSE pc' = 0 /\ exit' = exit
    BY <1>3, <1>8 DEF EndTest, unittest_dev_write32, Advanced, Done, Reset, Halted
  <2>2. failed' = Cardinality(Failed') /\ failed' \in Nat
    BY <1>5, <1>6, <2>1
  <2>3. pc' \in 0..5 /\ pc' \notin Levels /\ current' \in -1..Count /\ current' >= 0
    BY <1>3, <2>1, TestNumbers
  <2>4. TestType'
    BY <1>1, <1>4, <2>1, <2>2, <2>3 DEF TestInv, TestType
  <2>5. CASE current + 1 >= Count
    <3>1. \A t \in Tests : t < current \/ t = current
      BY <1>3, <2>5, TestNumbers
    <3>2. \A t \in Tests : Completed(t)'
      <4>1. \A t \in Tests : t = current => Completed(t)'
        BY <1>4, <1>8, <1>c DEF Completed
      <4> QED BY <1>c, <3>1, <4>1
    <3>3. exit' # "no" /\ pc' = Halted
      BY <2>1, <2>5 DEF Halted
    <3> QED BY <1>1, <2>1, <2>2, <2>3, <2>4, <2>5, <3>2, <3>3 DEF TestInv
  <2>6. CASE ~(current + 1 >= Count)
    <3>1. current' \in Tests /\ pc' = 0 /\ exit' = "no"
      BY <1>2, <1>3, <2>1, <2>6, TestNumbers
    <3>2. \A t \in Tests : /\ t < current' => t < current \/ t = current
                           /\ t > current' => t > current
      BY <1>3, <2>1, TestNumbers
    <3>3. current' > current
      BY <1>3, <2>1, TestNumbers
    <3>4. runs'[current'] = 0 /\ result'[current'] = "none"
      BY <1>c, <3>1, <3>3
    <3>5. \A t \in Tests : /\ t < current' => Completed(t)'
                           /\ t > current' => runs'[t] = 0 /\ result'[t] = "none"
      <4>1. \A t \in Tests : t = current => Completed(t)'
        BY <1>4, <1>8, <1>c DEF Completed
      <4> QED BY <1>c, <3>2, <4>1
    <3>6. pc' \notin {Test, Halted} /\ pc' # Halted
      BY <3>1 DEF Test, Halted
    <3> QED BY <1>1, <1>3, <2>1, <2>2, <2>3, <2>4, <3>1, <3>4, <3>5, <3>6 DEF TestInv
  <2> QED BY <2>5, <2>6
<1> QED BY <1>7, <1>8

(* gdb's reset takes the mcu back to before the current test.              *)
LEMMA GdbResetStep ==
    ASSUME TestInv, exit = "no", GdbReset, pc # Unknown
    PROVE  TestInv'
<1>1. /\ pc' = 0 /\ UNCHANGED <<current, total, failed, dirty, exit, type, spoiled>>
  BY DEF GdbReset, device, Reset
<1>2. pc' \in 0..5 /\ pc' \notin Levels /\ pc' \notin {Test, Halted} /\ pc' # Halted
  BY <1>1, TestNumbers DEF Test, Halted
<1>3. CASE current < 0
  <2>1. UNCHANGED <<runs, result>> /\ current = -1
    BY <1>3, TestNumbers DEF GdbReset, TestInv, TestType
  <2>2. Failed' = Failed /\ TestType'
    BY <1>1, <1>2, <2>1 DEF Failed, TestInv, TestType
  <2> QED BY <1>1, <1>2, <1>3, <2>1, <2>2 DEF TestInv, Reset
<1>4. CASE current >= 0
  <2>1. /\ current \in Tests /\ total = Count
        /\ result[current] = IF pc = Halted THEN "stuck" ELSE "none"
        /\ runs[current] = IF pc \in {Test, Halted} THEN 1 ELSE 0
        /\ \A t \in Tests : /\ t < current => Completed(t)
                            /\ t > current => runs[t] = 0 /\ result[t] = "none"
    BY <1>4 DEF TestInv
  <2>2. /\ runs' \in [Tests -> 0..2] /\ runs'[current] = 0
        /\ result' \in [Tests -> {"none", "pass", "fail", "stuck"}] /\ result'[current] = "none"
        /\ \A t \in Tests : t # current => runs'[t] = runs[t] /\ result'[t] = result[t]
    <3>1. runs \in [Tests -> 0..2] /\ result \in [Tests -> {"none", "pass", "fail", "stuck"}]
      BY DEF TestInv, TestType
    <3>2. CASE pc \in {Test, Halted}
      <4>1. /\ runs' = [runs EXCEPT ![current] = 0]
            /\ result' = [result EXCEPT ![current] = "none"]
        BY <1>4, <2>1, <3>2 DEF GdbReset
      <4> QED BY <2>1, <3>1, <4>1
    <3>3. CASE pc \notin {Test, Halted}
      <4>1. runs' = runs /\ result' = result
        BY <3>3 DEF GdbReset
      <4> QED BY <2>1, <3>1, <3>3, <4>1
    <3> QED BY <3>2, <3>3
  <2>3. Failed' = Failed
    BY <2>1, <2>2 DEF Failed
  <2>4. TestType'
    BY <1>1, <1>2, <2>2 DEF TestInv, TestType
  <2>5. \A t \in Tests : (t < current => t # current) /\ (t > current => t # current)
    BY <2>1, TestNumbers
  <2>6. \A t \in Tests : /\ t < current => Completed(t)'
                         /\ t > current => runs'[t] = 0 /\ result'[t] = "none"
    BY <2>1, <2>2, <2>5 DEF Completed
  <2>7. ~(current < 0)
    BY <1>4, <2>1, TestNumbers
  <2> QED BY <1>1, <1>2, <2>1, <2>2, <2>3, <2>4, <2>6, <2>7 DEF TestInv
<1>5. current < 0 \/ current >= 0
  BY TestNumbers DEF TestInv, TestType
<1> QED BY <1>3, <1>4, <1>5

(* As long as gdb has not changed the program.                             *)
Followed == pc = Unknown \/ TestInv

LEMMA TestStep == ASSUME Followed, TestNext PROVE Followed'
<1>1. ASSUME NEW outcome \in Outcomes PROVE outcome \in {"pass", "fail", "stuck"}
  BY TestRunAssumption
<1>2. CASE pc = Unknown
  <2>1. pc' = Unknown
    BY <1>2, TestNumbers
       DEF TestNext, Anything, do_irq_reset, test_do, EndTest, Unknown, Reset, Test
  <2> QED BY <2>1 DEF Followed
<1>3. CASE pc # Unknown
  <2>1. TestInv'
    BY <1>1, <1>3, ResetStep, TestDoStep, EndTestStep DEF TestNext, Anything, Followed
  <2> QED BY <2>1 DEF Followed
<1> QED BY <1>2, <1>3

LEMMA TestStutter == ASSUME Followed, UNCHANGED testVars PROVE Followed'
<1>1. UNCHANGED <<current, total, failed, pc, dirty, exit, type, runs, result, spoiled>>
  BY DEF testVars, device, history
<1>2. CASE TestInv
  <2>1. Failed' = Failed /\ TestType' /\ \A t \in Tests : Completed(t)' <=> Completed(t)
    BY <1>1, <1>2 DEF Failed, Completed, TestInv, TestType
  <2> QED BY <1>1, <1>2, <2>1 DEF TestInv, Followed
<1> QED BY <1>1, <1>2 DEF Followed

(* What the event loop and gdb do leaves the tests alone, is one           *)
(* instruction of the mcu, or resets or changes the program.               *)
LEMMA TestInvariance == Spec => []Followed
<1>1. Init => Followed
  BY TestInitStep DEF Init, Followed
<1>2. Followed /\ [Next]_vars => Followed'
  <2> SUFFICES ASSUME Followed, [Next]_vars PROVE Followed'
    OBVIOUS
  <2>1. TestNext \/ (exit = "no" /\ GdbReset) \/ GdbWrite \/ UNCHANGED testVars
    BY DEF Next, vars, McuStep, McuHalts, Read, Serve, Alive, Close, Listen, Client
  <2>2. CASE exit = "no" /\ GdbReset
    <3>1. CASE pc = Unknown
      BY <2>2, <3>1 DEF GdbReset, Followed
    <3>2. CASE pc # Unknown
      BY <2>2, <3>2, GdbResetStep DEF Followed
    <3> QED BY <3>1, <3>2
  <2>3. CASE GdbWrite
    BY <2>3 DEF GdbWrite, Followed
  <2> QED BY <2>1, <2>2, <2>3, TestStep, TestStutter
<1> QED BY <1>1, <1>2, PTL DEF Spec

(* Unless gdb writes registers or memory: when the simulator exits every   *)
(* test was run to its end exactly once and from initialised memory, a run *)
(* that gdb's reset cut off being repeated, and the exit code tells        *)
(* whether one failed.  For any number of tests, wherever gdb stops, steps *)
(* or resets the mcu in between.                                           *)
THEOREM TestsRunOnce == Spec => []EachTestOnce
<1>1. Followed => EachTestOnce
  <2> SUFFICES ASSUME TestInv PROVE EachTestOnce
    BY DEF Followed, EachTestOnce
  <2>1. IsFiniteSet(Failed) /\ failed = Cardinality(Failed) /\ failed \in Nat
    BY FailedFinite DEF TestInv
  <2>2. failed > 0 <=> \E t \in Tests : result[t] = "fail"
    BY <2>1, FS_EmptySet DEF Failed
  <2> QED BY <2>1, <2>2 DEF TestInv, EachTestOnce, Failed, Completed
<1> QED BY TestInvariance, <1>1, PTL

-----------------------------------------------------------------------------

(* The type of a word, and of Half, as numbers.                            *)
LEMMA WordNumbers ==
    ASSUME NEW a \in Word
    PROVE  Half \in Int /\ Half > 0 /\ a \in Int /\ 0 <= a /\ a < 2 * Half
  BY ThumbAluAssumption DEF ThumbAluAssumption, Word

(* mcu_update_cflag and mcu_update_vflag of a, ~b and a carry of 1: the    *)
(* carry is the absence of a borrow, the overflow is that of a - b.        *)
LEMMA SubtractFlags ==
    ASSUME NEW a \in Word, NEW b \in Word
    PROVE  /\ cflag(a, Invert(b), 1) <=> a >= b
           /\ vflag(a, Invert(b), 1) <=> ~Fits(Signed(a) - Signed(b))
           /\ nflag(Wrap(a - b)) <=> (Signed(a) < Signed(b)) # ~Fits(Signed(a) - Signed(b))
           /\ zflag(Wrap(a - b)) <=> a = b
<1>1. /\ Half \in Int /\ Half > 0
      /\ a \in Int /\ 0 <= a /\ a < 2 * Half
      /\ b \in Int /\ 0 <= b /\ b < 2 * Half
  BY WordNumbers
<1>2. cflag(a, Invert(b), 1) <=> a >= b
  BY <1>1 DEF cflag, TopSum, CarryIn, Top, Low, Invert
<1>3. vflag(a, Invert(b), 1) <=> ~Fits(Signed(a) - Signed(b))
  BY <1>1 DEF vflag, TopSum, CarryIn, Top, Low, Invert, Fits, Signed
<1>4. nflag(Wrap(a - b)) <=> (Signed(a) < Signed(b)) # ~Fits(Signed(a) - Signed(b))
  BY <1>1 DEF nflag, Wrap, Fits, Signed
<1>5. zflag(Wrap(a - b)) <=> a = b
  BY <1>1 DEF zflag, Wrap
<1> QED
  BY <1>2, <1>3, <1>4, <1>5

(* After CMP, SUB or NEG a branch is taken exactly if the two words are in *)
(* the relation that its condition stands for, whatever the size of a word *)
(* (B(1), mcu_update_nflag, zflag, cflag and vflag of mcu.c).              *)
THEOREM BranchesCompare ==
    ASSUME NEW a \in Word, NEW b \in Word, NEW cond \in Comparisons
    PROVE  Taken(cond, SubFlags(a, b)) <=> Relation(cond, a, b)
<1>1. /\ Half \in Int /\ Half > 0
      /\ a \in Int /\ 0 <= a /\ a < 2 * Half
      /\ b \in Int /\ 0 <= b /\ b < 2 * Half
  BY WordNumbers
<1>2. /\ SubFlags(a, b).c <=> a >= b
      /\ SubFlags(a, b).v <=> ~Fits(Signed(a) - Signed(b))
      /\ SubFlags(a, b).n <=> (Signed(a) < Signed(b)) # ~Fits(Signed(a) - Signed(b))
      /\ SubFlags(a, b).z <=> a = b
  BY SubtractFlags DEF SubFlags
<1>3. Signed(a) = Signed(b) <=> a = b
  BY <1>1 DEF Signed
<1>4. Signed(a) \in Int /\ Signed(b) \in Int
  BY <1>1 DEF Signed
<1>5. (SubFlags(a, b).n = SubFlags(a, b).v) <=> Signed(a) >= Signed(b)
  <2>1. SubFlags(a, b).n \in BOOLEAN /\ SubFlags(a, b).v \in BOOLEAN
    BY DEF SubFlags, nflag, vflag
  <2>2. (SubFlags(a, b).n <=> SubFlags(a, b).v) <=> ~(Signed(a) < Signed(b))
    BY <1>2
  <2>3. (SubFlags(a, b).n = SubFlags(a, b).v) <=> (SubFlags(a, b).n <=> SubFlags(a, b).v)
    BY <2>1
  <2> QED
    BY <1>4, <2>2, <2>3
<1>6. ASSUME NEW f, f = SubFlags(a, b)
      PROVE  Taken(cond, f) <=> Relation(cond, a, b)
  <2>1. /\ f.c <=> a >= b
        /\ f.v <=> ~Fits(Signed(a) - Signed(b))
        /\ f.z <=> a = b
        /\ (f.n = f.v) <=> Signed(a) >= Signed(b)
    BY <1>2, <1>5, <1>6
  <2>2. CASE cond = "eq"
    BY <2>1, <2>2 DEF Taken, Relation
  <2>3. CASE cond = "ne"
    BY <2>1, <2>3 DEF Taken, Relation
  <2>4. CASE cond = "cs"
    BY <2>1, <2>4 DEF Taken, Relation
  <2>5. CASE cond = "cc"
    BY <1>1, <2>1, <2>5 DEF Taken, Relation
  <2>6. CASE cond = "hi"
    BY <1>1, <2>1, <2>6 DEF Taken, Relation
  <2>7. CASE cond = "ls"
    BY <1>1, <2>1, <2>7 DEF Taken, Relation
  <2>8. CASE cond = "ge"
    BY <2>1, <2>8 DEF Taken, Relation
  <2>9. CASE cond = "lt"
    BY <1>4, <2>1, <2>9 DEF Taken, Relation
  <2>10. CASE cond = "gt"
    BY <1>3, <1>4, <2>1, <2>10 DEF Taken, Relation
  <2>11. CASE cond = "vs"
    BY <2>1, <2>11 DEF Taken, Relation
  <2>12. CASE cond = "vc"
    BY <2>1, <2>12 DEF Taken, Relation
  <2> QED
    BY <2>2, <2>3, <2>4, <2>5, <2>6, <2>7, <2>8, <2>9, <2>10, <2>11, <2>12
       DEF Comparisons, Conditions
<1> QED
  BY <1>6

(* After ADD the carry says that the sum of the unsigned numbers does not  *)
(* fit in a word, the overflow that the sum of the signed ones does not;   *)
(* N and Z are those of the sum that does not wrap where it fits.          *)
THEOREM SumsCarry ==
    ASSUME NEW a \in Word, NEW b \in Word
    PROVE  /\ AddFlags(a, b).c <=> a + b >= 2 * Half
           /\ AddFlags(a, b).v <=> ~Fits(Signed(a) + Signed(b))
           /\ ~AddFlags(a, b).v => (AddFlags(a, b).n <=> Signed(a) + Signed(b) < 0)
           /\ ~AddFlags(a, b).c => (AddFlags(a, b).z <=> a + b = 0)
<1>1. /\ Half \in Int /\ Half > 0
      /\ a \in Int /\ 0 <= a /\ a < 2 * Half
      /\ b \in Int /\ 0 <= b /\ b < 2 * Half
  BY WordNumbers
<1>2. cflag(a, b, 0) <=> a + b >= 2 * Half
  BY <1>1 DEF cflag, TopSum, CarryIn, Top, Low
<1>3. vflag(a, b, 0) <=> ~Fits(Signed(a) + Signed(b))
  BY <1>1 DEF vflag, TopSum, CarryIn, Top, Low, Fits, Signed
<1>4. Fits(Signed(a) + Signed(b)) => (nflag(Wrap(a + b)) <=> Signed(a) + Signed(b) < 0)
  BY <1>1 DEF nflag, Wrap, Fits, Signed
<1>5. a + b < 2 * Half => (zflag(Wrap(a + b)) <=> a + b = 0)
  BY <1>1 DEF zflag, Wrap
<1> QED
  BY <1>1, <1>2, <1>3, <1>4, <1>5 DEF AddFlags

(* SUB of the lower and SBC of the upper words compare numbers of two      *)
(* words: the carry that SUB leaves is the borrow that SBC takes, and the  *)
(* carry of SBC is the comparison of the numbers from their upper ends;    *)
(* its N and V compare them as signed numbers.                             *)
THEOREM BorrowsCompare ==
    ASSUME NEW a0 \in Word, NEW a1 \in Word, NEW b0 \in Word, NEW b1 \in Word
    PROVE  LET f == SbcFlags(a1, b1, SubFlags(a0, b0).c)
           IN  /\ f.c <=> a1 > b1 \/ (a1 = b1 /\ a0 >= b0)
               /\ (f.n <=> f.v) <=> Signed(a1) > Signed(b1) \/ (a1 = b1 /\ a0 >= b0)
<1> DEFINE one == IF a0 >= b0 THEN 1 ELSE 0
           c   == IF a0 >= b0 THEN Wrap(a1 - b1) ELSE Wrap(Wrap(a1 - b1) - 1)
<1>1. /\ Half \in Int /\ Half > 0
      /\ a1 \in Int /\ 0 <= a1 /\ a1 < 2 * Half
      /\ b1 \in Int /\ 0 <= b1 /\ b1 < 2 * Half
  BY WordNumbers
<1>2. SubFlags(a0, b0).c <=> a0 >= b0
  BY SubtractFlags DEF SubFlags
<1>3. SbcFlags(a1, b1, SubFlags(a0, b0).c) =
        [n |-> nflag(c), z |-> zflag(c), c |-> cflag(a1, Invert(b1), one),
         v |-> vflag(a1, Invert(b1), one)]
  BY <1>2 DEF SbcFlags
<1>4. CASE a0 >= b0
  <2>1. /\ cflag(a1, Invert(b1), 1) <=> a1 >= b1
        /\ vflag(a1, Invert(b1), 1) <=> ~Fits(Signed(a1) - Signed(b1))
        /\ nflag(Wrap(a1 - b1)) <=> (Signed(a1) < Signed(b1)) # ~Fits(Signed(a1) - Signed(b1))
    BY SubtractFlags
  <2>2. Signed(a1) >= Signed(b1) <=> Signed(a1) > Signed(b1) \/ a1 = b1
    BY <1>1 DEF Signed
  <2>3. (nflag(Wrap(a1 - b1)) <=> vflag(a1, Invert(b1), 1)) <=> ~(Signed(a1) < Signed(b1))
    BY <2>1
  <2>4. Signed(a1) \in Int /\ Signed(b1) \in Int
    BY <1>1 DEF Signed
  <2> QED
    BY <1>1, <1>3, <1>4, <2>1, <2>2, <2>3, <2>4
<1>5. CASE ~(a0 >= b0)
  <2>1. cflag(a1, Invert(b1), 0) <=> a1 > b1
    BY <1>1 DEF cflag, TopSum, CarryIn, Top, Low, Invert
  <2>2. (nflag(Wrap(Wrap(a1 - b1) - 1)) <=> vflag(a1, Invert(b1), 0)) <=> Signed(a1) > Signed(b1)
    BY <1>1 DEF nflag, Wrap, vflag, TopSum, CarryIn, Top, Low, Invert, Signed
  <2> QED
    BY <1>3, <1>5, <2>1, <2>2
<1> QED
  BY <1>4, <1>5
==============================================================================
