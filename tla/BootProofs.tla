----------------------------- MODULE BootProofs ------------------------------
(***************************************************************************)
(* fw_init_run implements FwInitSpec, for every table of hooks, every set  *)
(* of levels and every number of calls; and interrupts reach their drivers *)
(* from the start of the system on, for every set of drivers and lines,    *)
(* every size of the table and whatever the clients of the table do.       *)
(***************************************************************************)
EXTENDS Boot, TLAPS

(* The invariant says which hooks have been run ...                        *)
Reached(h) ==
    \/ level[h] <= last_level
    \/ last # NULL /\ (level[h] < last_called_level \/ (level[h] = last_called_level /\ h <= last))

RanExactly == \A h \in Hooks : ran[h] = IF Reached(h) THEN 1 ELSE 0

LastSound ==
    /\ last = NULL => last_called_level = last_level
    /\ last # NULL => /\ last_called_level = level[last]
                      /\ last_level < last_called_level
                      /\ Running /\ last_called_level <= Calls[call]

(* ... and that found is the best of the hooks already looked at.          *)
FoundBest ==
    LET Looked == {h \in Hooks : h < ptr /\ Running /\ ran[h] = 0 /\ level[h] <= Calls[call]}
    IN  IF found = NULL THEN Looked = {}
        ELSE /\ found \in Looked
             /\ \A h \in Looked : h = found \/ level[found] < level[h]
                                  \/ (level[found] = level[h] /\ found < h)

HookType ==
    /\ level \in [Hooks -> Levels]
    /\ call \in 1..(Len(Calls) + 1)
    /\ last_level = IF call = 1 THEN 0 ELSE Calls[call - 1]
    /\ last_called_level \in Nat
    /\ last \in 0..NumHooks /\ found \in 0..NumHooks /\ ptr \in 1..(NumHooks + 1)
    /\ seen_last \in BOOLEAN /\ (seen_last <=> last # NULL /\ last < ptr)
    /\ ran \in [Hooks -> 0..2]

(* The inductive invariant.                                                *)
HookInv == HookType /\ RanExactly /\ LastSound /\ FoundBest

-----------------------------------------------------------------------------

(* The levels of the calls are numbers, and they do not decrease.          *)
LEMMA CallsSound ==
    ASSUME HookType
    PROVE  /\ last_level \in Nat /\ Len(Calls) \in Nat
           /\ Running => Calls[call] \in Nat /\ last_level <= Calls[call]
  BY SMTT(40), FwInitAssumption DEF HookType, Running, FwInitAssumption

(* A hook's level is a number, and not 0.                                  *)
LEMMA LevelsSound ==
    ASSUME HookType, NEW h \in Hooks
    PROVE  level[h] \in Nat /\ level[h] > 0
<1>1. level[h] \in Levels
  BY DEF HookType
<1>2. level[h] \in Nat \ {0}
  BY <1>1, FwInitAssumption DEF FwInitAssumption
<1> QED
  BY <1>2

(* At the start no hook has been run and none has been found.              *)
LEMMA HookInitStep == Init => HookInv
<1> SUFFICES ASSUME Init PROVE HookInv
  OBVIOUS
<1>1. HookType
  <2>1. NumHooks \in Nat /\ Len(Calls) \in Nat
    BY FwInitAssumption DEF FwInitAssumption
  <2>2. ran \in [Hooks -> 0..2]
    BY DEF Init
  <2>3. seen_last \in BOOLEAN /\ (seen_last <=> last # NULL /\ last < ptr)
    BY DEF Init
  <2> QED
    BY <2>1, <2>2, <2>3 DEF Init, HookType, NULL
<1>2. RanExactly
  BY <1>1, LevelsSound DEF Init, RanExactly, Reached, NULL
<1>3. LastSound /\ FoundBest
  BY <1>1 DEF Init, LastSound, FoundBest, NULL, Hooks
<1> QED
  BY <1>1, <1>2, <1>3 DEF HookInv

(* Looking at one more hook keeps the best one found so far.               *)
LEMMA ScanStep ==
    ASSUME HookInv, Scan
    PROVE  HookInv'
<1> USE DEF HookInv
<1>1. HookType'
  <2>1. NumHooks \in Nat /\ ptr \in 1..NumHooks
    BY FwInitAssumption DEF FwInitAssumption, Scan, Hooks
  <2>2. ptr' \in 1..(NumHooks + 1) /\ found' \in 0..NumHooks
    BY <2>1 DEF Scan, HookType
  <2>a. seen_last' \in BOOLEAN /\ (seen_last' <=> seen_last \/ ptr = last)
    BY Zenon DEF Scan
  <2>b. (seen_last <=> last # NULL /\ last < ptr) /\ last \in 0..NumHooks
    BY DEF HookType
  <2>3. seen_last' \in BOOLEAN /\ (seen_last' <=> last # NULL /\ last <= ptr)
    BY <2>1, <2>a, <2>b DEF NULL
  <2>4. SameLevel(ptr, seen_last \/ ptr = last) => last < ptr
    BY <2>1 DEF SameLevel, HookType
  <2>5. seen_last' <=> last' # NULL /\ last' < ptr'
    BY <2>1, <2>2, <2>3, <2>4 DEF Scan, HookType
  <2> QED
    BY <2>2, <2>3, <2>5 DEF Scan, HookType
<1>2. RanExactly'
  BY DEF Scan, RanExactly, Reached
<1>3. LastSound'
  BY DEF Scan, LastSound, Running
<1>4. FoundBest'
  <2> DEFINE seen == seen_last \/ ptr = last
             Open(h) == ran[h] = 0 /\ level[h] <= Calls[call]
  <2>1. /\ ptr \in Hooks /\ ptr \in Nat /\ ptr > 0 /\ ptr <= NumHooks
        /\ Running /\ NumHooks \in Nat
    BY FwInitAssumption DEF Scan, Hooks, FwInitAssumption
  <2>2. \A h \in Hooks : h \in Nat /\ h > 0 /\ h <= NumHooks /\ level[h] \in Nat /\ level[h] > 0
    BY LevelsSound, FwInitAssumption DEF Hooks, FwInitAssumption
  <2>3. /\ last_level \in Nat /\ last_called_level \in Nat /\ Calls[call] \in Nat
        /\ last_level <= last_called_level /\ last \in Nat
    BY CallsSound, <2>1, FwInitAssumption DEF HookType, LastSound, NULL, FwInitAssumption
  <2>4. seen <=> (last # NULL /\ last <= ptr)
    BY <2>1, <2>3 DEF HookType, NULL
  <2>5. \A h \in Hooks : ran[h] = 0 <=> ~Reached(h)
    BY DEF RanExactly
  <2>6. \A h \in Hooks : ran[h] = 0 => level[h] >= last_called_level
    BY <2>2, <2>3, <2>5 DEF Reached, LastSound, NULL
  <2>7. NewLevel(ptr) => ran[ptr] = 0
    BY <2>1, <2>2, <2>3, <2>5 DEF NewLevel, Reached
  <2>8. SameLevel(ptr, seen) => /\ ran[ptr] = 0
                                /\ \A h \in Hooks : h < ptr /\ level[h] = last_called_level
                                                     => (ran[h] = 0 => h > last)
    BY <2>1, <2>2, <2>3, <2>4, <2>5 DEF SameLevel, Reached, LastSound, NULL
  <2>9. ran[ptr] = 0 => NewLevel(ptr) \/ SameLevel(ptr, seen)
    BY <2>1, <2>2, <2>3, <2>4, <2>5, <2>6 DEF NewLevel, SameLevel, Reached, LastSound, NULL
  <2>10. found = NULL => \A h \in Hooks : ~(h < ptr /\ Open(h))
    BY <2>1 DEF FoundBest
  <2>11. found # NULL =>
           /\ found \in Hooks /\ found < ptr /\ Open(found)
           /\ \A h \in Hooks : h < ptr /\ Open(h) =>
                 \/ h = found \/ level[found] < level[h]
                 \/ level[found] = level[h] /\ found < h
    BY <2>1 DEF FoundBest
  <2>12. ASSUME \/ /\ found' = NULL
                   /\ \A h \in Hooks : ~(h < ptr' /\ Open(h))
                \/ /\ found' # NULL
                   /\ found' \in Hooks /\ found' < ptr' /\ Open(found')
                   /\ \A h \in Hooks : h < ptr' /\ Open(h) =>
                         \/ h = found' \/ level[found'] < level[h]
                         \/ level[found'] = level[h] /\ found' < h
         PROVE  FoundBest'
    BY <2>1, <2>12 DEF FoundBest, Scan, Running
  <2>13. found # NULL => found \in Nat /\ level[found] \in Nat
    BY <2>2, <2>11
  <2> HIDE DEF HookInv, Open
  <2>14. CASE ~Skips(ptr) /\ NewLevel(ptr) /\ found' = ptr /\ ptr' = ptr + 1
    <3>1. level[ptr] <= Calls[call] /\ Open(ptr) /\ (found = NULL \/ level[ptr] < level[found])
      <4>1. level[ptr] <= Calls[call]
        BY <2>14, <2>1, <2>2, <2>3 DEF Skips
      <4>2. Open(ptr)
        BY <4>1, <2>14, <2>7 DEF Open
      <4>3. found # NULL => level[ptr] < level[found]
        <5>1. ~(found # NULL /\ level[found] <= level[ptr])
          BY <2>14 DEF Skips
        <5> QED
          BY <5>1, <2>1, <2>2, <2>13
      <4> QED
        BY <4>1, <4>2, <4>3
    <3>2. \A h \in Hooks : h < ptr' => h < ptr \/ h = ptr
      BY <2>14, <2>1, <2>2
    <3>3. \A h \in Hooks : h < ptr /\ Open(h) => level[ptr] < level[h]
      BY <3>1, <2>1, <2>2, <2>10, <2>11, <2>13
    <3> QED
      BY <3>1, <3>2, <3>3, <2>14, <2>1, <2>12 DEF NULL
  <2>15. CASE ~Skips(ptr) /\ SameLevel(ptr, seen) /\ found' = ptr /\ ptr' = NumHooks + 1
    <3>1. level[ptr] <= Calls[call] /\ Open(ptr) /\ level[ptr] = last_called_level
      BY <2>15, <2>1, <2>2, <2>3, <2>8 DEF Skips, SameLevel, Open
    <3>2. \A h \in Hooks : h < ptr /\ Open(h) => level[ptr] < level[h]
      <4>1. found # NULL => level[ptr] < level[found]
        BY <2>15, <2>1, <2>2, <2>13 DEF Skips
      <4> QED
        BY <4>1, <2>1, <2>2, <2>10, <2>11, <2>13
    <3>3. \A h \in Hooks : h > ptr /\ Open(h) => level[ptr] <= level[h]
      BY <3>1, <2>2, <2>3, <2>6 DEF Open
    <3> QED
      BY <3>1, <3>2, <3>3, <2>15, <2>1, <2>2, <2>12 DEF NULL
  <2>16. CASE /\ Skips(ptr) \/ ~(NewLevel(ptr) \/ SameLevel(ptr, seen))
              /\ found' = found /\ ptr' = ptr + 1
    <3>1. \A h \in Hooks : h < ptr' => h < ptr \/ h = ptr
      BY <2>16, <2>1, <2>2
    <3>2. Open(ptr) => found # NULL /\ level[found] <= level[ptr]
      BY <2>16, <2>1, <2>2, <2>3, <2>6, <2>9 DEF Skips, Open
    <3>3. CASE found = NULL
      BY <3>1, <3>2, <3>3, <2>16, <2>10, <2>12
    <3>4. CASE found # NULL
      BY <3>1, <3>2, <3>4, <2>16, <2>1, <2>2, <2>11, <2>12, <2>13
    <3> QED
      BY <3>3, <3>4
  <2> QED
    BY <2>14, <2>15, <2>16 DEF Scan
<1> QED
  BY <1>1, <1>2, <1>3, <1>4

(* The hook that is run comes after all that were run and before the rest. *)
LEMMA RunHookStep ==
    ASSUME HookInv, RunHook
    PROVE  HookInv' /\ Abstract!Run(found)
<1>1. NumHooks \in Nat /\ Running /\ ptr = NumHooks + 1 /\ found # NULL
  BY FwInitAssumption DEF FwInitAssumption, RunHook
<1>2. \A h \in Hooks : h \in Nat /\ h > 0 /\ h <= NumHooks /\ level[h] \in Nat /\ level[h] > 0
  BY LevelsSound, FwInitAssumption DEF HookInv, Hooks, FwInitAssumption
<1>3. /\ found \in Hooks /\ ran[found] = 0 /\ level[found] <= Calls[call]
      /\ \A h \in Hooks : ran[h] = 0 /\ level[h] <= Calls[call] =>
            h = found \/ level[found] < level[h] \/ (level[found] = level[h] /\ found < h)
  BY <1>1, <1>2 DEF HookInv, FoundBest
<1>4. Abstract!Run(found)
  <2>1. Abstract!Pending = {h \in Hooks : ran[h] = 0 /\ level[h] <= Calls[call]}
    BY <1>1 DEF Abstract!Pending, Abstract!Hooks, Hooks, Running
  <2> QED
    BY <1>3, <2>1 DEF Abstract!Run, Abstract!Before, RunHook
<1>5. /\ last_level \in Nat /\ last_called_level \in Nat /\ Calls[call] \in Nat
      /\ last_level <= last_called_level /\ last \in Nat
  BY CallsSound, <1>1, FwInitAssumption DEF HookInv, HookType, LastSound, NULL, FwInitAssumption
<1>6. HookType'
  <2>1. ran' \in [Hooks -> 0..2]
    BY <1>3 DEF RunHook, HookInv, HookType
  <2>a. seen_last' = FALSE /\ last' = found /\ ptr' = 1
    BY DEF RunHook
  <2>b. ~(last' < ptr')
    BY <2>a, <1>2, <1>3
  <2>2. seen_last' \in BOOLEAN /\ (seen_last' <=> last' # NULL /\ last' < ptr')
    BY <2>a, <2>b, Zenon
  <2> QED
    BY <1>1, <1>2, <1>3, <2>1, <2>2 DEF RunHook, HookInv, HookType, NULL
<1>7. last_level < level[found] /\ last_called_level <= level[found]
  BY <1>2, <1>3, <1>5 DEF HookInv, RanExactly, Reached, LastSound, NULL
<1>8. LastSound'
  BY <1>1, <1>2, <1>3, <1>7 DEF RunHook, LastSound, Running, NULL
<1>9. RanExactly'
  <2> SUFFICES ASSUME NEW h \in Hooks
               PROVE  ran'[h] = IF Reached(h)' THEN 1 ELSE 0
    BY DEF RanExactly
  <2>1. Reached(h)' <=> \/ level[h] <= last_level \/ level[h] < level[found]
                        \/ level[h] = level[found] /\ h <= found
    BY <1>1 DEF Reached, RunHook
  <2>2. ran[h] = IF Reached(h) THEN 1 ELSE 0
    BY DEF HookInv, RanExactly
  <2>3. CASE h = found
    BY <2>1, <2>3, <1>2, <1>3 DEF RunHook, HookInv, HookType
  <2>4. CASE h # found
    <3>1. ran'[h] = ran[h]
      BY <2>4 DEF RunHook, HookInv, HookType
    <3>2. Reached(h) => Reached(h)'
      BY <2>1, <1>2, <1>3, <1>5, <1>7, <2>4 DEF Reached, HookInv, LastSound, RanExactly
    <3>3. Reached(h)' => Reached(h)
      <4>1. Reached(h)' => level[h] <= Calls[call]
        BY <2>1, <1>2, <1>3, <1>5, CallsSound, <1>1 DEF HookInv
      <4> QED
        BY <4>1, <2>1, <2>2, <2>4, <1>2, <1>3, <1>5 DEF Reached
    <3> QED
      BY <3>1, <3>2, <3>3, <2>2
  <2> QED
    BY <2>3, <2>4
<1>10. FoundBest'
  BY <1>2 DEF RunHook, FoundBest, NULL
<1> QED
  BY <1>4, <1>6, <1>8, <1>9, <1>10 DEF HookInv

(* When nothing is found, all hooks up to the level of the call were run.  *)
LEMMA ReturnStep ==
    ASSUME HookInv, Return
    PROVE  HookInv' /\ Abstract!Return
<1>1. /\ NumHooks \in Nat /\ Running /\ ptr = NumHooks + 1 /\ found = NULL
      /\ Len(Calls) \in Nat /\ call \in Nat /\ call >= 1 /\ call <= Len(Calls)
  BY FwInitAssumption DEF FwInitAssumption, Return, HookInv, HookType, Running
<1>2. \A h \in Hooks : h \in Nat /\ h > 0 /\ h <= NumHooks /\ level[h] \in Nat /\ level[h] > 0
  BY LevelsSound, FwInitAssumption DEF HookInv, Hooks, FwInitAssumption
<1>3. \A h \in Hooks : ~(ran[h] = 0 /\ level[h] <= Calls[call])
  BY <1>1, <1>2 DEF HookInv, FoundBest
<1>4. Abstract!Return
  <2>1. Abstract!Pending = {}
    BY <1>1, <1>3 DEF Abstract!Pending, Abstract!Hooks, Hooks
  <2> QED
    BY <1>1, <2>1 DEF Abstract!Return, Return
<1>5. /\ last_level \in Nat /\ last_called_level \in Nat /\ Calls[call] \in Nat
      /\ last_level <= Calls[call] /\ last \in Nat
  BY CallsSound, <1>1, FwInitAssumption DEF HookInv, HookType, FwInitAssumption
<1>6. HookType'
  <2>1. seen_last' = FALSE /\ last' = NULL
    BY DEF Return
  <2>2. seen_last' \in BOOLEAN /\ (seen_last' <=> last' # NULL /\ last' < ptr')
    BY <2>1, Zenon
  <2>3. call' = call + 1 /\ last_level' = Calls[call] /\ last_called_level' = Calls[call]
    BY DEF Return
  <2>4. last_level' = IF call' = 1 THEN 0 ELSE Calls[call' - 1]
    BY <2>3, <1>1
  <2> QED
    BY <1>1, <1>5, <2>1, <2>2, <2>3, <2>4 DEF Return, HookInv, HookType, NULL
<1>7. LastSound'
  BY DEF Return, LastSound
<1>8. RanExactly'
  <2> SUFFICES ASSUME NEW h \in Hooks
               PROVE  ran'[h] = IF Reached(h)' THEN 1 ELSE 0
    BY DEF RanExactly
  <2>1. Reached(h)' <=> level[h] <= Calls[call]
    BY DEF Reached, Return
  <2>2. ran'[h] = ran[h] /\ ran[h] = IF Reached(h) THEN 1 ELSE 0
    BY DEF Return, HookInv, RanExactly
  <2>3. Reached(h) => level[h] <= Calls[call]
    BY <1>1, <1>2, <1>5 DEF Reached, HookInv, LastSound
  <2> QED
    BY <2>1, <2>2, <2>3, <1>3
<1>9. FoundBest'
  BY <1>1, <1>2 DEF Return, FoundBest, NULL
<1> QED
  BY <1>4, <1>6, <1>7, <1>8, <1>9 DEF HookInv

(* The invariant is kept by every step of fw_init_run.                     *)
LEMMA HookNextStep == HookInv /\ [Next]_vars => HookInv'
<1> SUFFICES ASSUME HookInv, [Next]_vars PROVE HookInv'
  OBVIOUS
<1>1. CASE Scan
  BY <1>1, ScanStep
<1>2. CASE RunHook
  BY <1>2, RunHookStep
<1>3. CASE Return
  BY <1>3, ReturnStep
<1>4. CASE UNCHANGED vars
  BY <1>4 DEF vars, HookInv, HookType, RanExactly, Reached, LastSound, FoundBest, Running
<1> QED
  BY <1>1, <1>2, <1>3, <1>4 DEF Next, Main

(* A step of the start is one of fw_init_run, or leaves its state alone.   *)
LEMMA StartIsFwInit == [BootNext]_bootVars => [Next]_vars
<1> SUFFICES ASSUME [BootNext]_bootVars PROVE [Next]_vars
  OBVIOUS
<1>1. CASE FwInitStep
  BY <1>1 DEF FwInitStep, Next
<1>2. CASE arch_init_idle_thread
  BY <1>2 DEF arch_init_idle_thread, Next
<1>3. ASSUME NEW d, DriverStep(d) \/ LateStep(d) PROVE UNCHANGED vars
  BY <1>3 DEF DriverStep, LateStep
<1>4. CASE TableStep
  BY <1>4 DEF TableStep
<1>5. CASE UNCHANGED bootVars
  BY <1>5 DEF bootVars
<1> QED
  BY <1>1, <1>2, <1>3, <1>4, <1>5 DEF BootNext, firmware_main

(* The invariant holds in every state.                                     *)
LEMMA HookInvariance == BootSpec => []HookInv
<1>1. BootInit => HookInv
  BY HookInitStep DEF BootInit
<1>2. HookInv /\ [BootNext]_bootVars => HookInv'
  BY HookNextStep, StartIsFwInit
<1> QED
  BY <1>1, <1>2, PTL DEF BootSpec

(* The scan of fw_init_run finds the right hook, whatever the table, the   *)
(* levels and the calls: each hook is run once, by level and then in the   *)
(* table's order, by the call it belongs to; also when interrupts come in  *)
(* between.                                                                *)
THEOREM RunsHooksInOrder == BootSpec => ImplementsFwInitSpec
<1>1. BootInit => Abstract!Init
  BY DEF BootInit, Init, Abstract!Init, Abstract!Hooks, Hooks
<1>2. HookInv /\ [Next]_vars => [Abstract!Next]_<<level, call, ran>>
  <2> SUFFICES ASSUME HookInv, [Next]_vars
               PROVE  [Abstract!Next]_<<level, call, ran>>
    OBVIOUS
  <2>1. CASE Scan
    BY <2>1 DEF Scan
  <2>2. CASE RunHook
    <3>1. found \in Abstract!Hooks
      BY <2>2, RunHookStep DEF Abstract!Run, Abstract!Pending
    <3> QED
      BY <2>2, <3>1, RunHookStep DEF Abstract!Next
  <2>3. CASE Return
    BY <2>3, ReturnStep DEF Abstract!Next
  <2>4. CASE UNCHANGED vars
    BY <2>4 DEF vars
  <2> QED
    BY <2>1, <2>2, <2>3, <2>4 DEF Next, Main
<1>3. HookInv /\ [BootNext]_bootVars => [Abstract!Next]_<<level, call, ran>>
  BY <1>2, StartIsFwInit
<1> QED
  BY <1>1, <1>3, HookInvariance, PTL DEF BootSpec, ImplementsFwInitSpec, Abstract!Spec

-----------------------------------------------------------------------------

(* HardFault has its handler exactly when the idle hook has been run.      *)
ErrorRegistered ==
    /\ DOMAIN entries = 0..NUMBER_OF_IRQS - 1
    /\ idle \in Hooks /\ level[idle] = Calls[2]
    /\ entries[IRQ_HARDFAULT] = IF ran[idle] = 0 THEN None ELSE "error"

(* Nobody else writes the entry, and only the idle hook's run changes the  *)
(* number of its runs.                                                     *)
LEMMA ErrorRegisteredStep ==
    ASSUME HookInv, ErrorRegistered, [BootNext]_bootVars
    PROVE  ErrorRegistered'
<1>1. IRQ_HARDFAULT \in 0..NUMBER_OF_IRQS - 1 /\ NUMBER_OF_IRQS \in Nat
  BY IrqAssumption DEF IrqAssumption, IRQ_HARDFAULT
<1>2. CASE FwInitStep
  <2>1. entries' = entries /\ idle' = idle /\ level' = level
    BY <1>2 DEF FwInitStep, irqVars, Scan, Return, RunHook
  <2>2. ran'[idle] = ran[idle]
    BY <1>2 DEF FwInitStep, Scan, Return, RunHook, HookInv, HookType, ErrorRegistered
  <2> QED
    BY <2>1, <2>2 DEF ErrorRegistered
<1>3. CASE arch_init_idle_thread
  <2>1. idle' = idle /\ level' = level /\ found = idle
    BY <1>3 DEF arch_init_idle_thread, RunHook
  <2>2. ran'[idle] # 0
    BY <1>3, <2>1 DEF arch_init_idle_thread, RunHook, HookInv, HookType, ErrorRegistered
  <2>3. DOMAIN entries' = DOMAIN entries /\ entries'[IRQ_HARDFAULT] = "error"
    <3>1. CASE ran[idle] = 0
      <4>1. CanRegister(IRQ_HARDFAULT)
        BY <1>1, <3>1 DEF CanRegister, ErrorRegistered
      <4>2. entries' = [entries EXCEPT ![IRQ_HARDFAULT] = "error"]
        BY <1>3, <4>1 DEF arch_init_idle_thread, RegistersError
      <4> QED
        BY <1>1, <4>2 DEF ErrorRegistered
    <3>2. CASE ran[idle] # 0
      <4>1. ~CanRegister(IRQ_HARDFAULT)
        BY <3>2, IrqAssumption DEF CanRegister, ErrorRegistered, IrqAssumption
      <4> QED
        BY <1>3, <3>2, <4>1 DEF arch_init_idle_thread, RegistersError, ErrorRegistered
    <3> QED
      BY <3>1, <3>2
  <2> QED
    BY <2>1, <2>2, <2>3 DEF ErrorRegistered
<1>4. ASSUME NEW d \in DOMAIN Drivers, DriverStep(d) \/ LateStep(d) PROVE ErrorRegistered'
  <2>1. idle' = idle /\ level' = level /\ ran' = ran
    BY <1>4 DEF DriverStep, LateStep, vars
  <2>2. Drivers[d] # IRQ_HARDFAULT
    <3>1. Drivers[d] \in Range(Drivers)
      BY DEF Range
    <3> QED
      BY <3>1, IrqAssumption DEF IrqAssumption, IRQ_HARDFAULT, IRQ_SYSTICK
  <2>3. entries' = entries \/ entries' = [entries EXCEPT ![Drivers[d]] = d]
    BY <1>4 DEF DriverStep, LateStep, DriverRegisters, DriverEnables
  <2> QED
    BY <1>1, <2>1, <2>2, <2>3 DEF ErrorRegistered
<1>5. CASE TableStep
  <2>1. idle' = idle /\ level' = level /\ ran' = ran
    BY <1>5 DEF TableStep, vars
  <2>2. \/ entries' = entries
        \/ \E n \in Clients, h \in {"client", None} : entries' = [entries EXCEPT ![n] = h]
    BY <1>5 DEF TableStep, irq_register, irq_unregister, Exception
  <2>3. IRQ_HARDFAULT \notin Clients
    BY IrqAssumption DEF IrqAssumption
  <2> QED
    BY <1>1, <2>1, <2>2, <2>3 DEF ErrorRegistered
<1>6. CASE UNCHANGED bootVars
  BY <1>6 DEF bootVars, vars, irqVars, ErrorRegistered
<1> QED
  BY <1>2, <1>3, <1>4, <1>5, <1>6, BootAssumption DEF BootNext, firmware_main, BootAssumption

(* When firmware_main makes its third call the handler of HardFault is     *)
(* registered, wherever the linker has put the hook idle_thread and        *)
(* whatever else there is in the table.                                    *)
THEOREM FaultsHandled == BootSpec => []FaultsCaught
<1>1. BootInit => ErrorRegistered
  <2> SUFFICES ASSUME BootInit PROVE ErrorRegistered
    OBVIOUS
  <2>1. IRQ_HARDFAULT \in 0..NUMBER_OF_IRQS - 1
    BY IrqAssumption DEF IrqAssumption, IRQ_HARDFAULT
  <2> QED
    BY <2>1 DEF BootInit, Init, IrqInit, ErrorRegistered
<1>2. HookInv /\ ErrorRegistered /\ [BootNext]_bootVars => ErrorRegistered'
  BY ErrorRegisteredStep
<1>3. HookInv /\ ErrorRegistered => FaultsCaught
  <2> SUFFICES ASSUME HookInv, ErrorRegistered, call > 2 PROVE entries[IRQ_HARDFAULT] = "error"
    BY DEF FaultsCaught
  <2>1. /\ call \in Nat /\ Len(Calls) \in Nat /\ call <= Len(Calls) + 1
        /\ last_level = Calls[call - 1]
    BY FwInitAssumption DEF HookInv, HookType, FwInitAssumption
  <2>2. call - 1 \in 1..Len(Calls) /\ 2 \in 1..Len(Calls) /\ 2 <= call - 1
    BY <2>1
  <2>3. Calls[2] <= Calls[call - 1]
    BY <2>2, FwInitAssumption DEF FwInitAssumption
  <2>4. Reached(idle)
    BY <2>1, <2>3 DEF ErrorRegistered, Reached
  <2>5. ran[idle] = 1
    BY <2>4 DEF HookInv, RanExactly, ErrorRegistered
  <2> QED
    BY <2>5 DEF ErrorRegistered
<1> QED
  BY <1>1, <1>2, <1>3, HookInvariance, PTL DEF BootSpec

-----------------------------------------------------------------------------

TableType ==
    /\ entries \in [0..NUMBER_OF_IRQS - 1 -> Handlers \cup {None}]
    /\ at \in [DOMAIN Drivers -> {"register", "enable", "done"}]

(* The entry of a driver is its own from the moment it registers.          *)
EntriesOwned ==
    /\ entries[IRQ_HARDFAULT] \in {None, "error"}
    /\ \A d \in DOMAIN Drivers :
          entries[Drivers[d]] = IF at[d] = "register" THEN None ELSE d

(* What may be raised: the faults, and the lines of drivers that are done. *)
EnabledSound ==
    \A x \in enabled :
        x \in Faults \/ \E d \in DOMAIN Drivers : at[d] = "done" /\ x = EnabledBy(Drivers[d])

(* The inductive invariant.                                                *)
TableInv == TableType /\ EntriesOwned /\ EnabledSound /\ NoStrayInterrupt

-----------------------------------------------------------------------------

(* The irq numbers of drivers are in the table and are not IRQ_HARDFAULT's.*)
LEMMA Numbers ==
    ASSUME NEW d \in DOMAIN Drivers
    PROVE  /\ Drivers[d] \in Int /\ 6 <= Drivers[d] /\ Drivers[d] < NUMBER_OF_IRQS
           /\ Drivers[d] <= 38 /\ NUMBER_OF_IRQS \in Int /\ NUMBER_OF_IRQS >= 8
           /\ Drivers[d] \in 0..NUMBER_OF_IRQS - 1 /\ Drivers[d] # IRQ_HARDFAULT
           /\ Drivers[d] \notin Clients
           /\ d \notin {"client", "error", None}
<1>1. Drivers[d] \in Range(Drivers)
  BY DEF Range
<1>2. Drivers[d] \in IRQ_SYSTICK..NUMBER_OF_IRQS - 1 /\ NUMBER_OF_IRQS \in 8..39
  BY <1>1, IrqAssumption DEF IrqAssumption
<1>3. Drivers[d] \notin Clients /\ d \notin {"client", "error", None}
  BY <1>1, IrqAssumption DEF IrqAssumption
<1> QED
  BY <1>2, <1>3 DEF IRQ_SYSTICK, IRQ_HARDFAULT

(* arch_dispatch_irq takes the exception of a driver's line to the number  *)
(* the driver registered under, and that is the one of arch/irq.h.         *)
LEMMA Dispatched ==
    ASSUME NEW d \in DOMAIN Drivers
    PROVE  /\ Adjust(EnabledBy(Drivers[d])) = Drivers[d]
           /\ Defined(EnabledBy(Drivers[d])) = Drivers[d]
<1>1. CASE Drivers[d] = IRQ_SYSTICK
  BY <1>1 DEF EnabledBy, Adjust, Defined, IRQ_SYSTICK
<1>2. CASE Drivers[d] # IRQ_SYSTICK
  <2>1. Drivers[d] \in Int /\ 7 <= Drivers[d] /\ Drivers[d] <= 38
    BY <1>2, Numbers DEF IRQ_SYSTICK
  <2>2. (Drivers[d] - 7) % 32 = Drivers[d] - 7
    BY <2>1
  <2>3. EnabledBy(Drivers[d]) = Drivers[d] + 9
    BY <1>2, <2>1, <2>2 DEF EnabledBy
  <2> QED
    BY <2>1, <2>3 DEF Adjust, Defined, IRQ0
<1> QED
  BY <1>1, <1>2

(* NMI and HardFault keep their number.                                    *)
LEMMA FaultsDispatched ==
    ASSUME NEW x, x \in {2, 3}
    PROVE  Adjust(x) = x /\ Defined(x) = x
  BY DEF Adjust, Defined, IRQ_NMI, IRQ_HARDFAULT

(* What do_irq runs is a handler: that of a driver for the driver's line.  *)
LEMMA HandlerFound ==
    ASSUME TableInv, NEW x \in enabled
    PROVE  \/ x \in Faults
           \/ \E d \in DOMAIN Drivers : x = EnabledBy(Drivers[d]) /\ do_irq(Adjust(x)) = d
<1>1. CASE x \in Faults
  BY <1>1
<1>2. CASE x \notin Faults
  <2>1. PICK d \in DOMAIN Drivers : at[d] = "done" /\ x = EnabledBy(Drivers[d])
    BY <1>2 DEF TableInv, EnabledSound
  <2>2. entries[Drivers[d]] = d /\ d # None
    BY <2>1, Numbers DEF TableInv, EntriesOwned
  <2> QED
    BY <2>1, <2>2, Dispatched DEF do_irq
<1> QED
  BY <1>1, <1>2

-----------------------------------------------------------------------------

(* The table is empty at the start.                                        *)
LEMMA TableInitStep == IrqInit => TableInv
<1> SUFFICES ASSUME IrqInit PROVE TableInv
  OBVIOUS
<1>1. TableType
  BY DEF IrqInit, TableType, Handlers
<1>2. EntriesOwned
  <2>1. entries[IRQ_HARDFAULT] = None
    BY IrqAssumption DEF IrqInit, IRQ_HARDFAULT, IrqAssumption
  <2>2. ASSUME NEW d \in DOMAIN Drivers PROVE entries[Drivers[d]] = None /\ at[d] = "register"
    BY Numbers DEF IrqInit
  <2> QED
    BY <2>1, <2>2 DEF EntriesOwned
<1>3. EnabledSound
  BY DEF IrqInit, EnabledSound
<1>4. NoStrayInterrupt
  BY DEF IrqInit, NoStrayInterrupt
<1> QED
  BY <1>1, <1>2, <1>3, <1>4 DEF TableInv

(* A driver finds its entry empty, and takes no other driver's.            *)
LEMMA RegisterStep ==
    ASSUME TableInv, NEW d \in DOMAIN Drivers, DriverRegisters(d)
    PROVE  TableInv'
<1>1. entries[Drivers[d]] = None /\ CanRegister(Drivers[d])
  BY Numbers DEF TableInv, EntriesOwned, DriverRegisters, CanRegister
<1>2. /\ entries' = [entries EXCEPT ![Drivers[d]] = d]
      /\ at' = [at EXCEPT ![d] = "enable"]
      /\ halted' = halted /\ enabled' = enabled
      /\ at[d] = "register"
  BY <1>1 DEF DriverRegisters
<1>3. TableType'
  BY <1>2 DEF TableInv, TableType, Handlers
<1>4. EntriesOwned'
  <2>1. entries'[IRQ_HARDFAULT] = entries[IRQ_HARDFAULT]
    BY <1>2, Numbers DEF TableInv, EntriesOwned, TableType
  <2>2. ASSUME NEW e \in DOMAIN Drivers
        PROVE  entries'[Drivers[e]] = IF at'[e] = "register" THEN None ELSE e
    <3>1. CASE e = d
      BY <1>2, <3>1, Numbers DEF TableInv, TableType
    <3>2. CASE e # d
      <4>1. Drivers[e] # Drivers[d]
        BY <3>2, IrqAssumption DEF IrqAssumption, IsInjective
      <4> QED
        BY <1>2, <3>2, <4>1, Numbers DEF TableInv, TableType, EntriesOwned
    <3> QED
      BY <3>1, <3>2
  <2> QED
    BY <2>1, <2>2 DEF TableInv, EntriesOwned
<1>5. EnabledSound'
  <2> SUFFICES ASSUME NEW x \in enabled', x \notin Faults
               PROVE  \E e \in DOMAIN Drivers : at'[e] = "done" /\ x = EnabledBy(Drivers[e])
    BY DEF EnabledSound
  <2>1. PICK e \in DOMAIN Drivers : at[e] = "done" /\ x = EnabledBy(Drivers[e])
    BY <1>2 DEF TableInv, EnabledSound
  <2>2. e # d
    BY <1>2, <2>1
  <2> QED
    BY <1>2, <2>1, <2>2 DEF TableInv, TableType
<1>6. NoStrayInterrupt'
  BY <1>2 DEF TableInv, NoStrayInterrupt
<1> QED
  BY <1>3, <1>4, <1>5, <1>6 DEF TableInv

(* A driver that enables its line has registered before.                   *)
LEMMA EnableStep ==
    ASSUME TableInv, NEW d \in DOMAIN Drivers, DriverEnables(d)
    PROVE  TableInv'
<1>1. /\ entries' = entries /\ halted' = halted
      /\ at' = [at EXCEPT ![d] = "done"] /\ at[d] = "enable"
      /\ enabled' = enabled \cup {EnabledBy(Drivers[d])}
  BY DEF DriverEnables
<1>2. TableType'
  BY <1>1 DEF TableInv, TableType
<1>3. EntriesOwned'
  BY <1>1 DEF TableInv, TableType, EntriesOwned
<1>4. EnabledSound'
  <2> SUFFICES ASSUME NEW x \in enabled', x \notin Faults
               PROVE  \E e \in DOMAIN Drivers : at'[e] = "done" /\ x = EnabledBy(Drivers[e])
    BY DEF EnabledSound
  <2>1. CASE x = EnabledBy(Drivers[d])
    BY <1>1, <2>1 DEF TableInv, TableType
  <2>2. CASE x \in enabled
    BY <1>1, <2>2 DEF TableInv, TableType, EnabledSound
  <2> QED
    BY <1>1, <2>1, <2>2
<1>5. NoStrayInterrupt'
  BY <1>1 DEF TableInv, NoStrayInterrupt
<1> QED
  BY <1>2, <1>3, <1>4, <1>5 DEF TableInv

(* error takes the entry of HardFault, which is no driver's.               *)
LEMMA ErrorStep ==
    ASSUME TableInv, RegistersError
    PROVE  TableInv'
<1>1. at' = at /\ halted' = halted /\ enabled' = enabled
  BY DEF RegistersError
<1>2. entries' = entries \/ entries' = [entries EXCEPT ![IRQ_HARDFAULT] = "error"]
  BY DEF RegistersError
<1>3. IRQ_HARDFAULT \in 0..NUMBER_OF_IRQS - 1
  BY IrqAssumption DEF IrqAssumption, IRQ_HARDFAULT
<1>4. TableType'
  BY <1>1, <1>2, <1>3 DEF TableInv, TableType, Handlers
<1>5. EntriesOwned'
  <2>1. entries'[IRQ_HARDFAULT] \in {None, "error"}
    BY <1>2, <1>3 DEF TableInv, TableType, EntriesOwned
  <2>2. ASSUME NEW d \in DOMAIN Drivers PROVE entries'[Drivers[d]] = entries[Drivers[d]]
    BY <1>2, <1>3, Numbers DEF TableInv, TableType
  <2> QED
    BY <1>1, <2>1, <2>2 DEF TableInv, EntriesOwned
<1> QED
  BY <1>1, <1>4, <1>5 DEF TableInv, EnabledSound, NoStrayInterrupt

(* The clients of the table change neither a driver's entry nor error's.   *)
LEMMA ClientStep ==
    ASSUME TableInv, NEW n \in Clients, irq_register(n) \/ irq_unregister(n)
    PROVE  TableInv'
<1>1. /\ n < NUMBER_OF_IRQS /\ n \in Nat /\ n # IRQ_HARDFAULT
      /\ at' = at /\ halted' = halted /\ enabled' = enabled
  BY IrqAssumption DEF irq_register, irq_unregister, CanRegister, CanUnregister, IrqAssumption
<1>2. PICK h \in {"client", None} : entries' = [entries EXCEPT ![n] = h]
  BY DEF irq_register, irq_unregister
<1>3. TableType'
  BY <1>1, <1>2 DEF TableInv, TableType, Handlers
<1>4. EntriesOwned'
  <2>1. entries'[IRQ_HARDFAULT] = entries[IRQ_HARDFAULT]
    BY <1>1, <1>2 DEF TableInv, TableType, EntriesOwned
  <2>2. ASSUME NEW d \in DOMAIN Drivers PROVE entries'[Drivers[d]] = entries[Drivers[d]]
    BY <1>1, <1>2, Numbers DEF TableInv, TableType
  <2> QED
    BY <1>1, <2>1, <2>2 DEF TableInv, EntriesOwned
<1> QED
  BY <1>1, <1>3, <1>4 DEF TableInv, EnabledSound, NoStrayInterrupt

(* An exception changes no entry; only a fault ends in error.              *)
LEMMA ExceptionStep ==
    ASSUME TableInv, NEW x \in enabled, Exception(x)
    PROVE  TableInv'
<1>1. entries' = entries /\ at' = at /\ enabled' = enabled
  BY DEF Exception
<1>2. NoStrayInterrupt'
  <2>1. CASE x \in Faults
    BY <2>1 DEF Exception, NoStrayInterrupt
  <2>2. CASE x \notin Faults
    <3>1. PICK d \in DOMAIN Drivers : do_irq(Adjust(x)) = d
      BY <2>2, HandlerFound
    <3>2. called' = d /\ d \notin {"error", None}
      BY <3>1, Numbers DEF Exception
    <3> QED
      BY <3>2 DEF Exception, NoStrayInterrupt
  <2> QED
    BY <2>1, <2>2
<1> QED
  BY <1>1, <1>2 DEF TableInv, TableType, EntriesOwned, EnabledSound

(* The invariant is kept by every step.                                    *)
LEMMA IrqStep == TableInv /\ [IrqNext]_irqVars => TableInv'
<1> SUFFICES ASSUME TableInv, [IrqNext]_irqVars PROVE TableInv'
  OBVIOUS
<1>1. CASE UNCHANGED irqVars
  BY <1>1 DEF irqVars, TableInv, TableType, EntriesOwned, EnabledSound, NoStrayInterrupt
<1>2. CASE IrqNext
  BY <1>2, ErrorStep, RegisterStep, EnableStep, ClientStep, ExceptionStep DEF IrqNext
<1> QED
  BY <1>1, <1>2

(* A step of the start is one of the table, or leaves the table alone.     *)
LEMMA StartIsIrq == [BootNext]_bootVars => [IrqNext]_irqVars
<1> SUFFICES ASSUME [BootNext]_bootVars PROVE [IrqNext]_irqVars
  OBVIOUS
<1>1. CASE FwInitStep
  BY <1>1 DEF FwInitStep
<1>2. CASE arch_init_idle_thread
  BY <1>2 DEF arch_init_idle_thread, IrqNext
<1>3. ASSUME NEW d \in DOMAIN Drivers, DriverStep(d) PROVE IrqNext
  BY <1>3 DEF DriverStep, IrqNext
<1>4. CASE TableStep
  BY <1>4 DEF TableStep, IrqNext
<1>5. ASSUME NEW d \in Late, LateStep(d) PROVE IrqNext
  BY <1>5, BootAssumption DEF LateStep, IrqNext, BootAssumption
<1>6. CASE UNCHANGED bootVars
  BY <1>6 DEF bootVars
<1> QED
  BY <1>1, <1>2, <1>3, <1>4, <1>5, <1>6 DEF BootNext, firmware_main

(* The invariant holds in every state.                                     *)
LEMMA TableInvariance == BootSpec => []TableInv
<1>1. BootInit => TableInv
  BY TableInitStep DEF BootInit
<1>2. TableInv /\ [BootNext]_bootVars => TableInv'
  BY IrqStep, StartIsIrq
<1> QED
  BY <1>1, <1>2, PTL DEF BootSpec

(* A driver's interrupt never ends the system in error, and no driver is   *)
(* refused its entry, from the first instruction of firmware_main on, with *)
(* any number of drivers and clients of the table of platform/irq.c.       *)
THEOREM InterruptsHandled == BootSpec => []NoStrayInterrupt
<1>1. TableInv => NoStrayInterrupt
  BY DEF TableInv
<1> QED
  BY <1>1, TableInvariance, PTL

(* Every exception but SVCall runs the handler that was registered under   *)
(* the number of arch/irq.h: arch_dispatch_irq and irq_enable agree on all *)
(* lines of the interrupt controller.                                      *)
THEOREM ExceptionsDispatched ==
    ASSUME 11 \notin Faults
    PROVE  BootSpec => OwnHandler
<1> DEFINE Own(x) == IF entries[Defined(x)] # None THEN entries[Defined(x)] ELSE entries[IRQ_HARDFAULT]
<1>1. ASSUME TableInv, NEW x \in enabled, Exception(x)
      PROVE  called' = Own(x)
  <2>1. Adjust(x) = Defined(x)
    <3>1. CASE x \in Faults
      <4>1. x \in {2, 3}
        BY <3>1, IrqAssumption DEF IrqAssumption
      <4> QED
        BY <4>1, FaultsDispatched
    <3>2. CASE x \notin Faults
      BY <1>1, <3>2, HandlerFound, Dispatched
    <3> QED
      BY <3>1, <3>2
  <2> QED
    BY <1>1, <2>1 DEF Exception, do_irq, IRQ_HANDLER_MISSING
<1>2. TableInv /\ [BootNext]_bootVars =>
        [\A x \in enabled : Exception(x) =>
            called' = IF entries[Defined(x)] # None THEN entries[Defined(x)] ELSE entries[IRQ_HARDFAULT]]_irqVars
  BY <1>1
<1> QED
  BY <1>2, TableInvariance, PTL DEF BootSpec, OwnHandler
==============================================================================
