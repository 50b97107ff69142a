------------------------------- MODULE MCThumb -------------------------------
(***************************************************************************)
(* Programs for Thumb, and what they compute on the hardware: see          *)
(* MCThumb.cfg.  A program ends in a BKPT.  Words have eight bits.         *)
(***************************************************************************)
EXTENDS Thumb, TLC

Op(op) == [op |-> op, d |-> 0, n |-> 0, m |-> 99, imm |-> 0, regs |-> {}, cond |-> "eq"]
Reg3(op, d, n, m) == [Op(op) EXCEPT !.d = d, !.n = n, !.m = m]
Reg2(op, d, m) == Reg3(op, d, d, m)
Imm(op, d, n, imm) == [Op(op) EXCEPT !.d = d, !.n = n, !.imm = imm]
Branch(cond, imm) == [Op("b") EXCEPT !.cond = cond, !.imm = imm]
Many(op, n, regs) == [Op(op) EXCEPT !.n = n, !.regs = regs]
Literal(imm) == <<[Op("literal") EXCEPT !.imm = imm], Op("second half")>>
Call(imm) == <<[Op("bl32") EXCEPT !.imm = imm], Op("second half")>>

Ended == state = "trap"

-----------------------------------------------------------------------------
\* Comparisons: r7 ends as 1 if the branch is taken.

Answer(cond) == <<Branch(cond, 0), Reg2("cpy", 7, 6), Op("bkpt")>>

Compare(cond) == <<Imm("mov", 7, 7, 1), Reg2("cmp", 0, 1)>> \o Answer(cond)
Sum(cond) == <<Imm("mov", 7, 7, 1), Reg2("add", 0, 1)>> \o Answer(cond)
WideCompare(cond) == <<Imm("mov", 7, 7, 1), Reg2("sub", 0, 2), Reg2("sbc", 1, 3)>> \o Answer(cond)

ComparePrograms ==
    {Compare(cond) : cond \in Comparisons} \cup {Sum(cond) : cond \in {"cs", "vs", "eq", "mi"}}
WidePrograms == {WideCompare(cond) : cond \in {"cs", "cc", "ge", "lt"}}

\* The words at the ends of the signed and the unsigned numbers.
Edges == {0, 1, 2, 126, 127, 128, 129, 254, 255}
TwoWords == {[n \in 0..3 |-> IF n = 0 THEN a ELSE IF n = 1 THEN b ELSE 0] : a, b \in Edges}
FourWords == [0..3 -> {0, 1, 127, 128, 255}]

SumRelation(cond, a, b) ==
    CASE cond = "cs" -> a + b >= 2 * Half
      [] cond = "vs" -> ~Fits(Signed(a) + Signed(b))
      [] cond = "eq" -> (a + b) % (2 * Half) = 0
      [] cond = "mi" -> (a + b) % (2 * Half) >= Half

(* After CMP a branch is taken exactly if the two registers are in the     *)
(* relation that its condition stands for, as unsigned or as signed        *)
(* numbers; after ADDS, if the sum carried or overflowed.  (LE is left     *)
(* out: the code takes it when N and V are equal, its comment has unequal.)*)
ComparesRight ==
    Ended /\ code \in ComparePrograms =>
        (reg[7] = 1) = IF code[2].op = "cmp"
                       THEN Relation(code[3].cond, was[0], was[1])
                       ELSE SumRelation(code[3].cond, was[0], was[1])

(* SUBS of the lower and SBCS of the upper halves compare numbers of two   *)
(* words: the borrow goes from one instruction to the next.                *)
WideRight ==
    LET a == was[0] + 2 * Half * was[1]
        b == was[2] + 2 * Half * was[3]
        SignedWide(x) == IF x >= 2 * Half * Half THEN x - 4 * Half * Half ELSE x
    IN  Ended /\ code \in WidePrograms =>
            (reg[7] = 1) = CASE code[4].cond = "cs" -> a >= b
                             [] code[4].cond = "cc" -> a < b
                             [] code[4].cond = "ge" -> SignedWide(a) >= SignedWide(b)
                             [] code[4].cond = "lt" -> SignedWide(a) < SignedWide(b)

-----------------------------------------------------------------------------
\* Data processing: the result is in r0.

Absolute == <<Imm("asr", 4, 0, 7), Reg2("eor", 0, 4), Reg2("sub", 0, 4), Op("bkpt")>>
Merge == <<Reg2("and", 0, 2), Reg2("bic", 1, 2), Reg2("orr", 0, 1), Op("bkpt")>>
Rotate == <<Imm("lsl", 4, 0, 3), Imm("lsr", 0, 0, 5), Reg2("orr", 0, 4), Op("bkpt")>>
Shifts == <<Reg2("lsl2", 0, 1), Reg2("lsr2", 0, 1), Op("bkpt")>>
Negate == <<Reg2("mvn", 4, 0), Imm("add", 4, 4, 1), Reg2("neg", 5, 0), Reg2("eor", 4, 5),
            Reg2("sub", 0, 4), Op("bkpt")>>
Square == <<Reg2("mul", 0, 0), Reg2("rev", 0, 0), Reg2("rev", 0, 0), Op("bkpt")>>
Narrow == <<Reg2("sxth", 4, 1), Reg2("uxtb", 5, 1), Reg2("sxtb", 6, 1), Reg2("uxth", 0, 1),
            Reg2("add", 0, 4), Reg2("add", 0, 5), Reg2("add", 0, 6), Op("bkpt")>>
Extremes == <<Imm("asr", 4, 0, 0), Imm("lsl", 5, 0, 0), Imm("lsr", 6, 0, 0), Reg2("orr", 4, 6),
              Reg2("and", 4, 5), Reg2("cpy", 0, 4), Op("bkpt")>>

DataPrograms == {Absolute, Merge, Rotate, Shifts, Negate, Square, Narrow, Extremes}

DataInputs ==
    {[n \in 0..3 |-> CASE n = 0 -> a [] n = 1 -> b [] n = 2 -> 60 [] n = 3 -> 0] :
        a \in Word, b \in {0, 1, 3, 7, 8, 9, 130, 255}}

SignedPart(a, size) == (IF 2 * (a % size) >= size THEN (a % size) - size ELSE a % size)

Computed(a, b, c) ==
    CASE code = Absolute -> IF Signed(a) < 0 THEN (-Signed(a)) % (2 * Half) ELSE a
      [] code = Merge -> (a & c) + (b & Invert(c))
      [] code = Rotate -> ((8 * a) % 256) + (a \div 32)
      [] code = Shifts -> IF b < 8 THEN a % 2 ^ (8 - b) ELSE 0
      [] code = Negate -> a
      [] code = Square -> (a * a) % 256
      [] code = Narrow -> ((b % 16) + SignedPart(b, 16) + (b % 4) + SignedPart(b, 4)) % 256
      [] code = Extremes -> IF Signed(a) < 0 THEN a ELSE 0

(* Shifts, logic, negation, multiplication and extension in the sequences  *)
(* a compiler makes of them: the absolute value, the bits of two words     *)
(* under a mask, a rotation, a field cut out by two shifts, -x, x * x.     *)
DataRight == Ended /\ code \in DataPrograms => reg[0] = Computed(was[0], was[1], was[2])

-----------------------------------------------------------------------------
\* Memory: r2 is the address, the ram is from 128 to 167; r0 ends as 0.

ByHalves == <<Reg3("strh", 0, 2, 3), Imm("lsr", 4, 0, 4), Imm("strh", 4, 2, 2),
              Imm("ldr", 5, 2, 0), Reg2("eor", 5, 0), Reg2("cpy", 0, 5), Op("bkpt")>>
ByBytes == <<Imm("str", 0, 2, 0), Imm("ldrb", 4, 2, 3), Imm("lsl", 4, 4, 2), Imm("ldrb", 5, 2, 2),
             Reg2("orr", 4, 5), Imm("lsl", 4, 4, 4), Reg3("ldrh", 5, 2, 3), Reg2("orr", 4, 5),
             Reg2("eor", 0, 4), Op("bkpt")>>
Copy == <<Many("stmia", 2, {0, 1}), Imm("sub", 4, 2, 8), Many("ldmia", 4, {5, 6}),
          Reg2("sub", 4, 2), Reg2("eor", 5, 0), Reg2("eor", 6, 1), Reg2("orr", 5, 6),
          Reg2("orr", 5, 4), Reg2("cpy", 0, 5), Op("bkpt")>>
Pool == <<Imm("ldr", 4, 15, 8), Imm("add5", 5, 15, 8), Imm("ldr", 5, 5, 0), Reg2("eor", 4, 5),
          Reg2("cpy", 0, 4), Op("bkpt")>> \o Literal(77)
MemoryPrograms == {ByHalves, ByBytes, Copy, Pool}

MemoryInputs ==
    {[n \in 0..3 |-> CASE n = 0 -> a [] n = 1 -> b [] n = 2 -> c [] n = 3 -> 0] :
        a \in Word, b \in {0, 200}, c \in {124, 128, 160, 164}}

(* A word is found again in memory, as one word, as two halfwords or four  *)
(* bytes from the lower end, and by STMIA and LDMIA with the address moved *)
(* on; a literal is found from the word-aligned program counter.  The mcu  *)
(* stops exactly at an access outside of the ram.                          *)
MemoryRight ==
    LET size == IF code = Copy THEN 8 ELSE 4
        fits == code = Pool \/ (RamBase <= was[2] /\ was[2] + size <= RamBase + RamSize)
    IN  code \in MemoryPrograms =>
            /\ Ended => reg[0] = 0 /\ fits
            /\ state # "running" => Ended = fits

-----------------------------------------------------------------------------
\* Calls: f(n) = n + f(n - 1) on the stack, and a leaf through a register.

Recursion ==
    Call(2) \o <<Op("bkpt"), Many("push", 13, {4, 14}), Reg2("cpy", 4, 0), Imm("cmp", 0, 0, 0),
                 Branch("eq", 6), Imm("sub", 0, 0, 1)>>
    \o Call(-14) \o <<Reg2("add", 0, 4), Many("pop", 13, {4, 15})>>
Leaf ==
    <<Imm("sub4", 13, 13, 8), Imm("ldr", 5, 15, 28), Reg2("blx", 0, 5), Reg2("mov3", 8, 0),
      Reg2("add4", 8, 0), Imm("add5", 13, 13, 8), Imm("mov", 6, 6, 19), Reg2("mov3", 15, 6),
      Op("wfi"), Op("b2"), Op("wfi"), Reg2("mov3", 0, 8), Op("bkpt"),
      Imm("add", 0, 0, 1), Reg2("bx", 0, 14), Op("wfe")>> \o Literal(27)
Jump == <<Imm("mov", 6, 6, 5), Reg2("add4", 15, 6), Op("wfi"), Op("wfi"), Op("wfi"), Op("bkpt")>>
CallPrograms == {Recursion, Leaf, Jump}
CallInputs == {[n \in 0..3 |-> IF n = 0 THEN a ELSE 0] : a \in 0..7}

Depth == RamSize \div 8 - 1

(* Calls and returns meet: a recursive function and a leaf called through  *)
(* a register come back behind the call, however deep the stack, with the  *)
(* stack pointer and r4 as they were.  The mcu faults only at the PUSH     *)
(* that leaves the ram when the stack is too deep.                         *)
CallsRight ==
    LET n == was[0]
        result == CASE code = Recursion -> (n * (n + 1)) \div 2
                    [] code = Leaf -> 2 * (n + 1)
                    [] code = Jump -> n
    IN  code \in CallPrograms =>
            /\ state \in {"running", "trap", "fault"}
            /\ Ended => reg[0] = result /\ reg[REG_SP] = RamBase + RamSize /\ reg[4] = 0
            /\ state = "fault" => code = Recursion /\ n > Depth /\ Fetched.op = "push"

-----------------------------------------------------------------------------
\* Single instructions: on registers, r4 has the result ...

Unary == {"rev", "rev16", "revsh", "sxtb", "sxth", "uxtb", "uxth", "mvn", "neg", "cpy"}
Tests == {"cmp", "cmn", "tst"}

RegisterPrograms ==
    {<<Reg2(op, 4, m), Op("bkpt")>> : op \in Unary, m \in {0, 1}}
    \cup {<<Reg2(op, 0, m), Op("bkpt")>> : op \in Tests, m \in {1, 3}}

\* ... on the word r0 at r2, of which r4 has what is loaded at r2 + r3, or
\* the whole after r1 was stored there.
AccessPrograms ==
    {<<Imm("str", 0, 2, 0), Reg3(op, 4, 2, 3), Op("bkpt")>> : op \in {"ldrb", "ldrh", "ldrsb", "ldrsh"}}
    \cup {<<Imm("str", 0, 2, 0), Reg3(op, 1, 2, 3), Imm("ldr", 4, 2, 0), Op("bkpt")>> :
              op \in {"strb", "strh"}}

SinglePrograms == RegisterPrograms \cup AccessPrograms

SingleInputs ==
    {[n \in 0..3 |-> CASE n = 0 -> a [] n = 1 -> b [] n = 2 -> 128 [] n = 3 -> c] :
        a \in {0, 1, 2, 3, 8, 18, 27, 77, 127, 128, 129, 180, 200, 228, 254, 255},
        b \in {1, 27, 130, 228, 255}, c \in 0..3}

Extended(a, size) == SignedPart(a, size) % 256

Bytes(a, b, c, d) == ByteOf(a, 0) + 4 * ByteOf(b, 0) + 16 * ByteOf(c, 0) + 64 * ByteOf(d, 0)

\* The register that the architecture names, and its flags.
Result(op, a) ==
    LET B(k) == ByteOf(a, k)
    IN  CASE op = "rev"   -> Bytes(B(3), B(2), B(1), B(0))
          [] op = "rev16" -> Bytes(B(1), B(0), B(3), B(2))
          [] op = "revsh" -> Extended(Bytes(B(1), B(0), 0, 0), 16)
          [] op = "sxtb"  -> Extended(a, 4)
          [] op = "sxth"  -> Extended(a, 16)
          [] op = "uxtb"  -> a % 4
          [] op = "uxth"  -> a % 16
          [] op = "mvn"   -> 255 - a
          [] op = "neg"   -> (256 - a) % 256
          [] op = "cpy"   -> a

Flags(x, carry, overflow) == [n |-> x % 256 >= 128, z |-> x % 256 = 0, c |-> carry, v |-> overflow]

ResultFlags(op, a, b) ==
    CASE op = "cmp" -> Flags(a - b, a >= b, ~Fits(Signed(a) - Signed(b)))
      [] op = "cmn" -> Flags(a + b, a + b >= 256, ~Fits(Signed(a) + Signed(b)))
      [] op = "tst" -> Flags(a & b, FALSE, FALSE)
      [] op = "neg" -> Flags(-b, b = 0, ~Fits(-Signed(b)))
      [] op = "mvn" -> Flags(255 - b, FALSE, FALSE)
      [] OTHER      -> [n |-> FALSE, z |-> FALSE, c |-> FALSE, v |-> FALSE]

Accessed(op, a, b, k) ==
    CASE op = "ldrb"  -> ByteOf(a, k)
      [] op = "ldrsb" -> Extended(ByteOf(a, k), 4)
      [] op = "ldrh"  -> (a \div 4 ^ k) % 16
      [] op = "ldrsh" -> Extended(a \div 4 ^ k, 16)
      [] op = "strb"  -> a + ((b % 4) - ByteOf(a, k)) * 4 ^ k
      [] op = "strh"  -> a + ((b % 16) - ((a \div 4 ^ k) % 16)) * 4 ^ k

(* Where the code does not do what the architecture says: the extensions   *)
(* and TST read r1, whatever register they name (mcu.c, lines 2291, 2314,  *)
(* 2337, 2359 and 2379); CMN reads high registers (941); REV16 is REV      *)
(* (1847); LDRSB and LDRSH do not extend a sign to the word (1360, 1388);  *)
(* STRB clears the rest of the word (2091, 2128).  On the hardware an      *)
(* access that is not aligned is a fault.                                  *)
Deviates(i, a, k) ==
    \/ i.op \in {"sxtb", "sxth", "uxtb", "uxth", "tst"} /\ i.m # 1
    \/ i.op \in {"rev16", "cmn", "strb"}
    \/ i.op = "ldrsb" /\ 2 * ByteOf(a, k) >= 4
    \/ i.op = "ldrsh" /\ 2 * ((a \div 4 ^ k) % 16) >= 16
    \/ i.op \in {"ldrh", "ldrsh", "strh"} /\ k % 2 = 1

(* Every other instruction on registers, load and store gives the register *)
(* the value and the flags that the architecture says, whichever operands  *)
(* it names.                                                               *)
SinglesRight ==
    /\ Ended /\ code \in RegisterPrograms =>
          LET i == code[1]
          IN  ~Deviates(i, 0, 0) =>
                 /\ i.op \in Unary => reg[4] = Result(i.op, was[i.m])
                 /\ apsr = ResultFlags(i.op, was[0], was[i.m])
    /\ Ended /\ code \in AccessPrograms =>
          LET i == code[2]
          IN  ~Deviates(i, was[0], was[3]) => reg[4] = Accessed(i.op, was[0], was[1], was[3])

-----------------------------------------------------------------------------
\* Instructions with operands that they refuse among them.

OneStep ==
    {Reg2(op, 0, 1) : op \in {"cmp", "cmn", "tst", "adc", "asr2", "ror", "rev", "rev16", "revsh",
                              "neg", "sbc", "bx", "blx", "mov3", "cmp3"}}
    \cup {Reg3(op, 4, 2, 3) : op \in {"ldr", "ldrb", "ldrh", "ldrsb", "ldrsh", "str", "strh", "strb"}}
    \cup {Reg2("cmp3", d, 8) : d \in {1, 9, 15}} \cup {Reg2("add4", 15, m) : m \in {0, 1}}
    \cup {Imm("msr", 0, 0, k) : k \in {0, 8, 9, 20, 21}} \cup {Imm("mrs", 1, 1, k) : k \in {0, 8, 9, 20, 21}}
    \cup {Many(op, 2, {0, 1}) : op \in {"ldmia", "stmia"}}
    \cup {Many("push", 13, {0, 1, 14}), Many("push", 13, {14}), Many("pop", 13, {0, 1}), Many("pop", 13, {15})}
    \cup {Op("wfi"), Op("wfe"), Op("b2"), Branch("le", 40), Branch("swi", 0), Branch("undefined", 0)}
    \cup {Op("unknown32")}
StepPrograms == {<<[i EXCEPT !.m = IF i.op = "msr" THEN 2 ELSE @], Op("bkpt")>> : i \in OneStep}
StepInputs == {[n \in 0..3 |-> CASE n = 0 -> 4 [] n = 1 -> a [] n = 2 -> b [] n = 3 -> 1] :
                  a \in {2, 129}, b \in {60, 124, 128, 164, 168}}

(* Wherever an instruction halts the mcu because it cannot be fetched, is  *)
(* not known or reaches for memory that is not there, the program counter  *)
(* is at it and the flags are as before; past BKPT and WFI it has moved on.*)
FaultsStay ==
    [][state' # state =>
           /\ apsr' = apsr
           /\ reg'[REG_PC] = IF state' \in {"trap", "sleep"} THEN reg[REG_PC] + 2 ELSE reg[REG_PC]]_vars

-----------------------------------------------------------------------------

AllPrograms ==
    ComparePrograms \cup WidePrograms \cup DataPrograms \cup MemoryPrograms
    \cup CallPrograms \cup SinglePrograms \cup StepPrograms

InputsOf(p) ==
    CASE p \in ComparePrograms -> TwoWords
      [] p \in WidePrograms -> FourWords
      [] p \in DataPrograms -> DataInputs
      [] p \in MemoryPrograms -> MemoryInputs
      [] p \in CallPrograms -> CallInputs
      [] p \in SinglePrograms -> SingleInputs
      [] p \in StepPrograms -> StepInputs

(* Comparisons and branches, arithmetic on one and two words, shifts and   *)
(* logic, loads and stores, calls and returns, in short programs and one   *)
(* by one, compute what the architecture says for the words of the         *)
(* instance, but for the instructions that Deviates names and for LE; and  *)
(* none stops where it should not.  The parts are stated with the          *)
(* programs.                                                               *)
ProgramsRight ==
    ComparesRight /\ WideRight /\ DataRight /\ MemoryRight /\ CallsRight /\ SinglesRight

(* No program is caught at a return that the mcu refuses and tries again:  *)
(* each comes to its end or to a fault.  (A single refused BX, POP or SWI  *)
(* is.)                                                                    *)
ProgramsEnd == code \notin StepPrograms => <>(state # "running")
==============================================================================
