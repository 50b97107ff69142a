-------------------------------- MODULE Thumb --------------------------------
(***************************************************************************)
(* tools/simulator/cortex-m0p/mcu.c: the processor of the simulator, one   *)
(* action for each instruction of its table and for each way one can fail. *)
(* An instruction is the record of the fields that its encoding has; what  *)
(* the code reads from which field is in the actions.  A word is four      *)
(* bytes, here of fewer bits than in the simulator.                        *)
(***************************************************************************)
EXTENDS ThumbAlu, Sequences, FiniteSets, Functions, Bitwise

CONSTANTS Bits,         \* of a word (32)
          Byte,         \* the number of values of a byte (256)
          RamBase, RamSize, \* the ram device, in bytes
          Programs,     \* the programs: sequences of halfwords in the flash
          Inputs(_)     \* what r0 to r3 may hold when a program is started

ASSUME ThumbAssumption ==
    /\ Bits \in Nat /\ 2 ^ Bits = 2 * Half /\ Byte ^ 4 = 2 * Half
    /\ RamSize % 4 = 0 /\ RamBase % 4 = 0 /\ RamBase + RamSize < 2 * Half
    /\ \A p \in Programs : Inputs(p) \subseteq [0..3 -> Word]

REG_SP == 13
REG_LR == 14
REG_PC == 15
REG_CONTROL == 16
REG_PSP == 17

VARIABLES code,         \* the program
          reg,          \* mcu->regs: the stack pointer is always the MSP's
          apsr,         \* the flags
          ram,          \* the bytes of the ram device
          state,        \* running, or why the mcu was halted
          was           \* history: r0 to r3 when the program was started

vars == <<code, reg, apsr, ram, state, was>>

(* mcu_reset: the stack is at the end of the ram, the program at 0.  The   *)
(* register PC is two bytes ahead.  r0 to r3 are the program's input.      *)
Init ==
    /\ code \in Programs
    /\ was \in Inputs(code)
    /\ reg = [n \in 0..REG_PSP |-> CASE n \in 0..3   -> was[n]
                                [] n = REG_SP  -> RamBase + RamSize
                                [] n = REG_PC  -> 2
                                [] OTHER       -> 0]
    /\ apsr = [n |-> FALSE, z |-> FALSE, c |-> FALSE, v |-> FALSE]
    /\ ram = [k \in 0..RamSize - 1 |-> 0]
    /\ state = "running"

Even(a) == a - (a % 2)

(* mcu_write_reg                                                           *)
Write(r, n, val) == [r EXCEPT ![n] = IF n = REG_PC THEN Even(val) ELSE val]

Flag(f, c) == [f EXCEPT !.n = nflag(c), !.z = zflag(c)]

Bit(a, k) == (a \div 2 ^ k) % 2 = 1

-----------------------------------------------------------------------------
(* The memory: mcu_fetch and mcu_write on the flash and the ram device.    *)
(* The flash is locked; only its literals are read as data.                *)

IsRam(addr) == RamBase <= addr /\ addr < RamBase + RamSize

At(addr) == code[addr \div 2 + 1]

IsLiteral(addr) == 2 * (addr \div 4) + 1 \in DOMAIN code /\ At(4 * (addr \div 4)).op = "literal"

CanFetch(addr) == IsRam(addr) \/ IsLiteral(addr)

\* The byte k of a word.
ByteOf(val, k) == (val \div Byte ^ k) % Byte

MemByte(addr) ==
    IF IsRam(addr) THEN ram[addr - RamBase] ELSE ByteOf(At(4 * (addr \div 4)).imm, addr % 4)

fetch16(addr) ==
    LET k == 2 * (addr \div 2)
    IN  MemByte(k) + Byte * MemByte(k + 1)

fetch32(addr) ==
    LET k == 4 * (addr \div 4)
    IN  fetch16(k) + Byte * Byte * fetch16(k + 2)

\* The ram after a write of a halfword, and of words by their number in the ram.
write16(addr, val) ==
    [k \in DOMAIN ram |->
        IF k \div 2 = (addr - RamBase) \div 2 THEN ByteOf(val, k % 2) ELSE ram[k]]

WordAt(addr) == (addr - RamBase) \div 4

write32(vals) ==
    [k \in DOMAIN ram |->
        IF k \div 4 \in DOMAIN vals THEN ByteOf(vals[k \div 4], k % 4) ELSE ram[k]]

-----------------------------------------------------------------------------
(* mcu_instr_step: what is fetched, and the registers that the instruction *)
(* finds: the program counter has moved on.                                *)

Fetched == At(reg[REG_PC] - 2)

CanExecute == state = "running" /\ (reg[REG_PC] - 2) \div 2 + 1 \in DOMAIN code

Is(ops) == CanExecute /\ Fetched.op \in ops

Length(op) == IF op \in {"bl32", "msr", "mrs", "unknown32"} THEN 4 ELSE 2

Moved == [reg EXCEPT ![REG_PC] = Wrap(@ + Length(Fetched.op))]

\* An instruction that succeeds.
Done(r, f) == reg' = r /\ apsr' = f /\ UNCHANGED <<code, ram, state, was>>

\* A faulty mcu_instr_step: the program counter stays behind the instruction.
Fails_behind(r, why) ==
    /\ reg' = [r EXCEPT ![REG_PC] = Moved[REG_PC]]
    /\ state' = why
    /\ UNCHANGED <<code, apsr, ram, was>>

(* An instruction that fails puts the program counter back; whether it has *)
(* halted the mcu depends on the instruction.                              *)
Fails(r, why) ==
    /\ reg' = [r EXCEPT ![REG_PC] = reg[REG_PC]]
    /\ state' = why
    /\ UNCHANGED <<code, apsr, ram, was>>

(* There is no such instruction in the table of the 16-bit ones: ADC, the  *)
(* shifts and rotates by a register whose entries are shadowed, a literal. *)
Unknown ==
    /\ Is({"adc", "asr2", "ror", "literal"})
    /\ Fails(reg, "unknown")

(* The table of the 32-bit ones has no end mark: the search for what is    *)
(* not in it runs on behind it.  It may find one there, and the mcu is     *)
(* halted; or the simulator does not survive it.                           *)
Unknown32 ==
    /\ Is({"unknown32"})
    /\ \E why \in {"unknown", "crashed"} : Fails(reg, why)

(* The fetch of the instruction fails.                                     *)
NoInstruction ==
    /\ state = "running" /\ ~CanExecute
    /\ state' = "fault" /\ UNCHANGED <<code, reg, apsr, ram, was>>

-----------------------------------------------------------------------------
(* Data processing.  The second operand is a register or an immediate.     *)

Operand(i) == IF i.m \in DOMAIN reg THEN Moved[i.m] ELSE i.imm

ADD ==
    /\ Is({"add"})
    /\ LET i == Fetched a == reg[i.n] b == Operand(i)
       IN  Done(Write(Moved, i.d, Wrap(a + b)), AddFlags(a, b))

SUB ==
    /\ Is({"sub"})
    /\ LET i == Fetched a == reg[i.n] b == Operand(i)
       IN  Done(Write(Moved, i.d, Wrap(a - b)), SubFlags(a, b))

CMP ==
    /\ Is({"cmp"})
    /\ LET i == Fetched IN Done(Moved, SubFlags(Moved[i.n], Operand(i)))

(* The fields of CMN are four bits wide and overlap with the opcode.       *)
CMN ==
    /\ Is({"cmn"})
    /\ LET i == Fetched IN Done(Moved, AddFlags(Moved[i.n + 8 * (i.m % 2)], Moved[8 + i.m]))

NEG ==
    /\ Is({"neg"})
    /\ LET i == Fetched a == reg[i.m]
       IN  Done(Write(Moved, i.d, Wrap(0 - a)), SubFlags(0, a))

SBC ==
    /\ Is({"sbc"})
    /\ LET i == Fetched
           a == reg[i.d]
           b == reg[i.m]
           c == IF apsr.c THEN Wrap(a - b) ELSE Wrap(Wrap(a - b) - 1)
       IN  Done(Write(Moved, i.d, c), SbcFlags(a, b, apsr.c))

\* An instruction with the result c for register d that sets N and Z.
Logical(op, c) ==
    /\ Is({op})
    /\ Done(Write(Moved, Fetched.d, c), Flag(apsr, c))

AND == Logical("and", reg[Fetched.d] & reg[Fetched.m])

ORR == Logical("orr", reg[Fetched.d] | reg[Fetched.m])

EOR == Logical("eor", reg[Fetched.d] ^^ reg[Fetched.m])

BIC == Logical("bic", reg[Fetched.d] & Invert(reg[Fetched.m]))

MVN == Logical("mvn", Invert(reg[Fetched.m]))

MUL == Logical("mul", (reg[Fetched.d] * reg[Fetched.m]) % (2 * Half))

MOV1 == Logical("mov", Fetched.imm)

(* TST takes the second register from a comparison: it is always r1.       *)
TST ==
    /\ Is({"tst"})
    /\ Done(Moved, Flag(apsr, reg[Fetched.n] & reg[1]))

\* The result of a shift; the flags N, Z and C are set.
Shifted(a, carry) ==
    Done(Write(Moved, Fetched.d, a), [Flag(apsr, a) EXCEPT !.c = carry])

Right(a, k) == a \div 2 ^ k

Left(a, k) == (a * 2 ^ k) % (2 * Half)

(* A shift by 0 stands for a shift by the size of a word.                  *)
ASR1 ==
    /\ Is({"asr"})
    /\ LET a    == reg[Fetched.n]
           k    == Fetched.imm
           sign == IF nflag(a) THEN 2 * Half - 2 ^ (Bits - k) ELSE 0
       IN  \/ k = 0 /\ Shifted(IF nflag(a) THEN 2 * Half - 1 ELSE 0, nflag(a))
           \/ k # 0 /\ Shifted(Right(a, k) + sign, Bit(a, k - 1))

LSL1 ==
    /\ Is({"lsl"})
    /\ LET a == reg[Fetched.n] k == Fetched.imm
       IN  \/ k = 0 /\ Shifted(a, apsr.c)
           \/ k # 0 /\ Shifted(Left(a, k), Bit(a, Bits - k))

LSR1 ==
    /\ Is({"lsr"})
    /\ LET a == reg[Fetched.n] k == Fetched.imm
       IN  \/ k = 0 /\ Shifted(0, nflag(a))
           \/ k # 0 /\ Shifted(Right(a, k), Bit(a, k - 1))

(* By a register.  A shift by 0 tests a bit that is not there: the carry   *)
(* is what the build makes of it.                                          *)
LSL2 ==
    /\ Is({"lsl2"})
    /\ LET a == reg[Fetched.d] k == reg[Fetched.m] % 256
       IN  \/ k = 0 /\ \E carry \in BOOLEAN : Shifted(a, carry)
           \/ k \in 1..Bits - 1 /\ Shifted(Left(a, k), Bit(a, Bits - k))
           \/ k = Bits /\ Shifted(0, Bit(a, 0))
           \/ k > Bits /\ Shifted(0, FALSE)

LSR2 ==
    /\ Is({"lsr2"})
    /\ LET a == reg[Fetched.d] k == reg[Fetched.m] % 256
       IN  \/ k = 0 /\ \E carry \in BOOLEAN : Shifted(a, carry)
           \/ k \in 1..Bits - 1 /\ Shifted(Right(a, k), Bit(a, k - 1))
           \/ k = Bits /\ Shifted(0, nflag(a))
           \/ k > Bits /\ Shifted(0, FALSE)

\* An instruction with the result c for register d that sets no flags.
Plain(op, c) == Is({op}) /\ Done(Write(Moved, Fetched.d, c), apsr)

SignExtend(a, size) == IF 2 * a >= size THEN 2 * Half - size + a ELSE a

(* The extensions take their operand from a comparison: it is always r1.   *)
SXTB == Plain("sxtb", SignExtend(reg[1] % Byte, Byte))

SXTH == Plain("sxth", SignExtend(reg[1] % Byte ^ 2, Byte ^ 2))

UXTB == Plain("uxtb", reg[1] % Byte)

UXTH == Plain("uxth", reg[1] % Byte ^ 2)

Swap(a) == ByteOf(a, 0) * Byte + ByteOf(a, 1)

REV == Plain("rev", Swap(reg[Fetched.m]) * Byte ^ 2 + Swap(reg[Fetched.m] \div Byte ^ 2))

\* REV16 does the same as REV.
REV16 == Plain("rev16", Swap(reg[Fetched.m]) * Byte ^ 2 + Swap(reg[Fetched.m] \div Byte ^ 2))

REVSH == Plain("revsh", SignExtend(Swap(reg[Fetched.m]), Byte ^ 2))

CPY == Plain("cpy", reg[Fetched.m])

-----------------------------------------------------------------------------
(* High registers, the stack pointer and the program counter.              *)

\* ADD(4), to the program counter only an odd address.
ADD4 ==
    /\ Is({"add4"})
    /\ LET i == Fetched c == Wrap(Moved[i.d] + Moved[i.m])
       IN  \/ i.d # REG_PC /\ Done(Write(Moved, i.d, c), apsr)
           \/ i.d = REG_PC /\ c % 2 = 1 /\ Done(Write(Moved, i.d, Wrap(Even(c) + 2)), apsr)
           \/ i.d = REG_PC /\ c % 2 = 0 /\ Fails(Moved, "running")

Base(n) == IF n = REG_PC THEN Moved[n] - (Moved[n] % 4) ELSE Moved[n]

\* ADD(5), ADD(6) and ADD(7)
ADD5 == Plain("add5", Wrap(Base(Fetched.n) + Fetched.imm))

SUB4 == Plain("sub4", Wrap(reg[REG_SP] - Fetched.imm))

\* CMP(3): with two low registers or the program counter it is refused.
CMP3 ==
    /\ Is({"cmp3"})
    /\ LET i == Fetched bad == (i.n < 8 /\ i.m < 8) \/ i.n = REG_PC
       IN  \/ bad /\ Fails(Moved, "running")
           \/ ~bad /\ Done(Moved, SubFlags(Moved[i.n], Moved[i.m]))

MOV3 ==
    Plain("mov3", IF Fetched.d = REG_PC THEN Wrap(Even(Moved[Fetched.m]) + 2) ELSE Moved[Fetched.m])

Sysm == Fetched.imm

\* MSR of APSR (0) goes on to set the MSP (8); PSP is 9 and CONTROL 20.
MSR ==
    /\ Is({"msr"})
    /\ LET a == reg[Fetched.m]
           b == [k \in 1..4 |-> Bit(a, Bits - k)]
       IN  \/ Sysm = 0 /\ Done(Write(Moved, REG_SP, a), [n |-> b[1], z |-> b[2], c |-> b[3], v |-> b[4]])
           \/ Sysm = 8 /\ Done(Write(Moved, REG_SP, a), apsr)
           \/ Sysm = 9 /\ Done(Write(Moved, REG_PSP, a), apsr)
           \/ Sysm = 20 /\ Done(Write(Moved, REG_CONTROL, a), apsr)
           \/ Sysm \notin {0, 8, 9, 20} /\ Fails(Moved, "unknown")

\* MRS of the program status registers (0 to 7) ends as one of the MSP (8).
MRS ==
    /\ Is({"mrs"})
    /\ LET To(n) == Done(Write(Moved, Fetched.d, reg[n]), apsr)
       IN  \/ Sysm \in 0..8 /\ To(REG_SP)
           \/ Sysm = 9 /\ To(REG_PSP)
           \/ Sysm = 20 /\ To(REG_CONTROL)
           \/ Sysm \notin 0..9 \cup {20} /\ Fails(Moved, "unknown")

-----------------------------------------------------------------------------
(* Loads and stores.  Without a device at the address the mcu is halted.   *)

Addr == Wrap(Base(Fetched.n) + Operand(Fetched))

\* A load of val from a; Addr & ~1 for a byte.
Load(op, a, val) ==
    /\ Is({op})
    /\ \/ CanFetch(a) /\ Done(Write(Moved, Fetched.d, val), apsr)
       \/ ~CanFetch(a) /\ Fails(Moved, "fault")

LDR == Load("ldr", Addr, fetch32(Addr))

Half8(addr) == IF addr % 2 = 1 THEN fetch16(addr) \div Byte ELSE fetch16(addr) % Byte

LDRB == Load("ldrb", Even(Addr), Half8(Addr))

LDRH == Load("ldrh", Addr, fetch16(Addr))

\* The sign of a byte is extended to a halfword, that of a halfword not at all.
LDRSB ==
    LET b == Half8(Addr)
    IN  Load("ldrsb", Even(Addr), IF 2 * b >= Byte THEN Byte ^ 2 - Byte + b ELSE b)

LDRSH == Load("ldrsh", Addr, fetch16(Addr))

\* A store that leaves the ram as m.
Store(op, m) ==
    /\ Is({op})
    /\ \/ /\ IsRam(Addr)
          /\ reg' = Moved /\ ram' = m /\ UNCHANGED <<code, apsr, state, was>>
       \/ ~IsRam(Addr) /\ Fails(Moved, "fault")

STR == Store("str", write32([w \in {WordAt(Addr)} |-> reg[Fetched.d]]))

STRH == Store("strh", write16(Addr, reg[Fetched.d]))

(* The halfword is put together and then written as a word.                *)
STRB ==
    LET val == reg[Fetched.d] % Byte
        old == fetch16(Addr)
        new == IF Addr % 2 = 1 THEN (old % Byte) + Byte * val ELSE old - (old % Byte) + val
    IN  Store("strb", write32([w \in {WordAt(Addr)} |-> new]))

(* Several registers, in ascending order from address a: the words before  *)
(* the first address without a device are transferred.                     *)
Place(regs, a, n) == Wrap(a + 4 * Cardinality({m \in regs : m < n}))

Reached(regs, a) == {n \in regs : \A m \in regs : m <= n => CanFetch(Place(regs, a, m))}

Stored(regs, a) == {n \in regs : \A m \in regs : m <= n => IsRam(Place(regs, a, m))}

Loaded(r, regs, a) ==
    [n \in DOMAIN r |-> IF n \in Reached(regs, a) THEN fetch32(Place(regs, a, n)) ELSE r[n]]

Saved(regs, a) ==
    LET words == {WordAt(Place(regs, a, n)) : n \in Stored(regs, a)}
    IN  write32([w \in words |-> reg[CHOOSE n \in regs : WordAt(Place(regs, a, n)) = w]])

LDMIA ==
    /\ Is({"ldmia"})
    /\ LET regs == Fetched.regs
           a    == reg[Fetched.n]
           r    == Loaded(Moved, regs, a)
       IN  \/ /\ Reached(regs, a) = regs
              /\ Done(Write(r, Fetched.n, Wrap(a + 4 * Cardinality(regs))), apsr)
           \/ Reached(regs, a) # regs /\ Fails(r, "fault")

STMIA ==
    /\ Is({"stmia"})
    /\ LET regs == Fetched.regs
           a    == reg[Fetched.n]
           all  == Stored(regs, a) = regs
       IN  /\ reg' = IF all THEN Write(Moved, Fetched.n, Wrap(a + 4 * Cardinality(regs))) ELSE reg
           /\ state' = IF all THEN state ELSE "fault"
           /\ ram' = Saved(regs, a)
    /\ UNCHANGED <<code, apsr, was>>

\* A faulty PUSH: the link register is stored below the other registers.
PUSH_lr_first ==
    /\ Is({"push"})
    /\ LET regs == Fetched.regs
           sp   == Wrap(reg[REG_SP] - 4 * Cardinality(regs))
           Slot(n) == IF n = REG_LR THEN sp ELSE Wrap(Place(regs, sp, n) + 4 * Cardinality(regs \cap {REG_LR}))
       IN  /\ \A n \in regs : IsRam(Slot(n))
           /\ ram' = write32([w \in {WordAt(Slot(n)) : n \in regs} |->
                                 reg[CHOOSE n \in regs : WordAt(Slot(n)) = w]])
           /\ reg' = Write(Moved, REG_SP, sp)
    /\ UNCHANGED <<code, apsr, state, was>>

(* PUSH sets the stack pointer before it stores; when only the link        *)
(* register cannot be stored the mcu is not halted.                        *)
PUSH ==
    /\ Is({"push"})
    /\ LET regs == Fetched.regs
           sp   == Wrap(reg[REG_SP] - 4 * Cardinality(regs))
           all  == Stored(regs, sp) = regs
       IN  /\ reg' = [Write(Moved, REG_SP, sp) EXCEPT ![REG_PC] = IF all THEN @ ELSE reg[REG_PC]]
           /\ state' = IF all \/ regs \ Stored(regs, sp) = {REG_LR} THEN state ELSE "fault"
           /\ ram' = Saved(regs, sp)
    /\ UNCHANGED <<code, apsr, was>>

(* POP sets it at the end; it fails, without halting the mcu, for a word   *)
(* that is not there and an even return address.                           *)
POP ==
    /\ Is({"pop"})
    /\ LET regs == Fetched.regs
           sp   == reg[REG_SP]
           r    == Loaded(Moved, regs, sp)
           ok   == Reached(regs, sp) = regs /\ (REG_PC \in regs => r[REG_PC] % 2 = 1)
           pc   == IF REG_PC \in regs THEN Wrap(r[REG_PC] + 2) ELSE r[REG_PC]
       IN  \/ ok /\ Done(Write(Write(r, REG_PC, pc), REG_SP, Wrap(sp + 4 * Cardinality(regs))), apsr)
           \/ ~ok /\ Fails(r, "running")

-----------------------------------------------------------------------------
(* Branches.  The offset is in bytes from the program counter.             *)

\* The last two conditions, SWI and an undefined one, fail: the mcu runs on.
B1 ==
    /\ Is({"b"})
    /\ LET to   == Wrap(Moved[REG_PC] + 2 + Fetched.imm)
           cond == Fetched.cond
       IN  \/ /\ cond \in Conditions
              /\ Done(IF Taken(cond, apsr) THEN Write(Moved, REG_PC, to) ELSE Moved, apsr)
           \/ cond \in {"undefined", "swi"} /\ Fails(Moved, "running")

B2 == Is({"b2"}) /\ Done(Write(Moved, REG_PC, Wrap(Moved[REG_PC] + 2 + Fetched.imm)), apsr)

\* The link register: the next instruction, with the bit for Thumb.
Link == Write(Moved, REG_LR, Wrap(Moved[REG_PC] - 2) + 1)

BL == Is({"bl32"}) /\ Done(Write(Link, REG_PC, Wrap(Moved[REG_PC] + Fetched.imm)), apsr)

\* To an even address they fail and leave the mcu running.
Indirect(op, r) ==
    /\ Is({op})
    /\ LET to == Wrap(Moved[Fetched.m] + 2)
       IN  \/ to % 2 = 1 /\ Done(Write(r, REG_PC, to), apsr)
           \/ to % 2 = 0 /\ Fails(Moved, "running")

BLX == Indirect("blx", Link)

BX == Indirect("bx", Moved)

BKPT == Is({"bkpt"}) /\ reg' = Moved /\ state' = "trap" /\ UNCHANGED <<code, apsr, ram, was>>

WFE == Is({"wfe"}) /\ Done(Moved, apsr)

WFI == Is({"wfi"}) /\ reg' = Moved /\ state' = "sleep" /\ UNCHANGED <<code, apsr, ram, was>>

Next ==
    \/ ADD \/ SUB \/ CMP \/ CMN \/ NEG \/ SBC \/ AND \/ ORR \/ EOR \/ BIC \/ MVN \/ MUL
    \/ MOV1 \/ TST \/ ASR1 \/ LSL1 \/ LSR1 \/ LSL2 \/ LSR2 \/ SXTB \/ SXTH \/ UXTB \/ UXTH
    \/ REV \/ REV16 \/ REVSH \/ CPY \/ ADD4 \/ ADD5 \/ SUB4 \/ CMP3 \/ MOV3 \/ MSR \/ MRS
    \/ LDR \/ LDRB \/ LDRH \/ LDRSB \/ LDRSH \/ STR \/ STRH \/ STRB \/ LDMIA \/ STMIA
    \/ PUSH \/ POP \/ B1 \/ B2 \/ BL \/ BLX \/ BX \/ BKPT \/ WFE \/ WFI
    \/ Unknown \/ Unknown32 \/ NoInstruction

Spec == Init /\ [][Next]_vars

\* mcu_runloop steps the mcu again and again until it is halted.
FairSpec == Spec /\ WF_vars(Next)
==============================================================================
