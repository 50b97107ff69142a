------------------------------- MODULE ThumbAlu ------------------------------
(***************************************************************************)
(* The arithmetic of tools/simulator/cortex-m0p/mcu.c: words, the four     *)
(* condition flags and the conditions of a branch.  The words have any     *)
(* even size; in the simulator Half is 2^31, the weight of the sign bit.   *)
(***************************************************************************)
EXTENDS Integers

CONSTANT Half

ASSUME ThumbAluAssumption == Half \in Nat \ {0}

Word == 0..2 * Half - 1

\* uint32_t arithmetic wraps; x is less than a word's range away from one.
Wrap(x) ==
    IF x >= 2 * Half THEN x - 2 * Half ELSE IF x < 0 THEN x + 2 * Half ELSE x

\* ~a
Invert(a) == 2 * Half - 1 - a

\* a & 0x7FFFFFFF
Low(a) == IF a >= Half THEN a - Half ELSE a

\* a >> 31
Top(a) == IF a >= Half THEN 1 ELSE 0

nflag(c) == c >= Half

zflag(c) == c = 0

(* The carry into the sign bit, and the number of carries and sign bits.   *)
CarryIn(a, b, c) == Top(Low(a) + Low(b) + c)

TopSum(a, b, c) == CarryIn(a, b, c) + Top(a) + Top(b)

\* mcu_update_cflag
cflag(a, b, c) == TopSum(a, b, c) >= 2

\* mcu_update_vflag: the carries into and out of the sign bit differ.
vflag(a, b, c) == (CarryIn(a, b, c) = 1) # (TopSum(a, b, c) >= 2)

(* The flags after an addition of a and b.                                 *)
AddFlags(a, b) ==
    LET c == Wrap(a + b)
    IN  [n |-> nflag(c), z |-> zflag(c), c |-> cflag(a, b, 0), v |-> vflag(a, b, 0)]

(* The flags after a subtraction of b from a.                              *)
SubFlags(a, b) ==
    LET c == Wrap(a - b)
    IN  [n |-> nflag(c), z |-> zflag(c),
         c |-> cflag(a, Invert(b), 1), v |-> vflag(a, Invert(b), 1)]

\* A faulty SBC: the flags do not see the borrow.
SbcFlags_no_borrow(a, b, carry) == SubFlags(a, b)

(* The flags after a subtraction with a borrow unless carry is set.        *)
SbcFlags(a, b, carry) ==
    LET c   == IF carry THEN Wrap(a - b) ELSE Wrap(Wrap(a - b) - 1)
        one == IF carry THEN 1 ELSE 0
    IN  [n |-> nflag(c), z |-> zflag(c),
         c |-> cflag(a, Invert(b), one), v |-> vflag(a, Invert(b), one)]

Conditions == {"eq", "ne", "cs", "cc", "mi", "pl", "vs", "vc", "hi", "ls", "ge", "lt", "gt", "le"}

(* B(1): is the branch taken?                                              *)
Taken(cond, f) ==
    CASE cond = "eq" -> f.z
      [] cond = "ne" -> ~f.z
      [] cond = "cs" -> f.c
      [] cond = "cc" -> ~f.c
      [] cond = "mi" -> f.n
      [] cond = "pl" -> ~f.n
      [] cond = "vs" -> f.v
      [] cond = "vc" -> ~f.v
      [] cond = "hi" -> f.c /\ ~f.z
      [] cond = "ls" -> f.z \/ ~f.c
      [] cond = "ge" -> f.n = f.v
      [] cond = "lt" -> f.n # f.v
      [] cond = "gt" -> ~f.z /\ f.n = f.v
      [] cond = "le" -> f.n = f.v \/ f.z

-----------------------------------------------------------------------------
(* What the conditions stand for after a comparison of a and b, on the     *)
(* words as unsigned and as signed numbers.                                *)

Signed(a) == IF a >= Half THEN a - 2 * Half ELSE a

Fits(x) == -Half <= x /\ x < Half

Comparisons == Conditions \ {"mi", "pl", "le"}

Relation(cond, a, b) ==
    CASE cond = "eq" -> a = b
      [] cond = "ne" -> a # b
      [] cond = "cs" -> a >= b
      [] cond = "cc" -> a < b
      [] cond = "hi" -> a > b
      [] cond = "ls" -> a <= b
      [] cond = "ge" -> Signed(a) >= Signed(b)
      [] cond = "lt" -> Signed(a) < Signed(b)
      [] cond = "gt" -> Signed(a) > Signed(b)
      [] cond = "vs" -> ~Fits(Signed(a) - Signed(b))
      [] cond = "vc" -> Fits(Signed(a) - Signed(b))
==============================================================================
