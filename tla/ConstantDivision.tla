-------------------------- MODULE ConstantDivision --------------------------
(***************************************************************************)
(* The constants that multiplications and divisions by a constant are made *)
(* of (lib/Solver/ConstantDivision.cpp, include/klee/util/Bits.h), for     *)
(* both builders of solver terms.                                          *)
(***************************************************************************)
EXTENDS Expressions

CONSTANT optimizeDivides   \* the builders' argument

Shifts == {"Shl", "LShr", "AShr"}

\* bits64 of Bits.h.
isPowerOfTwo(x)         == \E n \in 0 .. Long - 1 : x = 2^n
indexOfSingleBit(x)     == CHOOSE n \in 0 .. Long : x = 2^n
isolateRightmostBit(x)  == Max({n \in {2^i : i \in 0 .. Long} : x % n = 0})

\* Bits it takes to count up to an amount.
getShiftBits[amount \in 1 .. Long] ==
  IF amount <= 2 THEN 1 ELSE 1 + getShiftBits[(amount + 1) \div 2]

(***************************************************************************)
(* A factor as a sum of powers of two less another: every run of ones from *)
(* bit low up to bit high becomes 2^high - 2^low.                          *)
(***************************************************************************)
RECURSIVE MultConstants(_, _, _)
MultConstants(x, add, sub) ==
  LET lowbit == isolateRightmostBit(x)
      p      == (x + lowbit) % 2^Long
      q      == IF p = 0 THEN 0 ELSE isolateRightmostBit(p)
      single == IF q = 0 THEN lowbit = 2^(Long - 1) ELSE q = 2 * lowbit
      below  == lowbit \div 2
      merge  == lowbit > 1 /\ (add & below) # 0
  IN  IF x = 0 THEN [add |-> add, sub |-> sub]
      ELSE IF single THEN MultConstants(p - q, add | lowbit, sub)
      ELSE IF merge THEN MultConstants(p - q, (add ^^ below) | q, sub ^^ below)
      ELSE MultConstants(p - q, add | q, sub | lowbit)
ComputeMultConstants64 == [x \in 0 .. 2^Long - 1 |-> MultConstants(x, 0, 0)]

(***************************************************************************)
(* A fixed point inverse of a divisor.                                     *)
(***************************************************************************)
\* Mutant of LOG2_CEIL: rounds down.
LOG2_FLOOR(x) == CHOOSE n \in 0 .. IntWidth : 2^n <= x /\ x < 2^(n + 1)

LOG2_CEIL(x)  == CHOOSE n \in 0 .. IntWidth : 2^n >= x /\ \A m \in 0 .. n - 1 : 2^m < x
exp_base_2(n) == IF n < IntWidth THEN 2^n ELSE 0

ComputeUDivConstants32 ==
  [d \in 1 .. 2^IntWidth - 1 |->
     LET l   == LOG2_CEIL(d)
         mid == (exp_base_2(l) - d) % 2^IntWidth
     IN  [mprime |-> ((2^IntWidth * mid) \div d + 1) % 2^IntWidth,
          sh1    |-> IF l < 1 THEN l ELSE 1,
          sh2    |-> IF l > 0 THEN l - 1 ELSE 0]]

ComputeSDivConstants32 ==
  [d \in 1 .. 2^IntWidth - 1 |->
     LET abs_d == Abs(SignedOf(d, IntWidth))
         l     == IF abs_d = 2^(IntWidth - 1) THEN IntWidth - 1
                  ELSE IF LOG2_CEIL(abs_d) < 1 THEN 1 ELSE LOG2_CEIL(abs_d)
         m     == (2^IntWidth * exp_base_2(l - 1)) \div abs_d + 1
     IN  [mprime |-> m % 2^IntWidth,
          dsign  |-> IF SignedOf(d, IntWidth) < 0 THEN 2^IntWidth - 1 ELSE 0,
          shpost |-> l - 1]]
=============================================================================
