---------------------------- MODULE JsonNumber ------------------------------
(***************************************************************************)
(* Numbers as services/gateway/src/transform.rs computes with them: a JSON *)
(* number is an integer of 64 bits, signed or unsigned, or an f64; every   *)
(* arithmetic step goes through f64, and whole operands through i64 with   *)
(* checked operations.  The formats are scaled down: INT_BITS for 64,      *)
(* MANTISSA for the 53 bits of an f64, MAX_EXP for its largest exponent.   *)
(* A value is held as its number of quanta, QUANTA of them to the unit;    *)
(* one quantum is the smallest positive float.                             *)
(***************************************************************************)
EXTENDS Integers, FiniteSetsExt

CONSTANTS INT_BITS, MANTISSA, MAX_EXP, QUANTA

(* As for i64 and f64: the largest integers have bits that a float cannot  *)
(* hold, and every integer is within the range of floats.                  *)
ASSUME FormatAssumption ==
    /\ {INT_BITS, MANTISSA, MAX_EXP, QUANTA} \subseteq Nat \ {0}
    /\ MANTISSA + 2 < INT_BITS /\ INT_BITS < MAX_EXP

I64_MIN == -(2 ^ (INT_BITS - 1))
I64_MAX == 2 ^ (INT_BITS - 1) - 1
U64_MAX == 2 ^ INT_BITS - 1

Whole(n) == [rep |-> "int", q |-> n * QUANTA]
Float(q) == [rep |-> "float", q |-> q]

Abs(n) == IF n < 0 THEN -n ELSE n

(* The distance between neighbouring floats of the magnitude of n / d.     *)
Ulp(n, d) == Min({2 ^ e : e \in {k \in 0 .. 2 * MAX_EXP : Abs(n) < 2 ^ (MANTISSA + k) * d}})

(* The float nearest to n / d quanta, ties to the even one (d > 0).        *)
Rounded(n, d) ==
    LET u == Ulp(n, d)
        low == Abs(n) \div (u * d)
        rest == 2 * (Abs(n) % (u * d))
        up == rest > u * d \/ (rest = u * d /\ low % 2 = 1)
        size == u * (low + IF up THEN 1 ELSE 0)
    IN IF n < 0 THEN -size ELSE size

IsFinite(q) == Abs(q) < 2 ^ MAX_EXP * QUANTA

(* Number::as_f64 and the cast `as f64`.                                   *)
AsF64(q) == Rounded(q, 1)

(* The cast `as i64` of a whole float saturates.                           *)
CastI64(q) == Max({I64_MIN, Min({I64_MAX, q \div QUANTA})})

(* A whole float in the closed range of the bounds of i64, as floats.      *)
FitsI64(q) ==
    /\ q % QUANTA = 0
    /\ AsF64(I64_MIN * QUANTA) <= q /\ q <= AsF64(I64_MAX * QUANTA)

as_i64(q) == IF FitsI64(q) THEN {CastI64(q)} ELSE {}

-----------------------------------------------------------------------------
Err == [ok |-> FALSE]
Ok(q) == [ok |-> TRUE, q |-> q]

ApplyInt(kind, a, b) ==
    CASE kind = "Add" -> a + b [] kind = "Subtract" -> a - b [] kind = "Multiply" -> a * b

(* The result of an operation on two floats, rounded.                      *)
ApplyFloat(kind, x, y) ==
    CASE kind = "Add" -> Rounded(x + y, 1)
      [] kind = "Subtract" -> Rounded(x - y, 1)
      [] kind = "Multiply" -> Rounded(x * y, QUANTA)
      [] kind = "Divide" -> Rounded(IF y < 0 THEN -(x * QUANTA) ELSE x * QUANTA, Abs(y))

(* compute_arithmetic(current, op, operand): division by zero, integer     *)
(* overflow and an infinite result are errors.                             *)
UncheckedArithmetic(x, kind, y) ==
    IF kind = "Divide" /\ y = 0 THEN Err
    ELSE IF kind # "Divide" /\ as_i64(x) # {} /\ as_i64(y) # {}
      THEN LET r == ApplyInt(kind, CastI64(x), CastI64(y))
           IN Ok(AsF64(QUANTA * (((r - I64_MIN) % 2 ^ INT_BITS) + I64_MIN)))
    ELSE LET r == ApplyFloat(kind, x, y) IN IF IsFinite(r) THEN Ok(r) ELSE Err

compute_arithmetic(x, kind, y) ==
    IF kind = "Divide" /\ y = 0 THEN Err
    ELSE IF kind # "Divide" /\ as_i64(x) # {} /\ as_i64(y) # {}
      THEN LET r == ApplyInt(kind, CastI64(x), CastI64(y))
           IN IF r \in I64_MIN .. I64_MAX THEN Ok(AsF64(r * QUANTA)) ELSE Err
    ELSE LET r == ApplyFloat(kind, x, y) IN IF IsFinite(r) THEN Ok(r) ELSE Err

(* A whole result in the range of i64 is stored as an integer.             *)
StoredNumber(q) == IF FitsI64(q) THEN Whole(CastI64(q)) ELSE Float(q)
=============================================================================
