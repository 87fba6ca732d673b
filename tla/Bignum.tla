-------------------------------- MODULE Bignum --------------------------------
(***************************************************************************)
(* c/bignum: decimal numbers with a sign, a point and a vector of digits,  *)
(* the least significant first.  The arithmetic works in its operands: it  *)
(* pads both to one size, flips their signs for a while and strips them of *)
(* zeros when it is done.  An operator here returns the operands as they   *)
(* are left (.a, .b) and the result (.r).                                  *)
(*                                                                         *)
(* The machine below is a caller that applies operations to two numbers.   *)
(* Division is left out: ten rounds of Newton's iteration, each of which   *)
(* doubles the number of digits.                                           *)
(***************************************************************************)
EXTENDS Integers, Sequences, SequencesExt, FiniteSetsExt

CONSTANTS
  Magnitudes,  \* the absolute values of the integers made with newBignumOf
  Points, \* where the caller sets their points
  Terms   \* the number of terms in a binary splitting

VARIABLES x, y, res, op  \* two numbers, the last result, the last operation

bignumVars == <<x, y, res, op>>

PLUS == 1
MINUS == -1

-----------------------------------------------------------------------------
(* Representation *)

\* What a row of digits means.
IntOf(ds) == FoldRight(LAMBDA dig, rest : dig + 10 * rest, ds, 0)
Abs(n) == IF n < 0 THEN -n ELSE n
Zeros(n) == [k \in 1 .. n |-> 0]
BLen(b) == Len(b.digits)
MSP(b) == BLen(b) - b.point
AtLeast(m, n) == IF m < n THEN n ELSE m

digitCount(n) == CHOOSE k \in 1 .. 10 : n < 10^k /\ (k = 1 \/ n >= 10^(k - 1))

newBignumOf(n) ==
  LET m == Abs(n)
  IN  [sign |-> IF n < 0 THEN MINUS ELSE PLUS, point |-> 0,
       digits |-> [k \in 1 .. digitCount(m) |-> (m \div 10^(k - 1)) % 10]]

resizeBignum(b, size) ==
  [b EXCEPT !.digits = IF size < BLen(b) THEN SubSeq(@, 1, size) ELSE @ \o Zeros(size - BLen(b))]

extendMSP(b, size) == resizeBignum(b, b.point + size)
setPoint(b, p) == [IF p >= BLen(b) THEN extendMSP(b, p + 1) ELSE b EXCEPT !.point = p]
shlBignum(b, s) == [b EXCEPT !.digits = Zeros(s) \o @]
extendLSP(b, size) ==
  IF size > b.point THEN [shlBignum(b, size - b.point) EXCEPT !.point = size] ELSE b

\* matchSizes, for one operand beside the other
padded(b, o) ==
  LET l == extendLSP(b, o.point)
  IN  IF MSP(o) > MSP(l) THEN extendMSP(l, MSP(o)) ELSE l

lspZeroes(b) == Max({k \in 0 .. b.point : \A j \in 1 .. k : b.digits[j] = 0})

\* Zeros behind the point and in front of the units go.  (The point is never
\* in front of all digits, so that at least one is left.)
shrink(b) ==
  LET keep == Min({k \in b.point + 1 .. BLen(b) : \A j \in k + 1 .. BLen(b) : b.digits[j] = 0})
  IN  [b EXCEPT !.digits = SubSeq(@, lspZeroes(b) + 1, keep), !.point = @ - lspZeroes(b)]

split(b, loLen) ==
  LET part(ds) == shrink([sign |-> PLUS, point |-> 0, digits |-> ds])
  IN  [hi |-> part(SubSeq(b.digits, loLen + 1, BLen(b))), lo |-> part(SubSeq(b.digits, 1, loLen))]

-----------------------------------------------------------------------------
(* Arithmetic *)

\* The first digits from the top that differ decide; -1, 0, 1 are LT, EQ, GT.
compareDigits(a, b) ==
  LET diff == {k \in 1 .. BLen(a) : a.digits[k] # b.digits[k]}
  IN  IF diff = {} THEN 0 ELSE IF a.digits[Max(diff)] < b.digits[Max(diff)] THEN -1 ELSE 1

compareAbsBignum(a, b) == compareDigits(padded(a, b), padded(b, a))

compareBignum(a, b) ==
  IF a.sign # b.sign THEN (IF a.sign < b.sign THEN -1 ELSE 1)
  ELSE compareAbsBignum(a, b) * a.sign

\* The loop over the digits of two numbers of one size, the first not smaller.
addDigits(a, b) ==
  LET step(acc, k) ==
        LET s == a.digits[k] + b.digits[k] * a.sign * b.sign + acc.carry
        IN  [out |-> Append(acc.out, s % 10), carry |-> s \div 10]
      sum == FoldLeft(step, [out |-> <<>>, carry |-> 0], [k \in 1 .. BLen(a) |-> k])
  IN  [a EXCEPT !.digits = Append(sum.out, sum.carry)]

\* Numbers of different signs are swapped unless the first one is larger.
swaps(a, b) ==
  a.sign # b.sign /\ (compareAbsBignum(a, b) = -1 \/ (compareAbsBignum(a, b) = 0 /\ a.sign = MINUS))

addBignum(a, b) ==
  LET pa == padded(a, b)
      pb == padded(b, a)
  IN  [a |-> shrink(pa), b |-> shrink(pb),
       r |-> shrink(IF swaps(pa, pb) THEN addDigits(pb, pa) ELSE addDigits(pa, pb))]

negated(b) == [b EXCEPT !.sign = -@]
subBignum_NoUndo(a, b) == addBignum(a, negated(b))  \* mutant: b stays negated
subBignum(a, b) == [addBignum(a, negated(b)) EXCEPT !.b = negated(@)]

\* Karatsuba's multiplication.  The halves have no sign and no point.
RECURSIVE mulBignum(_, _)
mulBignum(a, b) ==
  IF BLen(a) < 2 /\ BLen(b) < 2
  THEN [a |-> a, b |-> b, r |-> newBignumOf(a.digits[1] * b.digits[1])]
  ELSE LET pa == padded(a, b)
           pb == padded(b, a)
           m  == BLen(pa) \div 2
           ap == split(pa, m)
           bp == split(pb, m)
           z0 == mulBignum(ap.lo, bp.lo).r
           z1 == mulBignum(addBignum(ap.lo, ap.hi).r, addBignum(bp.lo, bp.hi).r).r
           z2 == mulBignum(ap.hi, bp.hi).r
           mid == subBignum(subBignum(z1, z2).r, z0).r
           sum == addBignum(addBignum(shlBignum(z2, 2 * m), shlBignum(mid, m)).r, z0).r
           signed == [sum EXCEPT !.sign = pa.sign * pb.sign, !.point = pa.point + pb.point]
       IN  [a |-> shrink(pa), b |-> shrink(pb), r |-> shrink(setPoint(signed, signed.point))]

-----------------------------------------------------------------------------
(* Binary splitting over the numbers start + 1 .. end *)

bsP(n) == subBignum(mulBignum(newBignumOf(n), newBignumOf(2)).r, newBignumOf(1)).r
bsQ(n) == mulBignum(newBignumOf(n), newBignumOf(4)).r

\* The factors are what func returns for the numbers start + 1 .. end.
calculateLoop(factors) ==
  FoldLeft(LAMBDA acc, f : mulBignum(acc, f).r, newBignumOf(1), factors)

RECURSIVE calculateT(_, _)
calculateT(start, end) ==
  IF start = end - 1 THEN bsP(end)
  ELSE LET m == (end + start) \div 2
       IN  addBignum(mulBignum(calculateLoop([k \in 1 .. end - m |-> bsQ(m + k)]), calculateT(start, m)).r,
                     mulBignum(calculateLoop([k \in 1 .. m - start |-> bsP(start + k)]), calculateT(m, end)).r).r

-----------------------------------------------------------------------------
(* The caller *)

Make(n, p) == setPoint(newBignumOf(n), p)

Init == x = newBignumOf(0) /\ y = newBignumOf(0) /\ res = newBignumOf(0) /\ op = "none"

Pick ==
  /\ op = "none"
  /\ \E m, n \in Magnitudes \cup {-k : k \in Magnitudes}, p, q \in Points : x' = Make(m, p) /\ y' = Make(n, q)
  /\ op' = "made"
  /\ UNCHANGED res

\* An operation on the two numbers as the ones before have left them.
Operate(name, out) ==
  /\ op \notin {"none", "T"}
  /\ x' = out.a /\ y' = out.b /\ res' = out.r
  /\ op' = name

Add == Operate("add", addBignum(x, y))
Sub == Operate("sub", subBignum(x, y))
Mul == Operate(IF BLen(x) < 2 /\ BLen(y) < 2 THEN "mulDigits" ELSE "mul", mulBignum(x, y))

Compare ==
  /\ op \notin {"none", "T"}
  /\ IF x.sign # y.sign THEN UNCHANGED <<x, y>> ELSE x' = padded(x, y) /\ y' = padded(y, x)
  /\ res' = newBignumOf(compareBignum(x, y))
  /\ op' = "compare"

\* x and y hold the bounds.
Splitting ==
  /\ op = "none"
  /\ \E s, e \in 0 .. Terms :
       s < e /\ x' = newBignumOf(s) /\ y' = newBignumOf(e) /\ res' = calculateT(s, e)
  /\ op' = "T"

Next == Pick \/ Add \/ Sub \/ Mul \/ Compare \/ Splitting
Spec == Init /\ [][Next]_bignumVars

-----------------------------------------------------------------------------
(* Properties *)

\* Bound: digits behind the point of a product.
Scale == 2 * Max(Points)
Value(b) == b.sign * IntOf(b.digits) * 10^(Scale - b.point)
One == 10^Scale
Times(v, w) == (v \div 10^Max(Points)) * (w \div 10^Max(Points))
Sign(n) == IF n < 0 THEN -1 ELSE IF n = 0 THEN 0 ELSE 1

Product(S) == FoldSet(LAMBDA k, acc : k * acc, 1, S)
\* What the splitting is to compute: the sum over k of
\* p(start + 1) * .. * p(k) * q(k + 1) * .. * q(end), with p(n) = 2n - 1, q(n) = 4n.
TermSum(start, end) ==
  MapThenSumSet(LAMBDA k : Product({2 * n - 1 : n \in start + 1 .. k}) *
                           Product({4 * n : n \in k + 1 .. end}),
                start + 1 .. end)

Operations == {"add", "sub", "mul", "mulDigits", "compare"}

\* bignum.h:60 says that mulBignum is to "multiply two bignums".
ProductExact == op \in {"mul", "mulDigits"} => Value(res) = Times(Value(x), Value(y))

\* Of the sign of a product of two digits it says nothing: see ProductExact.
ExactNow ==
  /\ op = "add" => Value(res) = Value(x) + Value(y)
  /\ op = "sub" => Value(res) = Value(x) - Value(y)
  /\ op = "mul" => ProductExact
  /\ op = "mulDigits" => Abs(Value(res)) = Abs(Times(Value(x), Value(y)))
  /\ op = "compare" => Value(res) = Sign(Value(x) - Value(y)) * One
  /\ op = "T" =>
       IntOf(res.digits) = TermSum(Value(x) \div One, Value(y) \div One)

\* An operation pads, negates and strips its operands, but leaves each with the
\* value it had and with its point inside its digits.
Keeps ==
  /\ Value(x') = Value(x) /\ Value(y') = Value(y)
  /\ \A b \in {x', y', res'} : b.point < BLen(b)

\* Results are exact (a product of two digits but for its sign), whatever padding
\* earlier operations have left the operands with, and no operation changes what
\* its operands stand for.
Exact == [][ExactNow' /\ (op' \in Operations => Keeps)]_bignumVars
=============================================================================
