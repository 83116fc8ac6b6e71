------------------------------ MODULE QuadSpaces ------------------------------
(***************************************************************************)
(* src/WebContent/js/QuadSpaces.js: the names of nested cubes of space,    *)
(* used as channels of a virtual world.  A position is written in base 4   *)
(* with the digits -2..1 on every axis at once, smallest cubes first; the  *)
(* cubes that are at the origin on all axes are left out at the large end. *)
(*                                                                         *)
(* A cube is a record [at |-> digits, p |-> power of two]; "1_0_-2_2" is   *)
(* its text.  A name is the list of cubes that contain a position;         *)
(* listToString writes it down.  Positions are integers here, in the       *)
(* program they are doubles, of which |0 takes the integer part.           *)
(***************************************************************************)
EXTENDS Integers, Sequences

CONSTANTS Axes,         \* x, y, z in the program
          Bits          \* width of the integers behind |0, & and >>: 32

ASSUME BitsAssumption == Bits \in Nat /\ Bits >= 4

Vectors == [Axes -> Int]
Origin == [a \in Axes |-> 0]
Add(v, w) == [a \in Axes |-> v[a] + w[a]]

Digits == -2..1
Cubes == [at : [Axes -> Digits], p : Nat]

(* Math.pow(2, n)                                                          *)
TwoTo[n \in Nat] == IF n = 0 THEN 1 ELSE 2 * TwoTo[n - 1]

(* n | 0 of an integer: the value of its low Bits bits as a signed number. *)
Half == TwoTo[Bits - 1]
Ints == -Half..(Half - 1)
ToInt(n) == ((n + Half) % (2 * Half)) - Half

(* The integer part of n * 2^-bias: the fraction is dropped, so it rounds  *)
(* towards zero and the cube at zero is twice as wide as the others.       *)
Truncated(n, bias) == IF n >= 0 THEN n \div TwoTo[bias] ELSE -((-n) \div TwoTo[bias])

(* (n * 2^-bias) | 0                                                       *)
Quotient(n, bias) == ToInt(Truncated(n, bias))

(* n += 2; i = n & 3; the digit is i - 2                                   *)
Digit(n) == ((n + 2) % 4) - 2

(* A mistake for the mutants: the digit, which may be negative, is not     *)
(* taken off before the shift.                                             *)
ShiftOnly(n) == ToInt(n) \div 4

(* n -= i; n = (n >> 2) | 0                                                *)
Shift(n) == ToInt(n - Digit(n)) \div 4

(* What the loop of decompose has left of a coordinate after each number   *)
(* of rounds.  Each takes a quarter, so it ends within MaxRounds.          *)
MaxRounds == (Bits \div 2) + 1
Left(n) == LET left[k \in 0..MaxRounds] == IF k = 0 THEN n ELSE Shift(left[k - 1]) IN left

(* QuadSpaces.decompose(v, bias): one cube and, as long as something is    *)
(* left on any axis, another of the next size.                             *)
decompose(v, bias) ==
    LET left == [a \in Axes |-> Left(Quotient(v[a], bias))]
        Rounds == {k \in 1..MaxRounds : k = 1 \/ \E a \in Axes : left[a][k - 1] # 0}
    IN  [k \in Rounds |-> [at |-> [a \in Axes |-> Digit(left[a][k - 1])],
                           p  |-> bias + 2 * (k - 1)]]

(* QuadSpaces.getMinCorner(cube)                                           *)
getMinCorner(cube) == [a \in Axes |-> cube.at[a] * TwoTo[cube.p]]

(* QuadSpaces.reconstitute(quadspaces): the sum of the corners.            *)
reconstitute(name) ==
    [a \in Axes |->
        LET sum[n \in 0..Len(name)] ==
                IF n = 0 THEN 0 ELSE sum[n - 1] + getMinCorner(name[n])[a]
        IN  sum[Len(name)]]

(* A mistake for the mutants: neighbours more than a cube away.            *)
FarSurroundingSpaceNames(position, bias) ==
    {decompose(Add(position, offset), bias) : offset \in [Axes -> {-(2 * TwoTo[bias]), 0, 2 * TwoTo[bias]}]}

(* QuadSpaces.surroundingSpaceNames(position, bias, bias + 1): the names,  *)
(* at one size, of the position and of the points three quarters of a cube *)
(* away from it on any axes.                                               *)
surroundingSpaceNames(position, bias) ==
    LET length == (3 * TwoTo[bias]) \div 4
    IN  {decompose(Add(position, offset), bias) : offset \in [Axes -> {-length, 0, length}]}

-------------------------------------------------------------------------------
(* The positions whose coordinates, in cubes, are integers of the program, *)
Fits(v, bias) == \A a \in Axes : Truncated(v[a], bias) \in Ints

(* and those whose names come out right: the integers must leave room for  *)
(* the 2 that is added before each digit is taken.                         *)
InRange(v, bias) == \A a \in Axes : Truncated(v[a], bias) \in -Half..(Half - 3)
===============================================================================
