----------------------------- MODULE Calculator -----------------------------
(***************************************************************************)
(* The calculator of lab_1/Calc_C: it reads "number operator number",      *)
(* prints the result with two decimals and saves it so in a file, from     *)
(* which the keyword ANS takes it.  Numbers are counted in hundredths.     *)
(***************************************************************************)
EXTENDS Runtime

CONSTANTS Numbers,      \* the numbers typed, in hundredths
          ANS,          \* the keyword
          MAX_LINES     \* how many lines are typed

Programs == {"calc"}

Operators == {"+", "-", "x", "/", "%"}
Operands == Numbers \cup {ANS}

(* No file ans.txt is as good as one with 0.  `shown' is the last result   *)
(* printed, and `kept' says whether it could be saved.                     *)
Init == Start("calc", [main |-> "read"],
              [ans |-> 0, shown |-> 0, kept |-> TRUE, lines |-> 0])

Value(s) == IF s = ANS THEN mem.ans ELSE s

Abs(n) == IF n < 0 THEN -n ELSE n
(* C's division and remainder go towards zero. *)
Quot(a, b) == IF (a < 0) = (b < 0) THEN Abs(a) \div Abs(b) ELSE -(Abs(a) \div Abs(b))
Rem(a, b) == a - b * Quot(a, b)

(* What "%.2f" may make of a / b hundredths: a nearest number. *)
Rounded(a, b) ==
  LET q == Quot(a, b)
  IN  {r \in {q - 1, q, q + 1} : 2 * Abs(a - r * b) <= Abs(b)}

MathError(op, b) == op \in {"/", "%"} /\ b = 0
Crash(op, b) == op = "%" /\ b # 0 /\ Quot(b, 100) = 0

Results(a, op, b) ==
  CASE op = "+" -> {a + b}
    [] op = "-" -> {a - b}
    [] op = "x" -> Rounded(a * b, 100)
    [] op = "/" -> Rounded(100 * a, b)
    [] op = "%" -> {100 * Rem(Quot(a, 100), Quot(b, 100))}

Typed == mem.lines < MAX_LINES

(* EXIT; at the end of the input the program loops without reading.        *)
Leave == Goto("main", "read", "exited") \/ Goto("main", "read", "loops")

SyntaxError == /\ Typed
               /\ Move("main", "read", "read", [mem EXCEPT !.lines = @ + 1])

CalculateFails(s, op, u) ==
  /\ Typed /\ MathError(op, Value(u))
  /\ Move("main", "read", "read", [mem EXCEPT !.lines = @ + 1])

(* (int)num1 % (int)num2: the test for zero comes before the conversion.   *)
CalculateCrashes(s, op, u) ==
  /\ Typed /\ Crash(op, Value(u))
  /\ Move("main", "read", "killed", [mem EXCEPT !.lines = @ + 1])

(* The file may not be writable; the result is shown all the same. *)
Calculate(s, op, u) ==
  LET a == Value(s)  b == Value(u)
  IN  /\ Typed /\ ~MathError(op, b) /\ ~Crash(op, b)
      /\ \E r \in Results(a, op, b), saved \in BOOLEAN :
           Move("main", "read", "read",
                [mem EXCEPT !.lines = @ + 1, !.shown = r, !.kept = saved,
                            !.ans = IF saved THEN r ELSE @])

Step == \/ Leave \/ SyntaxError
        \/ \E s \in Operands, op \in Operators, u \in Operands :
             CalculateFails(s, op, u) \/ CalculateCrashes(s, op, u) \/ Calculate(s, op, u)

Next == program = "calc" /\ Step

Fairness == WF_vars(Next)

(* ANS is the last result that was shown, errors in between included, as   *)
(* long as it could be saved.                                              *)
AnsIsLastResult == program = "calc" /\ mem.kept => mem.ans = mem.shown

AtRest == pc["main"] \in {"exited", "loops", "killed"}
=============================================================================
