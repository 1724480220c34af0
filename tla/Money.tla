-------------------------------- MODULE Money --------------------------------
(***************************************************************************)
(* Amounts and rates as text: `Money` and `InterestRate` of                *)
(* src/src/domain.rs, and the prompts of src/src/cli.rs that read them.    *)
(* A line is a sign, a whole part and the digits after the point, each of  *)
(* which may be missing; the line without any of them stands for all that  *)
(* have no such form, which are refused as well.                           *)
(***************************************************************************)
EXTENDS Integers, Sequences, FiniteSets

CONSTANTS
    MaxCents,          \* i64::MAX
    MaxBasisPoints,    \* u32::MAX
    Wholes,            \* the whole parts that are typed
    Digits             \* the digits that are typed after the point

ASSUME TextAssumption ==
    /\ MaxCents \in Nat /\ MaxBasisPoints \in Nat
    /\ Wholes \subseteq Nat /\ Digits \subseteq 0..9

VARIABLES
    prompt,            \* what was asked for last
    line,              \* what was typed
    answer             \* what the program has read from it: at most one number

moneyVars == <<prompt, line, answer>>

Line == [sign : {"", "-", "+"}, whole : {{}} \cup {{n} : n \in Wholes},
         fraction : UNION {[1..n -> Digits] : n \in 0..3}]

Prompts == {"Money", "NonNegativeMoney", "PositiveMoney", "PositiveRate"}

-----------------------------------------------------------------------------

Whole(t) == IF t.whole = {} THEN 0 ELSE CHOOSE n \in t.whole : TRUE

\* Slip: one digit is read as if it were the second.
HundredthsUnscaled(fraction) ==
    CASE Len(fraction) = 0 -> 0
      [] Len(fraction) = 1 -> fraction[1]
      [] OTHER -> 10 * fraction[1] + fraction[2]

Hundredths(fraction) ==
    CASE Len(fraction) = 0 -> 0
      [] Len(fraction) = 1 -> 10 * fraction[1]
      [] OTHER -> 10 * fraction[1] + fraction[2]

\* A number of hundredths that fits.
Fitting(t, max) ==
    {n \in {100 * Whole(t) + Hundredths(t.fraction)} : Len(t.fraction) <= 2 /\ n <= max}

\* `Money::from_str`: the sign is applied last, to a number that has fitted
\* without it.
ReadMoney(t) ==
    {IF t.sign = "-" THEN -n ELSE n :
       n \in IF t.whole = {} /\ t.fraction = << >> THEN {} ELSE Fitting(t, MaxCents)}

\* `InterestRate::from_str`: no minus, and a whole part.
ReadRate(t) == IF t.sign = "-" \/ t.whole = {} THEN {} ELSE Fitting(t, MaxBasisPoints)

\* `Money` as the program prints it.
Display(cents) ==
    LET absolute == IF cents < 0 THEN -cents ELSE cents
    IN  [sign |-> IF cents < 0 THEN "-" ELSE "", whole |-> {absolute \div 100},
         fraction |-> <<(absolute % 100) \div 10, absolute % 10>>]

\* What a prompt takes; it asks again when there is nothing.
Taken(p, t) ==
    CASE p = "Money"            -> ReadMoney(t)
      [] p = "NonNegativeMoney" -> {n \in ReadMoney(t) : n >= 0}
      [] p = "PositiveMoney"    -> {n \in ReadMoney(t) : n > 0}
      [] p = "PositiveRate"     -> {n \in ReadRate(t) : n # 0}

-----------------------------------------------------------------------------

MoneyInit ==
    /\ prompt \in Prompts
    /\ line = [sign |-> "", whole |-> {}, fraction |-> << >>]
    /\ answer = {}

\* A line is typed at a prompt.
Type(p, t) == prompt' = p /\ line' = t /\ answer' = Taken(p, t)

MoneyNext == \E p \in Prompts, t \in Line : Type(p, t)

MoneySpec == MoneyInit /\ [][MoneyNext]_moneyVars

-----------------------------------------------------------------------------
(* Properties.                                                             *)

\* What a line means, in thousandths.
Thousandths(t) ==
    LET Digit(i) == IF i <= Len(t.fraction) THEN t.fraction[i] ELSE 0
        absolute == 1000 * Whole(t) + 100 * Digit(1) + 10 * Digit(2) + Digit(3)
    IN  IF t.sign = "-" THEN -absolute ELSE absolute

\* The numbers that a prompt is there for, in hundredths.
Expected(p) ==
    CASE p = "Money"            -> -MaxCents..MaxCents
      [] p = "NonNegativeMoney" -> 0..MaxCents
      [] p = "PositiveMoney"    -> 1..MaxCents
      [] p = "PositiveRate"     -> 1..MaxBasisPoints

\* A prompt reads the number that the line means, and reads every line that
\* means one it is there for in at most two digits after the point, up to the
\* largest number there is; and what is read can be printed and read again.
ReadsAsWritten ==
    /\ answer = {n \in Expected(prompt) :
                   /\ 10 * n = Thousandths(line)
                   /\ Len(line.fraction) <= 2
                   /\ line.whole # {} \/ (line.fraction # << >> /\ prompt # "PositiveRate")}
    /\ prompt # "PositiveRate" =>
         \A n \in answer : ReadMoney(Display(n)) = {n}

=============================================================================
