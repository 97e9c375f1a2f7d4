--------------------------- MODULE VersionCompare ---------------------------
(***************************************************************************)
(* `bhpkg_vercmp' and `eval_constraint' of solver.rs: which of two versions *)
(* is the newer, and whether a version meets a constraint.  A version is a *)
(* sequence of characters, [epoch ":"] base ["-" revision].                *)
(***************************************************************************)
EXTENDS Integers, Sequences

CONSTANTS Code,      \* the code of every character
          Digit,     \* is_ascii_digit
          Letter,    \* is_ascii_alphabetic
          MaxNumber, \* where a number of a version saturates (2^63 - 1)
          MaxEpoch   \* where an epoch no longer parses (2^31 - 1)

Char == DOMAIN Code

ASSUME CompareAssumption ==
  \* No version has a NUL in it, which would weigh what its end does.
  /\ Code \in [Char -> Nat \ {0}]
  /\ Digit \subseteq Char /\ "0" \in Digit /\ \A d \in Digit : Code[d] >= Code["0"]
  /\ Letter \subseteq Char /\ \A c \in Letter : Code[c] <= 256
  /\ {"~", ":", "-"} \cap (Digit \cup Letter) = {} /\ Digit \cap Letter = {}
  /\ MaxNumber \in Nat /\ MaxEpoch \in Nat

Lesser(x, y) == IF x < y THEN x ELSE y
Sign(x) == IF x < 0 THEN -1 ELSE IF x > 0 THEN 1 ELSE 0

\* Mutant: "~" is a character like others.
OrderPlain(c) == IF c \in Digit THEN 0 ELSE IF c \in Letter THEN Code[c] ELSE Code[c] + 256

order(c) ==
  CASE c \in Digit  -> 0
    [] c \in Letter -> Code[c]
    [] c = "~"      -> -1
    [] OTHER        -> Code[c] + 256

\* The end of a string weighs what a digit does.
Weight(s) == IF s = <<>> THEN 0 ELSE order(Head(s))
Rest(s) == IF s = <<>> THEN <<>> ELSE Tail(s)

InText(s) == s # <<>> /\ Head(s) \notin Digit

\* The first character of s that is not a digit, past the end if there is none.
AfterDigits(s) == CHOOSE k \in 1 .. Len(s) + 1 :
  /\ \A j \in 1 .. k - 1 : s[j] \in Digit
  /\ k <= Len(s) => s[k] \notin Digit

\* saturating_mul and saturating_add, digit by digit.
Decimal(digits, limit) ==
  LET value[k \in 0 .. Len(digits)] ==
        IF k = 0 THEN 0
        ELSE Lesser(limit, Lesser(limit, value[k - 1] * 10) + Code[digits[k]] - Code["0"])
  IN  value[Len(digits)]

Number(s) == Decimal(SubSeq(s, 1, AfterDigits(s) - 1), MaxNumber)
AfterNumber(s) == SubSeq(s, AfterDigits(s), Len(s))

\* The first of a sequence of verdicts that decides.
FirstVerdict(verdicts) ==
  LET Deciding == {k \in DOMAIN verdicts : verdicts[k] # 0}
  IN  IF Deciding = {} THEN 0 ELSE verdicts[CHOOSE k \in Deciding : \A j \in Deciding : k <= j]

\* What a round of the loop finds, and what it leaves of the two strings.
Verdict(v, r) ==
  IF InText(v) \/ InText(r) THEN Sign(Weight(v) - Weight(r)) ELSE Sign(Number(v) - Number(r))

Left(v, r) ==
  IF InText(v) \/ InText(r) THEN <<Rest(v), Rest(r)>> ELSE <<AfterNumber(v), AfterNumber(r)>>

\* A round takes a character at least.
cmp_string(v, r) ==
  LET rounds[n \in 1 .. Len(v) + Len(r)] ==
        IF n = 1 THEN <<v, r>> ELSE Left(rounds[n - 1][1], rounds[n - 1][2])
  IN  FirstVerdict([n \in 1 .. Len(v) + Len(r) |-> Verdict(rounds[n][1], rounds[n][2])])

-----------------------------------------------------------------------------
\* str::parse::<i32> with its error taken for 0: a sign, then digits.
ParseEpoch(s) ==
  LET signed == s # <<>> /\ Head(s) \in {"-", "+"}
      digits == IF signed THEN Tail(s) ELSE s
      value == Decimal(digits, MaxEpoch + 2)
  IN  IF digits = <<>> \/ \E k \in DOMAIN digits : digits[k] \notin Digit THEN 0
      ELSE IF signed /\ Head(s) = "-" THEN IF value > MaxEpoch + 1 THEN 0 ELSE -value
      ELSE IF value > MaxEpoch THEN 0 ELSE value

\* split_once(':')
EpochAt(s) ==
  IF \A k \in DOMAIN s : s[k] # ":" THEN 0
  ELSE CHOOSE k \in DOMAIN s : s[k] = ":" /\ \A j \in DOMAIN s : s[j] = ":" => k <= j
Epoch(s) == IF EpochAt(s) = 0 THEN 0 ELSE ParseEpoch(SubSeq(s, 1, EpochAt(s) - 1))
Version(s) == SubSeq(s, EpochAt(s) + 1, Len(s))

\* rsplit_once('-')
RevisionAt(s) ==
  IF \A k \in DOMAIN s : s[k] # "-" THEN 0
  ELSE CHOOSE k \in DOMAIN s : s[k] = "-" /\ \A j \in DOMAIN s : s[j] = "-" => j <= k
Base(s) == IF RevisionAt(s) = 0 THEN s ELSE SubSeq(s, 1, RevisionAt(s) - 1)
Revision(s) == IF RevisionAt(s) = 0 THEN <<>> ELSE SubSeq(s, RevisionAt(s) + 1, Len(s))

\* Mutant: epochs count only when both are written.
VercmpWrittenEpochs(v, r) ==
  IF EpochAt(v) # 0 /\ EpochAt(r) # 0 /\ Epoch(v) # Epoch(r) THEN Sign(Epoch(v) - Epoch(r))
  ELSE LET base == cmp_string(Base(Version(v)), Base(Version(r)))
       IN  IF base # 0 THEN base ELSE cmp_string(Revision(Version(v)), Revision(Version(r)))

\* -1, 0 or 1: v is older than r, the same or newer.
bhpkg_vercmp(v, r) ==
  IF Epoch(v) # Epoch(r) THEN Sign(Epoch(v) - Epoch(r))
  ELSE LET base == cmp_string(Base(Version(v)), Base(Version(r)))
       IN  IF base # 0 THEN base ELSE cmp_string(Revision(Version(v)), Revision(Version(r)))

\* Mutant: not more than is taken for less than.
AdmitsStrictly(op, cmp) ==
  CASE op = ">=" -> cmp >= 0
    [] op = "<=" -> cmp < 0
    [] op \in {"==", "="} -> cmp = 0
    [] op = ">"  -> cmp > 0
    [] op = "<"  -> cmp < 0
    [] OTHER     -> TRUE

Admits(op, cmp) ==
  CASE op = ">=" -> cmp >= 0
    [] op = "<=" -> cmp <= 0
    [] op \in {"==", "="} -> cmp = 0
    [] op = ">"  -> cmp > 0
    [] op = "<"  -> cmp < 0
    [] OTHER     -> TRUE

\* The constraint is the text op followed by val, with or without blanks around op,
\* which the code trims.  It takes everything before the first digit for the
\* operator, and admits every version when it does not know it or there is none.
eval_constraint(ver, op, val) ==
  IF val # <<>> /\ Head(val) \notin Digit THEN TRUE ELSE Admits(op, bhpkg_vercmp(ver, val))
=============================================================================
