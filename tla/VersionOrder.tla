---------------------------- MODULE VersionOrder ----------------------------
(***************************************************************************)
(* One comparison of two versions, so that it can be held against what a   *)
(* comparison of versions should be: the order of the Debian policy manual, *)
(* stated by the runs of text and digits a version is made of, and an      *)
(* order at all.                                                           *)
(***************************************************************************)
EXTENDS VersionCompare

CONSTANTS Compared, \* the versions compared
          Third     \* the versions that may come between them

ASSUME OrderAssumption == Compared \cup Third \subseteq Seq(Char)

VARIABLES val, ref_ver, \* the arguments
          result        \* of the call, NotCalled before it

vars == <<val, ref_ver, result>>

NotCalled == 2

Init == val \in Compared /\ ref_ver \in Compared /\ result = NotCalled

Compare ==
  /\ result = NotCalled
  /\ result' = bhpkg_vercmp(val, ref_ver)
  /\ UNCHANGED <<val, ref_ver>>

Spec == Init /\ [][Compare]_vars

-----------------------------------------------------------------------------
(* The reference: a string is text, a number, text, a number and so on; runs *)
(* are compared in turn, texts character by character, with the end of one  *)
(* before everything but "~".                                               *)

TextRun(s) == LET Stops == {k \in DOMAIN s : s[k] \in Digit}
              IN  IF Stops = {} THEN s ELSE SubSeq(s, 1, (CHOOSE k \in Stops : \A j \in Stops : k <= j) - 1)

\* The place of the k-th character of a text, or of its end, among all: "~", the
\* end, letters, other characters; letters and others by their codes.
ClassOf(c) ==
  CASE c = "~"      -> 0
    [] c \in Letter -> 2
    [] OTHER        -> 3

Class(text, k) == IF k \in DOMAIN text THEN ClassOf(text[k]) ELSE 1

CompareAt(s, t, k) ==
  IF Class(s, k) # Class(t, k) THEN Sign(Class(s, k) - Class(t, k))
  ELSE IF Class(s, k) = 1 THEN 0 ELSE Sign(Code[s[k]] - Code[t[k]])

CompareText(s, t) ==
  LET Differ == {k \in DOMAIN s \cup DOMAIN t : CompareAt(s, t, k) # 0}
  IN  IF Differ = {} THEN 0
      ELSE CompareAt(s, t, CHOOSE j \in Differ : \A i \in Differ : j <= i)

\* What follows the first text, and what follows the number after it.
AfterText(s) == SubSeq(s, Len(TextRun(s)) + 1, Len(s))
AfterRun(s) == AfterNumber(AfterText(s))

CompareRun(s, t) ==
  LET text == CompareText(TextRun(s), TextRun(t))
  IN  IF text # 0 THEN text ELSE Sign(Number(AfterText(s)) - Number(AfterText(t)))

ComparePolicy(s, t) ==
  LET runs[n \in 1 .. Len(s) + Len(t)] ==
        IF n = 1 THEN <<s, t>> ELSE <<AfterRun(runs[n - 1][1]), AfterRun(runs[n - 1][2])>>
  IN  FirstVerdict([n \in 1 .. Len(s) + Len(t) |-> CompareRun(runs[n][1], runs[n][2])])

\* The newer version is the one with the greater epoch, then base, then revision,
\* where "~" sorts before the end of a string and numbers by value.
AgreesWithPolicy ==
  result # NotCalled =>
    result = FirstVerdict(<<Sign(Epoch(val) - Epoch(ref_ver)),
                            ComparePolicy(Base(Version(val)), Base(Version(ref_ver))),
                            ComparePolicy(Revision(Version(val)), Revision(Version(ref_ver)))>>)

\* It is an order, by which the solver sorts: which argument comes first does not
\* matter, and nothing that is between two versions turns them round, so that "the
\* newest" does not depend on the order versions are looked at in.
IsOrder ==
  result # NotCalled =>
    /\ result = -bhpkg_vercmp(ref_ver, val)
    /\ result >= 0 => \A mid \in Third : bhpkg_vercmp(ref_ver, mid) >= 0 => bhpkg_vercmp(val, mid) >= result

\* A version meets exactly one of <, = and > some other that begins with a digit,
\* and meets >=, <= and == accordingly.
ConstraintsPartition ==
  result # NotCalled /\ ref_ver # <<>> /\ Head(ref_ver) \in Digit =>
    LET Meets(op) == eval_constraint(val, op, ref_ver)
    IN  /\ \E op \in {"<", "=", ">"} : \A o \in {"<", "=", ">"} : Meets(o) = (o = op)
        /\ Meets(">=") = (Meets(">") \/ Meets("="))
        /\ Meets("<=") = (Meets("<") \/ Meets("="))
        /\ Meets("==") = Meets("=")
=============================================================================
