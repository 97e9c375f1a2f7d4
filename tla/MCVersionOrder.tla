--------------------------- MODULE MCVersionOrder ---------------------------
(* All versions of up to three characters, and longer ones in which an     *)
(* epoch, a base and a revision meet and numbers saturate.                 *)
EXTENDS VersionOrder, SequencesExt

MCCode == [c \in {"0", "1", "2", "a", "~", "-", ":", "+"} |->
             CASE c = "0" -> 48 [] c = "1" -> 49 [] c = "2" -> 50 [] c = "a" -> 97
               [] c = "~" -> 126 [] c = "-" -> 45 [] c = ":" -> 58 [] c = "+" -> 43]
MCDigit == {"0", "1", "2"}
MCLetter == {"a"}

Chars == {"0", "1", "a", "~", "-", ":"}

Long == {<<"1", ":", "1", "-", "1">>, <<"1", ":", "a", "-", "0">>, <<"2", "2">>, <<"2", "1">>, <<"1", "2">>,
         <<"2", "2", ":", "1">>, <<"-", "1", ":", "1">>, <<"+", "1", ":", "0">>, <<"-", "1", "2", ":", "1">>, <<"1", "-", "1", "-", "0">>, <<"1", "~", "a", "1">>,
         <<"1", "a", "0", "1">>, <<"1", "a", "1", "~">>, <<"0", "1", "0">>}

MCThird == BoundedSeq(Chars, 1) \cup Long

MCCompared == BoundedSeq(Chars, 3) \cup Long
=============================================================================
