------------------------------- MODULE SeqFold -------------------------------
(* Folds over a sequence in a form that TLC evaluates in one pass, and what *)
(* is left of a sequence at some of its positions.                          *)
EXTENDS Naturals, Sequences

FromLeft(Op(_, _), base, seq) ==
  LET fold[i \in 0 .. Len(seq)] == IF i = 0 THEN base ELSE Op(fold[i - 1], seq[i])
  IN fold[Len(seq)]

FromRight(Op(_, _), base, seq) ==
  LET fold[i \in 1 .. Len(seq) + 1] == IF i > Len(seq) THEN base ELSE Op(fold[i + 1], seq[i])
  IN fold[1]

\* The members of a sequence at some of its positions, in their order.
Picked(s, at) ==
  LET picked[i \in 0 .. Len(s)] ==
        CASE i = 0 -> <<>>
          [] i > 0 /\ i \in at -> Append(picked[i - 1], s[i])
          [] OTHER -> picked[i - 1]
  IN picked[Len(s)]
=============================================================================
