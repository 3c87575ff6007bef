------------------------------ MODULE MCReader ------------------------------
(***************************************************************************)
(* Reader on every text of up to four words and on longer ones, laid out   *)
(* on three lines in every way, the last of which no newline ends.         *)
(***************************************************************************)
EXTENDS Reader

MCNames == <<"a", "QUIT", "c", "d">>
MCAllWords ==
  {[i \in DOMAIN w |-> IF w[i] = "" THEN MCNames[i] ELSE w[i]] :
     w \in BoundedSeq(Marks \union {""}, Len(MCNames))}

\* Nested lists, dotted tails of every kind, quotes and comments.
MCSentences ==
  {<<"(", "a", ".", "(", "b", ".", "'", "c", ")", ")", "d">>,
   <<"(", "(", ")", "'", "(", "a", ")", ")", "comment", "'", "'", "b">>,
   <<"(", "QUIT", ".", "comment", "a", ")", "b">>,
   <<"(", "a", "(", "b", ".", "c", ")", ".", "(", ")", ")", "d">>}

\* The same with a word missing.
MCSlips == UNION {{RemoveAt(w, i) : i \in DOMAIN w} : w \in MCSentences}

\* Cut behind the words i and j.
MCLines(w, i, j) ==
  <<SubSeq(w, 1, i), SubSeq(w, i + 1, j), SubSeq(w, j + 1, Len(w))>>

MCCommentsEndLines(w, cuts) ==
  \A k \in 1 .. Len(w) - 1 : w[k] = "comment" => k \in cuts

MCLayouts(words, longest) ==
  {MCLines(c[1], c[2], c[3]) :
     c \in {c \in words \X (0 .. longest) \X (0 .. longest) :
              /\ c[2] <= c[3] /\ c[3] <= Len(c[1])
              /\ MCCommentsEndLines(c[1], {c[2], c[3]})}}

MCTexts ==
  MCLayouts(MCAllWords, Len(MCNames)) \union MCLayouts(MCSentences \union MCSlips, 13)

\* Files whose last line ends with a newline.
MCFileTexts == {t \in MCTexts : Last(t) = <<>>}

=============================================================================
