------------------------------ MODULE Tokenizer ------------------------------
(* tokenizer.c: the text of an inf or of a list of files is copied to a buffer *)
(* that grows, with the tokens between a prefix and a suffix replaced.  A text *)
(* is a sequence of characters; libwdi never asks for the recursive mode.      *)
EXTENDS Integers, SequencesExt, FiniteSetsExt

CONSTANTS
  Character,       \* what texts are made of
  Prefix, Suffix,  \* the marks around a token, "#" and "#" in libwdi
  Entities,        \* the sequence of [match, replace] pairs
  GrowSize         \* what a buffer gets beyond what is needed (1024)

\* A longer prefix could overlap itself, and the search, which goes on behind a prefix
\* without a token, would miss the token that begins inside it.
ASSUME TokenizerAssumption ==
  /\ Prefix \in Seq(Character) /\ Len(Prefix) = 1
  /\ Suffix \in Seq(Character) \ {<<>>} /\ GrowSize \in Nat \ {0}
  /\ Entities \in Seq([match : Seq(Character) \ {<<>>}, replace : Seq(Character)])

--------------------------------------------------------------------------------
(* The buffer: what was written, and the size allocated.  The character after the *)
(* text is for the NUL.                                                           *)
DestSize(required) == required + GrowSize
EmptyBuffer(src) == [text |-> <<>>, size |-> DestSize(Len(src))]

\* Mutant: the room of the NUL is forgotten.
GrowCopyLate(b, piece) ==
  LET pos  == Len(b.text)
      size == IF pos + Len(piece) > b.size THEN DestSize(pos + Len(piece)) ELSE b.size
      room == size - pos - 1 IN
  [text |-> b.text \o [i \in DOMAIN piece |-> IF i <= room THEN piece[i] ELSE "junk"],
   size |-> size]

\* grow_strcpy: what does not fit before the NUL is not copied, and counted all the same.
GrowCopy(b, piece) ==
  LET pos  == Len(b.text)
      size == IF pos + Len(piece) >= b.size THEN DestSize(pos + Len(piece)) ELSE b.size
      room == size - pos - 1 IN
  [text |-> b.text \o [i \in DOMAIN piece |-> IF i <= room THEN piece[i] ELSE "junk"],
   size |-> size]

--------------------------------------------------------------------------------
Has(src, i, word) == i + Len(word) - 1 <= Len(src) /\ SubSeq(src, i, i + Len(word) - 1) = word
Rest(src, i) == SubSeq(src, i, Len(src))

\* Where a prefix is found that leaves room for a suffix, from <<i>> on.
Starts(src, i) ==
  {m \in i..(Len(src) - Len(Prefix) - Len(Suffix) + 1) : Has(src, m, Prefix)}
\* The entities that match at <<j>>, behind a prefix.
Hits(src, j) == {e \in DOMAIN Entities : Has(src, j, Entities[e].match \o Suffix)}

(* The pieces that tokenize_string copies, one after the other, from <<i>> on.  A prefix *)
(* without a token is copied, and the search goes on behind it.                          *)
Pieces(src) ==
  LET P[i \in 1..(Len(src) + 1)] ==
        IF Len(src) - i + 1 <= Len(Prefix) + Len(Suffix) \/ Starts(src, i) = {}
          THEN <<Rest(src, i)>>
          ELSE LET m    == Min(Starts(src, i))
                   j    == m + Len(Prefix)
                   hits == Hits(src, j)
                   e    == Entities[Min(hits)] IN
               <<SubSeq(src, i, m - 1)>> \o
               IF hits = {} THEN <<Prefix>> \o P[j]
               ELSE <<e.replace>> \o P[j + Len(e.match) + Len(Suffix)]
  IN P[1]

TokenizeString(src) == FoldLeft(GrowCopy, EmptyBuffer(src), Pieces(src))

(* wdi_tokenize_file opens an external inf as a text, so that fewer characters are read *)
(* than its size when its lines end with a carriage return: it is then refused.         *)
Refused == [text |-> <<>>, size |-> 0]
TokenizeFile(src) ==
  IF \E i \in 1..(Len(src) - 1) : src[i] = "\r" /\ src[i + 1] = "\n"
    THEN Refused ELSE TokenizeString(src)

--------------------------------------------------------------------------------
(* What is meant: from left to right, each token is replaced, any other character stays. *)
Meant(src) ==
  LET R[i \in 1..(Len(src) + 1)] ==
        LET hits == {e \in DOMAIN Entities : Has(src, i, Prefix \o Entities[e].match \o Suffix)}
            e    == Entities[Min(hits)] IN
        IF i > Len(src) THEN <<>>
        ELSE IF hits = {} THEN <<src[i]>> \o R[i + 1]
        ELSE e.replace \o R[i + Len(Prefix \o e.match \o Suffix)]
  IN R[1]
=============================================================================
