------------------------------ MODULE UpdateFile ------------------------------
(* zadig_parser.c: the lines "token = data" of settings and of the description   *)
(* of an update.  A text is a sequence of symbols: "v" stands for the token that *)
(* is looked for, " " for a space or a tab, "quote", "{", "}", and "\r" and "\n" *)
(* for the ends of a line, and others for themselves.                            *)
EXTENDS Integers, SequencesExt, FiniteSetsExt

Eol == {"\r", "\n"}

\* The first position from <<i>> on that holds none of <<skipped>>, or the end.
Skip(line, i, skipped) ==
  Min({j \in i..(Len(line) + 1) : j = Len(line) + 1 \/ line[j] \notin skipped})
Is(line, i, c) == i <= Len(line) /\ line[i] = c

(* get_token_data_line: the data of a line "[ ]token[ ]=[ ]["]data["][ ]", up to the   *)
(* next quote if one opens it, less the ends of lines that end it; <<>> if there is none.      *)
DataFrom(line, i) ==
  LET quoted == Is(line, i, "quote")
      from   == IF quoted THEN i + 1 ELSE i
      to     == IF quoted THEN Skip(line, from, {line[j] : j \in DOMAIN line} \ {"quote"})
                ELSE Len(line) + 1
      kept   == {j \in from..(to - 1) : line[j] \notin Eol} IN
  IF kept = {} THEN <<>> ELSE SubSeq(line, from, Max(kept))

TokenDataLine(line) ==
  LET token  == Skip(line, 1, {" "})
      equals == Skip(line, token + 1, {" "}) IN
  IF Is(line, token, "v") /\ Is(line, equals, "=")
    THEN DataFrom(line, Skip(line, equals + 1, {" "})) ELSE <<>>

(* The end of the line that begins at <<i>>: the braces before it balance, for the text *)
(* of RTF.  The count is unsigned: a brace that closes too much keeps the line open.    *)
Count(buffer, i, j, c) == Cardinality({k \in i..(j - 1) : buffer[k] = c})
LineEnd(buffer, i) ==
  Min({j \in i..(Len(buffer) + 1) :
        \/ j = Len(buffer) + 1
        \/ buffer[j] \in Eol /\ Count(buffer, i, j, "{") = Count(buffer, i, j, "}")})

\* get_token_data_buffer, for the first occurrence.
TokenDataBuffer(buffer) ==
  LET D[i \in 1..(Len(buffer) + 2)] ==
        LET end  == LineEnd(buffer, i)
            data == TokenDataLine(SubSeq(buffer, i, end - 1)) IN
        IF i > Len(buffer) THEN <<>> ELSE IF data # <<>> THEN data ELSE D[end + 1]
  IN D[1]

(* parse_update: the fields of the version between the points, of which empty ones do not *)
(* count, are taken modulo the width of a WORD; the rest of the four is zero.             *)
Wide == 65536
Empty == -1
GivenUpTo(fields, k) == {m \in 1..k : fields[m] # Empty}
ParseVersion(fields) ==
  LET at(i) == {k \in GivenUpTo(fields, Len(fields)) : Cardinality(GivenUpTo(fields, k)) = i} IN
  [i \in 1..4 |-> IF at(i) = {} THEN 0 ELSE fields[Max(at(i))] % Wide]
=============================================================================
