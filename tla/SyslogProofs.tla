----------------------------- MODULE SyslogProofs -----------------------------
(* What holds of the thread that follows the log of Windows, for any log and any *)
(* texts: each line reaches the application once, in order, whatever Windows     *)
(* overwrites while the thread reads.                                            *)
(*                                                                               *)
(* What the model computes by recursion along a text is proved by induction on   *)
(* its length, which here is the existence of a least counterexample.            *)
EXTENDS Syslog, SequenceTheorems, WellFoundedInduction, TLAPS

--------------------------------------------------------------------------------
(* Induction and recursion on numbers.                                          *)

\* A set of numbers that is not empty has a least one.
LEMMA LeastNumber ==
  ASSUME NEW T, T \subseteq Nat, T # {}
  PROVE  \E x \in T : \A y \in T : x <= y
<1>1. \E x \in T : \A y \in T : ~ (<<y, x>> \in OpToRel(<, Nat))
  BY NatLessThanWellFounded, WFMin
<1>2. \E x \in T : \A y \in T : ~ (y < x)
  BY <1>1 DEF OpToRel
<1>. QED
  BY <1>2

\* A set that has 0 and the successor of each number up to n has all of them.
LEMMA UpTo ==
  ASSUME NEW n \in Nat, NEW T, 0 \in T, \A k \in 1..n : k - 1 \in T => k \in T
  PROVE  0..n \subseteq T
<1>. DEFINE U == {k \in 0..n : k \notin T}
<1>. SUFFICES ASSUME U # {} PROVE FALSE
  OBVIOUS
<1>1. U \subseteq Nat
  OBVIOUS
<1>2. PICK x \in U : \A y \in U : x <= y
  <2>. HIDE DEF U
  <2>. QED
    BY <1>1, LeastNumber
<1>3. x \in 1..n /\ x - 1 \notin U
  BY <1>2
<1>. QED
  BY <1>3

\* What each of n steps makes of what was made before.
Steps(n, S) == [(1..n) \X S -> S]

\* What is defined by recursion exists.
LEMMA Recursion ==
  ASSUME NEW S, NEW b \in S, NEW n \in Nat, NEW F \in Steps(n, S)
  PROVE  \E f \in [0..n -> S] : f[0] = b /\ \A k \in 1..n : f[k] = F[<<k, f[k - 1]>>]
<1>. USE DEF Steps
<1>. DEFINE Solves(m, f) == f[0] = b /\ \A k \in 1..m : f[k] = F[<<k, f[k - 1]>>]
            Solved(m) == \E f \in [0..m -> S] : Solves(m, f)
            T == {m \in 0..n : Solved(m)}
<1>1. Solved(0)
  <2>1. [i \in 0..0 |-> b] \in [0..0 -> S] /\ Solves(0, [i \in 0..0 |-> b])
    OBVIOUS
  <2>. HIDE DEF Solves
  <2>. QED
    BY <2>1
<1>2. ASSUME NEW m \in 1..n, Solved(m - 1) PROVE Solved(m)
  <2>1. PICK g \in [0..(m - 1) -> S] : Solves(m - 1, g)
    BY <1>2
  <2>. DEFINE h == [i \in 0..m |-> IF i = m THEN F[<<m, g[m - 1]>>] ELSE g[i]]
  <2>2. g[m - 1] \in S /\ <<m, g[m - 1]>> \in (1..n) \X S
    OBVIOUS
  <2>3. h \in [0..m -> S]
    BY <2>2
  <2>4. \A i \in 0..(m - 1) : h[i] = g[i]
    OBVIOUS
  <2>5. h[m] = F[<<m, g[m - 1]>>]
    OBVIOUS
  <2>. HIDE DEF h
  <2>6. ASSUME NEW k \in 1..m PROVE h[k] = F[<<k, h[k - 1]>>]
    <3>1. k - 1 \in 0..(m - 1) /\ (k # m => k \in 1..(m - 1))
      OBVIOUS
    <3>2. CASE k = m
      BY <2>4, <2>5, <3>1, <3>2
    <3>3. CASE k # m
      BY <2>1, <2>4, <3>1, <3>3
    <3>. QED
      BY <3>2, <3>3
  <2>7. Solves(m, h)
    BY <2>1, <2>4, <2>6
  <2>. HIDE DEF Solves
  <2>. QED
    BY <2>3, <2>7
<1>3. 0..n \subseteq T
  <2>. HIDE DEF Solved
  <2>1. 0 \in T /\ \A m \in 1..n : m - 1 \in T => m \in T
    BY <1>1, <1>2
  <2>. HIDE DEF T
  <2>. QED
    BY <2>1, UpTo
<1>. QED
  BY <1>3

\* What holds of the empty sequence, and of what is made by adding an element to one of
\* which it holds, holds of all sequences.
LEMMA BySequences ==
  ASSUME NEW S, NEW T, <<>> \in T,
         \A s \in Seq(S) : s \in T => \A e \in S : Append(s, e) \in T
  PROVE  Seq(S) \subseteq T
<1>. SUFFICES ASSUME NEW t \in Seq(S) PROVE t \in T
  OBVIOUS
<1>. DEFINE p == [k \in 0..Len(t) |-> SubSeq(t, 1, k)]
            P == {k \in 0..Len(t) : p[k] \in T}
<1>1. Len(t) \in Nat /\ \A i \in 1..Len(t) : t[i] \in S
  BY LenProperties, ElementOfSeq
<1>2. p[0] = <<>>
  BY <1>1, SubSeqEmpty
<1>3. \A k \in 1..Len(t) : p[k] = Append(p[k - 1], t[k]) /\ p[k - 1] \in Seq(S)
  BY <1>1
<1>4. p[Len(t)] = t
  BY <1>1, SubSeqFull
<1>. HIDE DEF p
<1>5. 0 \in P
  BY <1>1, <1>2
<1>6. ASSUME NEW k \in 1..Len(t), k - 1 \in P PROVE k \in P
  <2>1. p[k] = Append(p[k - 1], t[k]) /\ p[k - 1] \in Seq(S) /\ t[k] \in S
    BY <1>1, <1>3
  <2>2. p[k - 1] \in T
    BY <1>6
  <2>3. p[k] \in T
    BY <2>1, <2>2
  <2>. QED
    BY <2>3
<1>7. 0..Len(t) \subseteq P
  <2>. HIDE DEF P
  <2>. QED
    BY <1>1, <1>5, <1>6, UpTo
<1>. QED
  BY <1>1, <1>4, <1>7

--------------------------------------------------------------------------------
(* The lines of a text.                                                         *)

\* Sequences that grow at their end.
LEMMA Growing ==
  ASSUME NEW S, NEW s \in Seq(S), NEW t \in Seq(S), NEW e \in S
  PROVE  /\ s \o Append(t, e) = Append(s \o t, e)
         /\ s \o t \in Seq(S) /\ Append(s, e) \in Seq(S)
         /\ IsPrefix(s, s)
         /\ IsPrefix(s, t) => IsPrefix(s, Append(t, e))
<1>1. /\ s \o Append(t, e) = Append(s \o t, e)
      /\ s \o t \in Seq(S) /\ Append(s, e) \in Seq(S)
  OBVIOUS
<1>2. IsPrefix(s, s)
  BY LenProperties DEF IsPrefix
<1>3. ASSUME IsPrefix(s, t) PROVE IsPrefix(s, Append(t, e))
  <2>1. Len(s) \in Nat /\ Len(t) \in Nat /\ Len(s) <= Len(t) /\ Len(Append(t, e)) = Len(t) + 1
        /\ SubSeq(s, 1, Len(s)) = SubSeq(t, 1, Len(s))
    BY <1>3 DEF IsPrefix
  <2>2. SubSeq(Append(t, e), 1, Len(s)) = SubSeq(t, 1, Len(s))
    BY <2>1
  <2>. QED
    BY <2>1, <2>2 DEF IsPrefix
<1>. QED
  BY <1>1, <1>2, <1>3

Start == [line |-> <<>>, lines |-> <<>>]
Scanned == [line : Seq(Symbol), lines : Seq(Seq(Symbol))]

\* The state of a scan after one more symbol.
LEMMA LineTyped == \A acc \in Scanned, c \in Symbol : Line(acc, c) \in Scanned
<1>. SUFFICES ASSUME NEW acc \in Scanned, NEW c \in Symbol PROVE Line(acc, c) \in Scanned
  OBVIOUS
<1>1. acc.line \in Seq(Symbol) /\ acc.lines \in Seq(Seq(Symbol))
  BY DEF Scanned
<1>2. Append(acc.line, c) \in Seq(Symbol) /\ Append(acc.lines, acc.line) \in Seq(Seq(Symbol))
      /\ <<>> \in Seq(Symbol)
  BY <1>1
<1>. QED
  BY <1>1, <1>2 DEF Line, Scanned

\* What a symbol adds to a line, or to the lines.
LEMMA LineIs ==
  ASSUME NEW acc \in Scanned, NEW c \in Symbol
  PROVE  /\ c \notin EOL => Line(acc, c) = [line |-> Append(acc.line, c), lines |-> acc.lines]
         /\ c \in EOL /\ acc.line \in NoLines =>
              Line(acc, c) = [line |-> <<>>, lines |-> acc.lines]
         /\ c \in EOL /\ acc.line \notin NoLines =>
              Line(acc, c) = [line |-> <<>>, lines |-> Append(acc.lines, acc.line)]
  BY DEF Line, Scanned

\* A scan follows its text.
LEMMA ScanFollows ==
  ASSUME NEW t \in Seq(Symbol)
  PROVE  \E L \in [0..Len(t) -> Scanned] :
           /\ L[0] = Start /\ \A k \in 1..Len(t) : L[k] = Line(L[k - 1], t[k])
           /\ Scan(t) = L[Len(t)]
<1>. DEFINE n == Len(t)
            R(L) == [i \in 0..n |-> IF i = 0 THEN Start ELSE Line(L[i - 1], t[i])]
            M == CHOOSE L : L = R(L)
            F == [p \in (1..n) \X Scanned |-> Line(p[2], t[p[1]])]
<1>1. n \in Nat /\ \A i \in 1..n : t[i] \in Symbol
  BY LenProperties, ElementOfSeq
<1>2. Start \in Scanned
  BY EmptySeq DEF Start, Scanned
<1>3. F \in Steps(n, Scanned)
  BY <1>1, LineTyped DEF Steps
<1>4. \A k \in 1..n, acc \in Scanned : F[<<k, acc>>] = Line(acc, t[k])
  OBVIOUS
<1>5. Scan(t) = M[n]
  BY DEF Scan, Start
<1>. HIDE DEF n, F
<1>6. PICK L \in [0..n -> Scanned] : L[0] = Start /\ \A k \in 1..n : L[k] = F[<<k, L[k - 1]>>]
  <2>1. n \in Nat
    BY <1>1
  <2>. QED
    BY <2>1, <1>2, <1>3, Recursion
<1>7. ASSUME NEW k \in 1..n PROVE L[k] = Line(L[k - 1], t[k])
  <2>1. L[k - 1] \in Scanned
    BY <1>1
  <2>. QED
    BY <1>4, <1>6, <2>1
<1>8. L = R(L)
  BY <1>6, <1>7
<1>9. M = R(M)
  BY <1>8
<1>. HIDE DEF M
<1>10. M[0] = Start /\ \A k \in 1..n : M[k] = Line(M[k - 1], t[k])
  BY <1>1, <1>9
<1>11. DOMAIN M = 0..n
  BY <1>9
<1>12. M \in [0..n -> Scanned]
  <2>. DEFINE T == {k \in 0..n : M[k] \in Scanned}
  <2>1. 0 \in T
    BY <1>1, <1>2, <1>10
  <2>2. ASSUME NEW k \in 1..n, k - 1 \in T PROVE k \in T
    <3>1. M[k - 1] \in Scanned
      BY <2>2
    <3>2. M[k] \in Scanned
      BY <1>1, <1>10, <3>1, LineTyped
    <3>. QED
      BY <3>2
  <2>3. 0..n \subseteq T
    <3>. HIDE DEF T
    <3>. QED
      BY <1>1, <2>1, <2>2, UpTo
  <2>4. \A k \in 0..n : M[k] \in Scanned
    BY <2>3
  <2>. HIDE DEF T
  <2>. QED
    BY <1>9, <1>11, <2>4
<1>. QED
  BY <1>5, <1>10, <1>12 DEF n

\* A scan goes on where it was.
LEMMA ScanAppend ==
  /\ Scan(<<>>) = Start
  /\ \A t \in Seq(Symbol) : Scan(t) \in Scanned
  /\ \A t \in Seq(Symbol), c \in Symbol : Scan(Append(t, c)) = Line(Scan(t), c)
<1>1. Scan(<<>>) = Start
  BY ScanFollows, EmptySeq
<1>2. ASSUME NEW t \in Seq(Symbol) PROVE Scan(t) \in Scanned
  BY ScanFollows, LenProperties
<1>3. ASSUME NEW t \in Seq(Symbol), NEW c \in Symbol PROVE Scan(Append(t, c)) = Line(Scan(t), c)
  <2>. DEFINE n == Len(t)
              u == Append(t, c)
  <2>1. n \in Nat /\ u \in Seq(Symbol) /\ Len(u) = n + 1 /\ u[n + 1] = c
        /\ \A i \in 1..n : u[i] = t[i]
    OBVIOUS
  <2>2. PICK L \in [0..n -> Scanned] :
          /\ L[0] = Start /\ \A k \in 1..n : L[k] = Line(L[k - 1], t[k])
          /\ Scan(t) = L[n]
    BY ScanFollows
  <2>3. PICK M \in [0..(n + 1) -> Scanned] :
          /\ M[0] = Start /\ \A k \in 1..(n + 1) : M[k] = Line(M[k - 1], u[k])
          /\ Scan(u) = M[n + 1]
    <3>. HIDE DEF u
    <3>. QED
      BY <2>1, ScanFollows
  <2>. DEFINE T == {k \in 0..n : L[k] = M[k]}
  <2>. HIDE DEF u, n
  <2>4. 0 \in T
    BY <2>1, <2>2, <2>3
  <2>5. ASSUME NEW k \in 1..n, k - 1 \in T PROVE k \in T
    <3>1. L[k - 1] = M[k - 1] /\ u[k] = t[k] /\ k \in 1..(n + 1) /\ k \in 0..n
      BY <2>1, <2>5
    <3>2. L[k] = M[k]
      BY <2>2, <2>3, <3>1
    <3>. QED
      BY <3>1, <3>2
  <2>6. n \in T
    <3>1. 0..n \subseteq T
      <4>. HIDE DEF T
      <4>. QED
        BY <2>1, <2>4, <2>5, UpTo
    <3>. QED
      BY <2>1, <3>1
  <2>7. n + 1 \in 1..(n + 1) /\ (n + 1) - 1 = n
    BY <2>1
  <2>8. M[n + 1] = Line(M[n], c)
    BY <2>1, <2>3, <2>7
  <2>. QED
    BY <2>2, <2>3, <2>6, <2>8 DEF u
<1>. QED
  BY <1>1, <1>2, <1>3

\* No line of t ends in it.
EndFree(t) == \A i \in 1..Len(t) : t[i] \notin EOL

\* A scan where it is at the beginning of a line.
LEMMA ScanAtEnd ==
  ASSUME NEW t \in Seq(Symbol), t = <<>> \/ t[Len(t)] \in EOL
  PROVE  Scan(t).line = <<>>
<1>1. CASE t = <<>>
  BY <1>1, ScanAppend DEF Start
<1>2. CASE t # <<>>
  <2>. DEFINE s == SubSeq(t, 1, Len(t) - 1)
  <2>1. Len(t) \in Nat \ {0} /\ t[Len(t)] \in Symbol
    BY <1>2
  <2>2. t = Append(s, t[Len(t)]) /\ s \in Seq(Symbol)
    BY <2>1
  <2>. HIDE DEF s
  <2>3. Scan(t) = Line(Scan(s), t[Len(t)])
    BY <2>1, <2>2, ScanAppend
  <2>. QED
    BY <1>2, <2>3 DEF Line
<1>. QED
  BY <1>1, <1>2

\* A text without an end of a line is part of a line.
LEMMA ScanQuiet ==
  ASSUME NEW t \in Seq(Symbol), EndFree(t)
  PROVE  Scan(t) = [line |-> t, lines |-> <<>>]
<1>. DEFINE T == {s \in Seq(Symbol) : EndFree(s) => Scan(s) = [line |-> s, lines |-> <<>>]}
<1>1. <<>> \in T
  BY EmptySeq, ScanAppend DEF Start
<1>2. ASSUME NEW s \in T, NEW c \in Symbol PROVE Append(s, c) \in T
  <2>. SUFFICES ASSUME EndFree(Append(s, c))
                PROVE  Scan(Append(s, c)) = [line |-> Append(s, c), lines |-> <<>>]
    OBVIOUS
  <2>1. EndFree(s) /\ c \notin EOL
    <3>1. Len(Append(s, c)) = Len(s) + 1 /\ Len(s) \in Nat /\ Append(s, c)[Len(s) + 1] = c
          /\ \A i \in 1..Len(s) : Append(s, c)[i] = s[i]
      OBVIOUS
    <3>. QED
      BY <3>1 DEF EndFree
  <2>2. Scan(s) = [line |-> s, lines |-> <<>>]
    BY <2>1
  <2>3. Scan(Append(s, c)) = Line(Scan(s), c)
    BY ScanAppend
  <2>. QED
    <3>1. Scan(s) \in Scanned
      BY ScanAppend
    <3>. QED
      BY <2>1, <2>2, <2>3, <3>1, LineIs
<1>3. Seq(Symbol) \subseteq T
  <2>1. \A s \in Seq(Symbol) : s \in T => \A c \in Symbol : Append(s, c) \in T
    BY <1>2
  <2>. HIDE DEF T
  <2>. QED
    BY <1>1, <2>1, BySequences
<1>. QED
  BY <1>3

\* What follows the end of a line adds its own lines.
LEMMA ScanConcat ==
  ASSUME NEW a \in Seq(Symbol), Scan(a).line = <<>>, NEW t \in Seq(Symbol)
  PROVE  Scan(a \o t) = [line |-> Scan(t).line, lines |-> Scan(a).lines \o Scan(t).lines]
<1>. DEFINE Both(s) == [line |-> Scan(s).line, lines |-> Scan(a).lines \o Scan(s).lines]
            T == {s \in Seq(Symbol) : Scan(a \o s) = Both(s)}
<1>1. Scan(a) = [line |-> <<>>, lines |-> Scan(a).lines] /\ Scan(a).lines \in Seq(Seq(Symbol))
  BY ScanAppend DEF Scanned
<1>2. <<>> \in T
  <2>1. a \o <<>> = a /\ Scan(a).lines \o <<>> = Scan(a).lines
    BY <1>1, ConcatEmptySeq
  <2>. QED
    BY <1>1, <2>1, EmptySeq, ScanAppend DEF Start
<1>3. ASSUME NEW s \in T, NEW c \in Symbol PROVE Append(s, c) \in T
  <2>1. a \o Append(s, c) = Append(a \o s, c) /\ a \o s \in Seq(Symbol)
    OBVIOUS
  <2>. DEFINE x == Scan(a).lines
              y == Scan(s).lines
              l == Scan(s).line
              b == Both(s)
              d == Scan(Append(s, c))
              S == Seq(Symbol)
  <2>2. Scan(a \o Append(s, c)) = Line(b, c) /\ d = Line(Scan(s), c) /\ Scan(s) \in Scanned
    BY <2>1, ScanAppend
  <2>3. x \in Seq(S) /\ y \in Seq(S) /\ l \in S /\ x \o y \in Seq(S)
    BY <1>1, <2>2 DEF Scanned
  <2>4. b \in Scanned /\ b.line = l /\ b.lines = x \o y
    BY <2>3 DEF Scanned
  <2>5. x \o Append(y, l) = Append(x \o y, l)
    <3>. HIDE DEF x, y, l, S
    <3>. QED
      BY <2>3, Growing
  <2>6. Scan(s).line = l /\ Scan(s).lines = y
    OBVIOUS
  <2>. HIDE DEF x, y, l, b, d, S
  <2>7. Line(b, c) = [line |-> d.line, lines |-> x \o d.lines]
    <3>1. /\ c \notin EOL => /\ Line(b, c) = [line |-> Append(l, c), lines |-> x \o y]
                             /\ d = [line |-> Append(l, c), lines |-> y]
          /\ c \in EOL /\ l \in NoLines => /\ Line(b, c) = [line |-> <<>>, lines |-> x \o y]
                                           /\ d = [line |-> <<>>, lines |-> y]
          /\ c \in EOL /\ l \notin NoLines =>
               /\ Line(b, c) = [line |-> <<>>, lines |-> Append(x \o y, l)]
               /\ d = [line |-> <<>>, lines |-> Append(y, l)]
      BY <2>2, <2>4, <2>6, LineIs
    <3>2. CASE c \notin EOL
      <4>1. d.line = Append(l, c) /\ d.lines = y
        BY <3>1, <3>2
      <4>. QED
        BY <3>1, <3>2, <4>1
    <3>3. CASE c \in EOL /\ l \in NoLines
      BY <3>1, <3>3
    <3>4. CASE c \in EOL /\ l \notin NoLines
      <4>1. d.line = <<>> /\ d.lines = Append(y, l)
        BY <3>1, <3>4
      <4>. QED
        BY <2>5, <3>1, <3>4, <4>1
    <3>. QED
      BY <3>2, <3>3, <3>4
  <2>8. Scan(a \o Append(s, c)) = Both(Append(s, c))
    BY <2>2, <2>7 DEF x, d
  <2>9. Append(s, c) \in Seq(Symbol)
    OBVIOUS
  <2>. HIDE DEF Both
  <2>. QED
    BY <2>8, <2>9
<1>4. Seq(Symbol) \subseteq T
  <2>1. \A s \in Seq(Symbol) : s \in T => \A c \in Symbol : Append(s, c) \in T
    BY <1>3
  <2>. HIDE DEF T
  <2>. QED
    BY <1>2, <2>1, BySequences
<1>. QED
  BY <1>4

\* What follows a text adds to its lines, and nothing if no line ends in it.
LEMMA ScanGoesOn ==
  ASSUME NEW a \in Seq(Symbol), NEW t \in Seq(Symbol)
  PROVE  /\ IsPrefix(Scan(a).lines, Scan(a \o t).lines)
         /\ EndFree(t) => Scan(a \o t).lines = Scan(a).lines
<1>. DEFINE T == {s \in Seq(Symbol) : /\ IsPrefix(Scan(a).lines, Scan(a \o s).lines)
                                      /\ EndFree(s) => Scan(a \o s).lines = Scan(a).lines}
<1>1. Scan(a).lines \in Seq(Seq(Symbol))
  BY ScanAppend DEF Scanned
<1>2. <<>> \in T
  <2>1. a \o <<>> = a
    BY ConcatEmptySeq
  <2>. QED
    BY <1>1, <2>1, EmptySeq DEF IsPrefix
<1>3. ASSUME NEW s \in T, NEW c \in Symbol PROVE Append(s, c) \in T
  <2>1. a \o Append(s, c) = Append(a \o s, c) /\ a \o s \in Seq(Symbol)
    OBVIOUS
  <2>2. Scan(a \o s) \in Scanned /\ Scan(a \o Append(s, c)) = Line(Scan(a \o s), c)
    BY <2>1, ScanAppend
  <2>. DEFINE l == Scan(a \o s).line
              k == Scan(a \o s).lines
              m == Scan(a \o Append(s, c)).lines
  <2>3. l \in Seq(Symbol) /\ k \in Seq(Seq(Symbol)) /\ (m = k \/ m = Append(k, l))
        /\ (c \notin EOL => m = k)
    BY <2>2 DEF Scanned, Line
  <2>4. EndFree(Append(s, c)) => EndFree(s) /\ c \notin EOL
    <3>1. Len(Append(s, c)) = Len(s) + 1 /\ Len(s) \in Nat /\ Append(s, c)[Len(s) + 1] = c
          /\ \A i \in 1..Len(s) : Append(s, c)[i] = s[i]
      OBVIOUS
    <3>. QED
      BY <3>1 DEF EndFree
  <2>5. IsPrefix(Scan(a).lines, k) /\ (EndFree(s) => k = Scan(a).lines)
    OBVIOUS
  <2>. HIDE DEF k, l, m
  <2>6. IsPrefix(Scan(a).lines, m)
    <3>. DEFINE x == Scan(a).lines
                S == Seq(Symbol)
    <3>1. x \in Seq(S) /\ k \in Seq(S) /\ l \in S /\ (m = k \/ m = Append(k, l)) /\ IsPrefix(x, k)
      BY <1>1, <2>3, <2>5
    <3>. HIDE DEF x, S
    <3>2. IsPrefix(x, Append(k, l))
      BY <3>1, Growing
    <3>3. IsPrefix(x, m)
      BY <3>1, <3>2
    <3>. QED
      BY <3>3 DEF x
  <2>7. EndFree(Append(s, c)) => m = Scan(a).lines
    BY <2>3, <2>4, <2>5
  <2>. QED
    BY <2>6, <2>7 DEF m
<1>4. Seq(Symbol) \subseteq T
  <2>1. \A s \in Seq(Symbol) : s \in T => \A c \in Symbol : Append(s, c) \in T
    BY <1>3
  <2>. HIDE DEF T
  <2>. QED
    BY <1>2, <2>1, BySequences
<1>. QED
  BY <1>4

--------------------------------------------------------------------------------
(* What process_syslog makes of a buffer.                                       *)

Processed == [start : Nat, lines : Seq(Seq(Symbol)), garbled : BOOLEAN, marked : BOOLEAN]

\* A line that is a mark, at i.
MarkAt(b, i) == b[i] = "ins" /\ (i = 1 \/ b[i - 1] \in EOL) /\ b[i + 1] \in EOL

\* What it has made of the first i symbols: it is at the beginning of a line, it sent the lines
\* before, none of which is a mark, and no line ends behind unless it is at a mark.
Half(p, b, i) ==
  /\ p \in Processed /\ p.start \in 0..i
  /\ p.start # 0 => b[p.start] \in EOL
  /\ p.lines = Scan(SubSeq(b, 1, p.start)).lines
  /\ ~ p.marked => \A j \in (p.start + 1)..i : b[j] \notin EOL
  /\ p.marked => b[p.start + 1] = "ins"
  /\ \A j \in 1..(p.start - 1) : ~ MarkAt(b, j)
  /\ p.garbled => b[1] \in EOL

\* The beginning of a text, with one more symbol and up to the line it is in.
LEMMA Beginnings ==
  ASSUME NEW b \in Seq(Symbol), NEW i \in 1..Len(b), NEW s \in 0..(i - 1)
  PROVE  /\ b[i] \in Symbol
         /\ SubSeq(b, 1, i) = Append(SubSeq(b, 1, i - 1), b[i])
         /\ SubSeq(b, 1, i - 1) = SubSeq(b, 1, s) \o SubSeq(b, s + 1, i - 1)
         /\ SubSeq(b, 1, i - 1) \in Seq(Symbol) /\ SubSeq(b, 1, s) \in Seq(Symbol)
         /\ SubSeq(b, s + 1, i - 1) \in Seq(Symbol)
         /\ Len(SubSeq(b, 1, s)) = s /\ Len(SubSeq(b, s + 1, i - 1)) = i - 1 - s
         /\ \A j \in 1..s : SubSeq(b, 1, s)[j] = b[j]
         /\ \A j \in 1..(i - 1 - s) : SubSeq(b, s + 1, i - 1)[j] = b[s + j]
<1>. Len(b) \in Nat
  OBVIOUS
<1>. QED
  OBVIOUS

\* At the beginning of a line the scan of what is before has no line that is not complete.
LEMMA AtStart ==
  ASSUME NEW b \in Seq(Symbol), NEW s \in 0..Len(b), s # 0 => b[s] \in EOL
  PROVE  Scan(SubSeq(b, 1, s)).line = <<>>
<1>1. SubSeq(b, 1, s) \in Seq(Symbol) /\ Len(SubSeq(b, 1, s)) = s
      /\ (s = 0 => SubSeq(b, 1, s) = <<>>) /\ (s # 0 => SubSeq(b, 1, s)[s] = b[s])
  OBVIOUS
<1>. QED
  BY <1>1, ScanAtEnd

\* What a scan makes of a line that ends at i.
LEMMA OneLine ==
  ASSUME NEW b \in Seq(Symbol), NEW i \in 1..Len(b), NEW s \in 0..(i - 1), b[i] \in EOL,
         s # 0 => b[s] \in EOL, \A j \in (s + 1)..(i - 1) : b[j] \notin EOL
  PROVE  LET line == SubSeq(b, s + 1, i - 1)
             lines == Scan(SubSeq(b, 1, s)).lines IN
         Scan(SubSeq(b, 1, i)).lines = IF line \in NoLines THEN lines ELSE Append(lines, line)
<1>. DEFINE line == SubSeq(b, s + 1, i - 1)
            a == SubSeq(b, 1, s)
            h == SubSeq(b, 1, i - 1)
<1>1. /\ SubSeq(b, 1, i) = Append(h, b[i]) /\ h = a \o line /\ b[i] \in Symbol
      /\ a \in Seq(Symbol) /\ line \in Seq(Symbol) /\ h \in Seq(Symbol)
      /\ Len(line) = i - 1 - s /\ \A j \in 1..(i - 1 - s) : line[j] = b[s + j]
  BY Beginnings
<1>2. Scan(a).line = <<>>
  BY AtStart, LenProperties
<1>3. EndFree(line)
  BY <1>1 DEF EndFree
<1>. SUFFICES Scan(Append(h, b[i])).lines
                = IF line \in NoLines THEN Scan(a).lines ELSE Append(Scan(a).lines, line)
  BY <1>1
<1>. HIDE DEF a, line, h
<1>4. Scan(line) = [line |-> line, lines |-> <<>>]
  BY <1>1, <1>3, ScanQuiet
<1>5. Scan(h) = [line |-> line, lines |-> Scan(a).lines]
  <2>1. Scan(a).lines \in Seq(Seq(Symbol))
    BY <1>1, ScanAppend DEF Scanned
  <2>2. Scan(a).lines \o <<>> = Scan(a).lines
    BY <2>1, ConcatEmptySeq
  <2>3. Scan(a \o line) = [line |-> Scan(line).line, lines |-> Scan(a).lines \o Scan(line).lines]
    BY <1>1, <1>2, ScanConcat
  <2>4. Scan(line).line = line /\ Scan(line).lines = <<>>
    BY <1>4
  <2>. QED
    BY <1>1, <2>2, <2>3, <2>4
<1>6. Scan(Append(h, b[i])) = Line(Scan(h), b[i]) /\ Scan(h) \in Scanned
  BY <1>1, ScanAppend
<1>7. Scan(h).line = line /\ Scan(h).lines = Scan(a).lines
  BY <1>5
<1>. HIDE DEF NoLines
<1>8. /\ line \in NoLines => Line(Scan(h), b[i]) = [line |-> <<>>, lines |-> Scan(a).lines]
      /\ line \notin NoLines =>
           Line(Scan(h), b[i]) = [line |-> <<>>, lines |-> Append(Scan(a).lines, line)]
  BY <1>1, <1>6, <1>7, LineIs
<1>9. /\ line \in NoLines => Scan(Append(h, b[i])).lines = Scan(a).lines
      /\ line \notin NoLines => Scan(Append(h, b[i])).lines = Append(Scan(a).lines, line)
  BY <1>6, <1>8
<1>. QED
  BY <1>9

LEMMA ProcessStartHalf == \A b \in Seq(Symbol) : Half(ProcessStart, b, 0)
<1>. SUFFICES ASSUME NEW b \in Seq(Symbol) PROVE Half(ProcessStart, b, 0)
  OBVIOUS
<1>1. <<>> \in Seq(Seq(Symbol)) /\ SubSeq(b, 1, 0) = <<>>
  BY EmptySeq, SubSeqEmpty
<1>2. Scan(<<>>).lines = <<>>
  BY ScanAppend DEF Start
<1>. DEFINE p == ProcessStart
<1>3. p.start = 0 /\ p.lines = <<>> /\ p.garbled = FALSE /\ p.marked = FALSE
  BY DEF ProcessStart
<1>4. p \in Processed
  BY <1>1 DEF Processed, ProcessStart
<1>. HIDE DEF p
<1>5. SubSeq(b, 1, p.start) = <<>>
  BY <1>1, <1>3
<1>6. p.lines = Scan(SubSeq(b, 1, p.start)).lines
  BY <1>2, <1>3, <1>5
<1>7. p.start \in 0..0 /\ ~ (p.start # 0) /\ ~ p.marked /\ ~ p.garbled
      /\ (\A j \in (p.start + 1)..0 : FALSE) /\ \A j \in 1..(p.start - 1) : FALSE
  BY <1>3
<1>8. Half(p, b, 0)
  BY <1>4, <1>6, <1>7 DEF Half
<1>. QED
  BY <1>8 DEF p

\* A text of one symbol.
LEMMA OfOne == ASSUME NEW t \in Seq(Symbol), Len(t) = 1 PROVE t = <<t[1]>>
OBVIOUS

\* What holds of the first symbols holds with one more.
LEMMA ProcessHalf ==
  ASSUME NEW b \in Seq(Symbol), NEW i \in 1..Len(b), NEW p, Half(p, b, i - 1)
  PROVE  Half(Process(p, b, i), b, i)
<1>. DEFINE q == Process(p, b, i)
            s == p.start
            line == SubSeq(b, s + 1, i - 1)
            again == i > 1 /\ b[i - 1] \in EOL
            lines == Scan(SubSeq(b, 1, i)).lines
<1>1. /\ p \in Processed /\ s \in 0..(i - 1) /\ (s # 0 => b[s] \in EOL)
      /\ p.lines = Scan(SubSeq(b, 1, s)).lines
      /\ (~ p.marked => \A j \in (s + 1)..(i - 1) : b[j] \notin EOL)
      /\ (p.marked => b[s + 1] = "ins")
      /\ (\A j \in 1..(s - 1) : ~ MarkAt(b, j))
      /\ (p.garbled => b[1] \in EOL)
  BY DEF Half
<1>2. /\ s \in Nat /\ p.lines \in Seq(Seq(Symbol)) /\ p.garbled \in BOOLEAN /\ p.marked \in BOOLEAN
      /\ Len(b) \in Nat /\ i \in Nat \ {0} /\ b[i] \in Symbol
  BY <1>1 DEF Processed
<1>3. /\ line \in Seq(Symbol) /\ Len(line) = i - 1 - s
      /\ \A j \in 1..(i - 1 - s) : line[j] = b[s + j]
  <2>1. s \in 0..(i - 1)
    BY <1>1
  <2>. HIDE DEF s, q, lines
  <2>. QED
    BY <2>1, Beginnings
<1>4. ~ p.marked /\ b[i] \in EOL => lines = IF line \in NoLines THEN p.lines ELSE Append(p.lines, line)
  BY <1>1, OneLine
<1>5. q = IF p.marked \/ b[i] \notin EOL THEN p
          ELSE IF again THEN [p EXCEPT !.start = i]
          ELSE IF line = <<"ins">> THEN [p EXCEPT !.marked = TRUE]
          ELSE IF line = <<>> THEN [p EXCEPT !.start = i, !.garbled = TRUE]
          ELSE [p EXCEPT !.start = i, !.lines = Append(@, line)]
  BY DEF Process
<1>. HIDE DEF q, s, line, lines
<1>6. CASE p.marked \/ b[i] \notin EOL
  <2>1. q = p
    BY <1>5, <1>6
  <2>2. ~ p.marked => \A j \in (s + 1)..i : b[j] \notin EOL
    BY <1>1, <1>2, <1>6
  <2>3. s \in 0..i
    BY <1>1, <1>2
  <2>. QED
    BY <1>1, <2>1, <2>2, <2>3 DEF Half, q, s
<1>7. CASE ~ p.marked /\ b[i] \in EOL
  <2>1. \A j \in (s + 1)..(i - 1) : b[j] \notin EOL
    BY <1>1, <1>7
  <2>2. "ins" \notin EOL
    BY DEF EOL
  <2>3. again => s = i - 1 /\ line = <<>>
    <3>. SUFFICES ASSUME again PROVE s = i - 1 /\ line = <<>>
      OBVIOUS
    <3>1. s = i - 1
      <4>. SUFFICES ASSUME s # i - 1 PROVE FALSE
        OBVIOUS
      <4>1. i - 1 \in (s + 1)..(i - 1)
        BY <1>1, <1>2
      <4>. QED
        BY <2>1, <4>1
    <3>2. Len(line) = 0
      BY <1>2, <1>3, <3>1
    <3>. QED
      BY <1>3, <3>1, <3>2, EmptySeq
  <2>4. line # <<"ins">> \/ again => \A j \in 1..(i - 1) : ~ MarkAt(b, j)
    <3>. SUFFICES ASSUME line # <<"ins">> \/ again, NEW j \in 1..(i - 1), MarkAt(b, j) PROVE FALSE
      OBVIOUS
    <3>1. b[j] = "ins" /\ (j = 1 \/ b[j - 1] \in EOL) /\ b[j + 1] \in EOL /\ ~ (j \in 1..(s - 1))
      BY <1>1 DEF MarkAt
    <3>2. j # s
      BY <1>1, <2>2, <3>1
    <3>3. j > s
      BY <1>2, <3>1, <3>2
    <3>4. j + 1 = i
      <4>. SUFFICES ASSUME j + 1 # i PROVE FALSE
        OBVIOUS
      <4>1. j + 1 \in (s + 1)..(i - 1)
        BY <1>2, <3>3
      <4>. QED
        BY <2>1, <3>1, <4>1
    <3>5. j = s + 1
      <4>. SUFFICES ASSUME j # s + 1 PROVE FALSE
        OBVIOUS
      <4>1. j - 1 \in (s + 1)..(i - 1) /\ j # 1
        BY <1>2, <3>3
      <4>. QED
        BY <2>1, <3>1, <4>1
    <3>6. Len(line) = 1 /\ line[1] = "ins"
      BY <1>2, <1>3, <3>1, <3>4, <3>5
    <3>7. line = <<"ins">>
      BY <1>3, <3>6, OfOne
    <3>8. ~ again
      BY <2>2, <3>1, <3>4
    <3>. QED
      BY <3>7, <3>8
  <2>5. line = <<"ins">> => b[s + 1] = "ins"
    <3>. SUFFICES ASSUME line = <<"ins">> PROVE b[s + 1] = "ins"
      OBVIOUS
    <3>1. Len(line) = 1 /\ line[1] = "ins"
      OBVIOUS
    <3>. QED
      BY <1>2, <1>3, <3>1
  <2>6. line = <<>> /\ ~ again => i = 1
    <3>. SUFFICES ASSUME line = <<>>, ~ again PROVE i = 1
      OBVIOUS
    <3>1. s = i - 1
      BY <1>2, <1>3, EmptySeq
    <3>. QED
      BY <1>1, <1>2, <3>1
  <2>. DEFINE Begins(r) == /\ r \in Processed /\ r.start = i /\ ~ r.marked
                           /\ r.lines = lines /\ (r.garbled => b[1] \in EOL)
  <2>7. ASSUME NEW r, Begins(r), line # <<"ins">> \/ again PROVE Half(r, b, i)
    BY <1>2, <1>7, <2>4, <2>7 DEF Half, lines
  <2>8. line \in NoLines => lines = p.lines
    BY <1>4, <1>7
  <2>9. line \notin NoLines => lines = Append(p.lines, line)
    BY <1>4, <1>7
  <2>10. CASE again
    <3>1. q = [p EXCEPT !.start = i]
      BY <1>5, <1>7, <2>10
    <3>2. lines = p.lines
      BY <2>3, <2>8, <2>10 DEF NoLines
    <3>3. Begins(q)
      BY <1>1, <1>2, <1>7, <3>1, <3>2 DEF Processed
    <3>. QED
      BY <2>7, <2>10, <3>3 DEF q
  <2>11. CASE ~ again /\ line = <<"ins">>
    <3>1. q = [p EXCEPT !.marked = TRUE]
      BY <1>5, <1>7, <2>11
    <3>2. q \in Processed /\ q.start = s /\ q.lines = p.lines /\ q.marked /\ q.garbled = p.garbled
      BY <1>1, <1>2, <3>1 DEF Processed, s
    <3>3. s \in 0..i
      BY <1>1, <1>2
    <3>4. Half(q, b, i)
      BY <1>1, <2>5, <2>11, <3>2, <3>3 DEF Half
    <3>. QED
      BY <3>4 DEF q
  <2>12. CASE ~ again /\ line = <<>>
    <3>1. q = [p EXCEPT !.start = i, !.garbled = TRUE]
      <4>1. <<>> # <<"ins">>
        OBVIOUS
      <4>. QED
        BY <1>5, <1>7, <2>12, <4>1
    <3>2. lines = p.lines
      BY <2>8, <2>12 DEF NoLines
    <3>3. b[1] \in EOL
      BY <1>7, <2>6, <2>12
    <3>4. Begins(q)
      BY <1>1, <1>2, <1>7, <3>1, <3>2, <3>3 DEF Processed
    <3>5. line # <<"ins">>
      <4>1. <<>> # <<"ins">>
        OBVIOUS
      <4>. QED
        BY <2>12, <4>1
    <3>. QED
      BY <2>7, <3>4, <3>5 DEF q
  <2>13. CASE ~ again /\ line # <<"ins">> /\ line # <<>>
    <3>1. q = [p EXCEPT !.start = i, !.lines = Append(@, line)]
      BY <1>5, <1>7, <2>13
    <3>2. lines = Append(p.lines, line)
      BY <2>9, <2>13 DEF NoLines
    <3>3. Append(p.lines, line) \in Seq(Seq(Symbol))
      <4>. DEFINE S == Seq(Symbol)
                  x == p.lines
      <4>1. x \in Seq(S) /\ line \in S
        BY <1>2, <1>3
      <4>. HIDE DEF S, x
      <4>2. Append(x, line) \in Seq(S)
        BY <4>1
      <4>. QED
        BY <4>2 DEF S, x
    <3>4. Begins(q)
      BY <1>1, <1>2, <1>7, <3>1, <3>2, <3>3 DEF Processed
    <3>. QED
      BY <2>7, <2>13, <3>4 DEF q
  <2>. QED
    BY <2>10, <2>11, <2>12, <2>13
<1>. QED
  BY <1>2, <1>6, <1>7

LEMMA ProcessTyped ==
  ASSUME NEW b \in Seq(Symbol), NEW i \in 1..Len(b), NEW p \in Processed
  PROVE  Process(p, b, i) \in Processed
<1>. DEFINE line == SubSeq(b, p.start + 1, i - 1)
            S == Seq(Symbol)
            x == p.lines
<1>1. p.start \in Nat /\ x \in Seq(S) /\ p.garbled \in BOOLEAN /\ p.marked \in BOOLEAN
      /\ Len(b) \in Nat /\ i \in Nat
  BY DEF Processed
<1>2. line \in S
  BY <1>1
<1>3. Append(x, line) \in Seq(S)
  <2>. HIDE DEF S, x, line
  <2>. QED
    BY <1>1, <1>2
<1>. HIDE DEF line
<1>4. [p EXCEPT !.start = i, !.lines = Append(x, line)] \in Processed
      /\ [p EXCEPT !.start = i] \in Processed /\ [p EXCEPT !.marked = TRUE] \in Processed
      /\ [p EXCEPT !.start = i, !.garbled = TRUE] \in Processed
  BY <1>1, <1>3 DEF Processed
<1>. HIDE DEF Processed
<1>. QED
  BY <1>4 DEF Process, line

\* What process_syslog makes of a buffer.
LEMMA ProcessSyslogIs ==
  ASSUME NEW b \in Seq(Symbol)
  PROVE  Half(ProcessSyslog(b), b, Len(b))
<1>. DEFINE n == Len(b)
            R(L) == [i \in 0..n |-> IF i = 0 THEN ProcessStart ELSE Process(L[i - 1], b, i)]
            M == CHOOSE L : L = R(L)
            F == [p \in (1..n) \X Processed |-> Process(p[2], b, p[1])]
<1>1. n \in Nat
  OBVIOUS
<1>2. ProcessStart \in Processed
  BY ProcessStartHalf DEF Half
<1>3. F \in Steps(n, Processed)
  BY <1>1, ProcessTyped DEF Steps
<1>4. \A k \in 1..n, p \in Processed : F[<<k, p>>] = Process(p, b, k)
  OBVIOUS
<1>5. ProcessSyslog(b) = M[n]
  BY DEF ProcessSyslog
<1>. HIDE DEF n, F
<1>6. PICK L \in [0..n -> Processed] :
        L[0] = ProcessStart /\ \A k \in 1..n : L[k] = F[<<k, L[k - 1]>>]
  BY <1>1, <1>2, <1>3, Recursion
<1>7. ASSUME NEW k \in 1..n PROVE L[k] = Process(L[k - 1], b, k)
  <2>1. L[k - 1] \in Processed
    BY <1>1
  <2>. QED
    BY <1>4, <1>6, <2>1
<1>8. L = R(L)
  BY <1>6, <1>7
<1>9. M = R(M)
  BY <1>8
<1>. HIDE DEF M
<1>10. M[0] = ProcessStart /\ \A k \in 1..n : M[k] = Process(M[k - 1], b, k)
  BY <1>1, <1>9
<1>. DEFINE T == {k \in 0..n : Half(M[k], b, k)}
<1>11. 0 \in T
  BY <1>1, <1>10, ProcessStartHalf
<1>12. ASSUME NEW k \in 1..n, k - 1 \in T PROVE k \in T
  <2>1. Half(M[k - 1], b, k - 1)
    BY <1>12
  <2>2. k \in 1..Len(b) /\ k \in 0..n
    BY DEF n
  <2>3. Half(Process(M[k - 1], b, k), b, k)
    BY <2>1, <2>2, ProcessHalf
  <2>. QED
    BY <1>10, <2>2, <2>3
<1>13. n \in T
  <2>1. 0..n \subseteq T
    <3>. HIDE DEF T
    <3>. QED
      BY <1>1, <1>11, <1>12, UpTo
  <2>. QED
    BY <1>1, <2>1
<1>. QED
  BY <1>5, <1>13 DEF n

\* Up to the end of a line before which there is no mark, everything is sent.
LEMMA ProcessReaches ==
  ASSUME NEW b \in Seq(Symbol), NEW k \in 1..Len(b), b[k] \in EOL, \A j \in 1..k : b[j] # "ins"
  PROVE  k <= ProcessSyslog(b).start
<1>. DEFINE p == ProcessSyslog(b)
<1>1. /\ p.start \in 0..Len(b) /\ (~ p.marked => \A j \in (p.start + 1)..Len(b) : b[j] \notin EOL)
      /\ (p.marked => b[p.start + 1] = "ins")
  BY ProcessSyslogIs DEF Half
<1>. HIDE DEF p
<1>. SUFFICES ASSUME ~ (k <= p.start) PROVE FALSE
  BY DEF p
<1>2. p.start + 1 \in 1..k /\ k \in (p.start + 1)..Len(b)
  BY <1>1
<1>. QED
  BY <1>1, <1>2

--------------------------------------------------------------------------------
(* The lines of a part of the log.                                              *)

Cut(f, a, k) == Scan(SubSeq(f, a + 1, k)).lines

LEMMA NewIsCut == \A f, k : New(f, k) = Cut(f, hist.from, k)
BY DEF New, Lines, Cut

\* The parts of a part.
LEMMA Parts ==
  ASSUME NEW f \in Seq(Symbol), NEW a \in Nat, NEW k \in a..Len(f), NEW m \in k..Len(f)
  PROVE  /\ SubSeq(f, a + 1, m) = SubSeq(f, a + 1, k) \o SubSeq(f, k + 1, m)
         /\ SubSeq(f, a + 1, k) \in Seq(Symbol) /\ SubSeq(f, k + 1, m) \in Seq(Symbol)
         /\ SubSeq(f, a + 1, m) \in Seq(Symbol)
         /\ Len(SubSeq(f, a + 1, k)) = k - a /\ Len(SubSeq(f, k + 1, m)) = m - k
         /\ \A i \in 1..(k - a) : SubSeq(f, a + 1, k)[i] = f[a + i]
         /\ \A i \in 1..(m - k) : SubSeq(f, k + 1, m)[i] = f[k + i]
<1>. DEFINE s == SubSeq(f, a + 1, k)
            t == SubSeq(f, k + 1, m)
            u == SubSeq(f, a + 1, m)
<1>1. Len(f) \in Nat /\ k \in Nat /\ m \in Nat
  OBVIOUS
<1>2. s \in Seq(Symbol) /\ t \in Seq(Symbol) /\ u \in Seq(Symbol)
  BY <1>1
<1>3. Len(s) = k - a /\ \A i \in 1..(k - a) : s[i] = f[a + i]
  BY <1>1
<1>4. Len(t) = m - k /\ \A i \in 1..(m - k) : t[i] = f[k + i]
  BY <1>1
<1>5. Len(u) = m - a /\ \A i \in 1..(m - a) : u[i] = f[a + i]
  BY <1>1
<1>. HIDE DEF s, t, u
<1>6. s \o t \in Seq(Symbol) /\ Len(s \o t) = m - a
      /\ \A i \in 1..(m - a) : (s \o t)[i] = IF i <= k - a THEN s[i] ELSE t[i - (k - a)]
  <2>1. /\ s \o t \in Seq(Symbol) /\ Len(s \o t) = Len(s) + Len(t)
        /\ \A i \in 1..(Len(s) + Len(t)) : (s \o t)[i] = IF i <= Len(s) THEN s[i] ELSE t[i - Len(s)]
    BY <1>2, ConcatProperties
  <2>2. Len(s) + Len(t) = m - a /\ Len(s) = k - a
    BY <1>1, <1>3, <1>4
  <2>. QED
    BY <2>1, <2>2
<1>7. ASSUME NEW i \in 1..(m - a) PROVE u[i] = (s \o t)[i]
  <2>1. CASE i <= k - a
    BY <1>3, <1>5, <1>6, <2>1
  <2>2. CASE ~ (i <= k - a)
    <3>1. i - (k - a) \in 1..(m - k) /\ k + (i - (k - a)) = a + i
      BY <1>1, <2>2
    <3>. QED
      BY <1>4, <1>5, <1>6, <2>2, <3>1
  <2>. QED
    BY <2>1, <2>2
<1>8. u = s \o t
  BY <1>2, <1>5, <1>6, <1>7, SeqEqual
<1>. QED
  BY <1>2, <1>3, <1>4, <1>8 DEF s, t, u

\* The beginning of a part.
LEMMA PartOfPart ==
  ASSUME NEW f \in Seq(Symbol), NEW a \in Nat, NEW n \in Nat, a + n \in a..Len(f), NEW k \in 0..n
  PROVE  SubSeq(f, a + 1, a + k) = SubSeq(SubSeq(f, a + 1, a + n), 1, k)
<1>. DEFINE s == SubSeq(f, a + 1, a + n)
            t == SubSeq(f, a + 1, a + k)
            u == SubSeq(s, 1, k)
<1>1. Len(f) \in Nat /\ a + k \in a..Len(f) /\ a \in a..Len(f) /\ k \in Nat
      /\ (a + k) - a = k /\ (a + n) - a = n
  OBVIOUS
<1>2. s \in Seq(Symbol) /\ Len(s) = n /\ \A i \in 1..n : s[i] = f[a + i]
  BY <1>1, Parts
<1>3. t \in Seq(Symbol) /\ Len(t) = k /\ \A i \in 1..k : t[i] = f[a + i]
  BY <1>1, Parts
<1>. HIDE DEF s, t
<1>4. u \in Seq(Symbol) /\ Len(u) = k /\ \A i \in 1..k : u[i] = s[i]
  BY <1>1, <1>2
<1>. HIDE DEF u
<1>5. Len(t) = Len(u) /\ \A i \in 1..Len(t) : t[i] = u[i]
  <2>1. \A i \in 1..k : i \in 1..n
    BY <1>1
  <2>. QED
    BY <1>2, <1>3, <1>4, <2>1
<1>6. t = u
  BY <1>3, <1>4, <1>5, SeqEqual
<1>. QED
  BY <1>6 DEF s, t, u

LEMMA CutTyped ==
  ASSUME NEW f \in Seq(Symbol), NEW a \in Nat, NEW k \in a..Len(f)
  PROVE  Cut(f, a, k) \in Seq(Seq(Symbol))
<1>1. SubSeq(f, a + 1, k) \in Seq(Symbol)
  BY Parts
<1>. QED
  BY <1>1, ScanAppend DEF Cut, Scanned

LEMMA CutEmpty == ASSUME NEW f \in Seq(Symbol), NEW a \in Nat PROVE Cut(f, a, a) = <<>>
<1>1. SubSeq(f, a + 1, a) = <<>>
  OBVIOUS
<1>2. Scan(<<>>).lines = <<>>
  BY ScanAppend DEF Start
<1>. QED
  BY <1>1, <1>2 DEF Cut

\* The lines of a part depend on it alone.
LEMMA CutSame ==
  ASSUME NEW f \in Seq(Symbol), NEW g \in Seq(Symbol), NEW a \in Nat, NEW k \in a..Len(f),
         k <= Len(g), \A i \in 1..k : f[i] = g[i]
  PROVE  Cut(f, a, k) = Cut(g, a, k)
<1>. DEFINE s == SubSeq(f, a + 1, k)
            t == SubSeq(g, a + 1, k)
<1>1. /\ s \in Seq(Symbol) /\ t \in Seq(Symbol) /\ Len(s) = k - a /\ Len(t) = k - a
      /\ (\A i \in 1..(k - a) : s[i] = f[a + i]) /\ \A i \in 1..(k - a) : t[i] = g[a + i]
  <2>1. k \in a..Len(g)
    OBVIOUS
  <2>. QED
    BY <2>1, Parts
<1>2. \A i \in 1..(k - a) : a + i \in 1..k
  OBVIOUS
<1>. HIDE DEF s, t
<1>3. \A i \in 1..Len(s) : s[i] = t[i]
  BY <1>1, <1>2
<1>4. s = t
  BY <1>1, <1>3, SeqEqual
<1>. QED
  BY <1>4 DEF Cut, s, t

\* What follows adds its lines to those before, and nothing if no line ends in it.
LEMMA CutGoesOn ==
  ASSUME NEW f \in Seq(Symbol), NEW a \in Nat, NEW k \in a..Len(f), NEW m \in k..Len(f)
  PROVE  /\ IsPrefix(Cut(f, a, k), Cut(f, a, m))
         /\ (\A j \in (k + 1)..m : f[j] \notin EOL) => Cut(f, a, m) = Cut(f, a, k)
         /\ k = a \/ f[k] \in EOL =>
              Cut(f, a, m) = Cut(f, a, k) \o Scan(SubSeq(f, k + 1, m)).lines
<1>. DEFINE s == SubSeq(f, a + 1, k)
            t == SubSeq(f, k + 1, m)
<1>1. /\ SubSeq(f, a + 1, m) = s \o t /\ s \in Seq(Symbol) /\ t \in Seq(Symbol)
      /\ Len(s) = k - a /\ Len(t) = m - k
      /\ (\A i \in 1..(k - a) : s[i] = f[a + i]) /\ \A i \in 1..(m - k) : t[i] = f[k + i]
  BY Parts
<1>2. Cut(f, a, k) = Scan(s).lines /\ Cut(f, a, m) = Scan(s \o t).lines
  BY <1>1 DEF Cut
<1>. SUFFICES /\ IsPrefix(Scan(s).lines, Scan(s \o t).lines)
              /\ (\A j \in (k + 1)..m : f[j] \notin EOL) => Scan(s \o t).lines = Scan(s).lines
              /\ k = a \/ f[k] \in EOL => Scan(s \o t).lines = Scan(s).lines \o Scan(t).lines
  BY <1>2
<1>. HIDE DEF s, t
<1>3. (\A j \in (k + 1)..m : f[j] \notin EOL) => EndFree(t)
  <2>. SUFFICES ASSUME \A j \in (k + 1)..m : f[j] \notin EOL, NEW i \in 1..Len(t)
                PROVE  t[i] \notin EOL
    BY DEF EndFree
  <2>1. i \in 1..(m - k) /\ k + i \in (k + 1)..m
    BY <1>1
  <2>. QED
    BY <1>1, <2>1
<1>4. k = a \/ f[k] \in EOL => s = <<>> \/ s[Len(s)] \in EOL
  <2>1. k = a => s = <<>>
    BY <1>1, EmptySeq
  <2>2. k # a => s[Len(s)] = f[k]
    BY <1>1
  <2>. QED
    BY <2>1, <2>2
<1>5. k = a \/ f[k] \in EOL => Scan(s).line = <<>>
  BY <1>1, <1>4, ScanAtEnd
<1>6. k = a \/ f[k] \in EOL => Scan(s \o t).lines = Scan(s).lines \o Scan(t).lines
  <2>. SUFFICES ASSUME Scan(s).line = <<>> PROVE Scan(s \o t).lines = Scan(s).lines \o Scan(t).lines
    BY <1>5
  <2>1. Scan(s \o t) = [line |-> Scan(t).line, lines |-> Scan(s).lines \o Scan(t).lines]
    BY <1>1, ScanConcat
  <2>. DEFINE l == Scan(t).line
              x == Scan(s).lines \o Scan(t).lines
  <2>. HIDE DEF l, x
  <2>2. Scan(s \o t) = [line |-> l, lines |-> x]
    BY <2>1 DEF l, x
  <2>3. Scan(s \o t).lines = x
    BY <2>2
  <2>. QED
    BY <2>3 DEF x
<1>7. IsPrefix(Scan(s).lines, Scan(s \o t).lines)
      /\ (EndFree(t) => Scan(s \o t).lines = Scan(s).lines)
  BY <1>1, ScanGoesOn
<1>. QED
  BY <1>3, <1>6, <1>7

\* A mark behind the end of a line is no line.
LEMMA MarkIsNoLine ==
  ASSUME NEW t \in Seq(Symbol), Len(t) = 3, t[1] = "ins", t[2] = "CR", t[3] = "LF"
  PROVE  Scan(t).lines = <<>>
<1>1. t = <<t[1], t[2], t[3]>> /\ t[1] \in Symbol /\ t[2] \in Symbol /\ t[3] \in Symbol
  OBVIOUS
<1>2. ASSUME NEW x \in Symbol, NEW y \in Symbol, NEW z \in Symbol
      PROVE  Scan(<<x, y, z>>) = Line(Line(Line(Start, x), y), z)
  <2>1. <<x>> = Append(<<>>, x) /\ <<x, y>> = Append(<<x>>, y) /\ <<x, y, z>> = Append(<<x, y>>, z)
        /\ <<>> \in Seq(Symbol) /\ <<x>> \in Seq(Symbol) /\ <<x, y>> \in Seq(Symbol)
    OBVIOUS
  <2>2. Scan(<<x>>) = Line(Scan(<<>>), x) /\ Scan(<<x, y>>) = Line(Scan(<<x>>), y)
        /\ Scan(<<x, y, z>>) = Line(Scan(<<x, y>>), z)
    BY <2>1, ScanAppend
  <2>. QED
    BY <2>2, ScanAppend
<1>3. "ins" \notin EOL /\ "CR" \in EOL /\ "LF" \in EOL
  BY DEF EOL
<1>4. Line(Start, "ins") = [line |-> <<"ins">>, lines |-> <<>>]
  BY <1>3 DEF Line, Start
<1>5. Line([line |-> <<"ins">>, lines |-> <<>>], "CR") = [line |-> <<>>, lines |-> <<>>]
  <2>. DEFINE w == <<"ins">>
  <2>1. w \in NoLines
    BY DEF NoLines
  <2>. HIDE DEF w
  <2>2. Line([line |-> w, lines |-> <<>>], "CR") = [line |-> <<>>, lines |-> <<>>]
    BY <1>3, <2>1 DEF Line
  <2>. QED
    BY <2>2 DEF w
<1>6. Line([line |-> <<>>, lines |-> <<>>], "LF") = [line |-> <<>>, lines |-> <<>>]
  <2>1. <<>> \in NoLines
    BY DEF NoLines
  <2>. QED
    BY <1>3, <2>1 DEF Line
<1>7. Scan(t) = [line |-> <<>>, lines |-> <<>>]
  BY <1>1, <1>2, <1>4, <1>5, <1>6
<1>. QED
  BY <1>7

\* The last end of a line of a part.
LEMMA LastEnd ==
  ASSUME NEW f \in Seq(Symbol), NEW a \in Nat, NEW m \in a..Len(f)
  PROVE  \E k \in a..m : (k = a \/ f[k] \in EOL) /\ \A j \in (k + 1)..m : f[j] \notin EOL
<1>. DEFINE T == {d \in 0..(m - a) : m - d = a \/ f[m - d] \in EOL}
<1>1. T \subseteq Nat /\ m - a \in T
  OBVIOUS
<1>2. PICK d \in T : \A e \in T : d <= e
  <2>. HIDE DEF T
  <2>. QED
    BY <1>1, LeastNumber
<1>3. ASSUME NEW j \in (m - d + 1)..m PROVE f[j] \notin EOL
  <2>1. m - j \in 0..(m - a) /\ ~ (d <= m - j) /\ m - (m - j) = j
    BY <1>2, <1>3
  <2>2. m - j \notin T
    BY <1>2, <2>1
  <2>. QED
    BY <2>1, <2>2
<1>4. m - d \in a..m /\ (m - d = a \/ f[m - d] \in EOL)
  BY <1>2
<1>. QED
  BY <1>3, <1>4

--------------------------------------------------------------------------------
(* The invariant.                                                               *)

History == [from : Nat, due : Seq(Seq(Symbol)), torn : BOOLEAN, garbled : BOOLEAN,
            cycle : {"none", "begun", "whole"}]

\* Where the thread began, and the ends of lines behind that Windows does not overwrite.
Ends == {hist.from} \cup {k \in (hist.from + 1)..mark : file[k] \in EOL}

\* The log ends where Windows goes on writing, but for the mark.
LogEnds ==
  /\ file \in Seq(Symbol) /\ mark \in 0..Len(file) /\ wrote \in 0..Len(Writes)
  /\ \/ mark = Len(file)
     \/ /\ Len(file) = mark + 3
        /\ file[mark + 1] = "ins" /\ file[mark + 2] = "CR" /\ file[mark + 3] = "LF"

\* The thread is at the beginning of a line; behind where it began a mark follows a line, and
\* no text has one.
ReaderAt ==
  /\ size \in Nat /\ pos = last /\ hist \in History /\ hist.from <= Len(file) /\ last \in Ends
  /\ reader = "open" => phase = "installing" /\ hist.from = 0 /\ sent = <<>>
  /\ reader # "open" =>
       /\ mark < hist.from => hist.from = Len(file)
       /\ hist.from <= mark /\ mark < Len(file) => mark > 0 /\ file[mark] = "LF"
       /\ \A j \in (hist.from + 1)..mark : file[j] # "ins"
  /\ reader = "read" => size > 0 /\ last + size <= Len(file)

\* The lines before are those that it sent.
LinesSent ==
  /\ sent = Cut(file, hist.from, last)
  /\ hist.garbled => hist.torn

\* The lines that were complete when the install was done are those before an end of a line; a
\* thread that has looked since reads up to there, and is there once it has read.
LinesDue ==
  /\ phase \in {"installing", "done", "terminated"}
  /\ phase = "installing" => hist.cycle = "none"
  /\ phase # "installing" =>
       \E k \in Ends :
         /\ hist.due = Cut(file, hist.from, k)
         /\ hist.cycle = "begun" => /\ reader \in {"read", "failed"}
                                    /\ reader = "read" => k <= last + size
         /\ hist.cycle = "whole" => k <= last
  /\ phase = "terminated" => hist.cycle = "whole" \/ reader = "failed"
  /\ reader = "ended" => phase = "terminated" /\ hist.cycle = "whole"

SyslogInv == LogEnds /\ ReaderAt /\ LinesSent /\ LinesDue

\* What the invariant says of the ends of lines.
LEMMA EndsAre ==
  ASSUME SyslogInv
  PROVE  /\ Len(file) \in Nat /\ mark \in Nat /\ hist.from \in Nat /\ last \in Nat /\ size \in Nat
         /\ hist.from <= last
         /\ \A k \in Ends : /\ k \in hist.from..Len(file)
                            /\ k = hist.from \/ (k <= mark /\ file[k] \in EOL)
<1>1. file \in Seq(Symbol) /\ mark \in 0..Len(file) /\ hist \in History /\ hist.from <= Len(file)
      /\ last \in Ends /\ size \in Nat
  BY DEF SyslogInv, LogEnds, ReaderAt
<1>2. hist.from \in Nat
  BY <1>1 DEF History
<1>3. Len(file) \in Nat /\ mark \in Nat
  BY <1>1
<1>4. \A k \in Ends : /\ k \in hist.from..Len(file)
                      /\ k = hist.from \/ (k <= mark /\ file[k] \in EOL)
  BY <1>1, <1>2, <1>3 DEF Ends
<1>. HIDE DEF Ends
<1>. QED
  BY <1>1, <1>2, <1>3, <1>4

\* The mark, and a log that ends in it.
LEMMA MarkIs == Mark \in Seq(Symbol) /\ Len(Mark) = 3
                /\ Mark[1] = "ins" /\ Mark[2] = "CR" /\ Mark[3] = "LF"
<1>1. "ins" \in Symbol /\ "CR" \in Symbol /\ "LF" \in Symbol
  BY LogAssumption
<1>. QED
  BY <1>1 DEF Mark

LEMMA SuffixIs ==
  ASSUME NEW f \in Seq(Symbol), IsSuffix(Mark, f)
  PROVE  /\ 3 <= Len(f) /\ f[Len(f) - 2] = "ins" /\ f[Len(f) - 1] = "CR" /\ f[Len(f)] = "LF"
<1>. DEFINE r == Reverse(Mark)
            g == Reverse(f)
<1>1. Len(f) \in Nat
  OBVIOUS
<1>2. r = [i \in 1..3 |-> Mark[3 - i + 1]]
  BY MarkIs DEF Reverse
<1>3. g = [i \in 1..Len(f) |-> f[Len(f) - i + 1]]
  BY DEF Reverse
<1>4. Len(r) = 3 /\ Len(g) = Len(f)
  BY <1>1, <1>2, <1>3
<1>5. r[1] = "LF" /\ r[2] = "CR" /\ r[3] = "ins"
  BY <1>2, MarkIs
<1>. HIDE DEF r, g
<1>6. 3 <= Len(f) /\ SubSeq(r, 1, 3) = SubSeq(g, 1, 3)
  BY <1>4 DEF IsSuffix, IsPrefix, r, g
<1>7. /\ SubSeq(r, 1, 3)[1] = r[1] /\ SubSeq(r, 1, 3)[2] = r[2] /\ SubSeq(r, 1, 3)[3] = r[3]
      /\ SubSeq(g, 1, 3)[1] = g[1] /\ SubSeq(g, 1, 3)[2] = g[2] /\ SubSeq(g, 1, 3)[3] = g[3]
  BY <1>4, <1>6
<1>8. g[1] = f[Len(f)] /\ g[2] = f[Len(f) - 1] /\ g[3] = f[Len(f) - 2]
  BY <1>1, <1>3, <1>6
<1>. QED
  BY <1>5, <1>6, <1>7, <1>8

LEMMA SyslogInitInv == SyslogInit => SyslogInv
<1>. SUFFICES ASSUME SyslogInit PROVE SyslogInv
  OBVIOUS
<1>1. file \in Seq(Symbol)
  BY LogAssumption DEF SyslogInit
<1>2. Len(file) \in Nat /\ Len(Writes) \in Nat
  BY <1>1, LogAssumption, LenProperties
<1>3. hist = [from |-> 0, due |-> <<>>, torn |-> FALSE, garbled |-> FALSE, cycle |-> "none"]
      /\ wrote = 0 /\ reader = "open" /\ size = 0 /\ pos = 0 /\ last = 0 /\ sent = <<>>
      /\ phase = "installing"
  BY DEF SyslogInit
<1>4. LogEnds
  <2>1. CASE IsSuffix(Mark, file)
    <3>1. /\ 3 <= Len(file) /\ file[Len(file) - 2] = "ins"
          /\ file[Len(file) - 1] = "CR" /\ file[Len(file)] = "LF"
      BY <1>1, <2>1, SuffixIs
    <3>2. mark = Len(file) - 3
      BY <2>1, MarkIs DEF SyslogInit
    <3>3. mark \in 0..Len(file) /\ mark + 3 = Len(file) /\ mark + 1 = Len(file) - 2
          /\ mark + 2 = Len(file) - 1
      BY <1>2, <3>1, <3>2
    <3>. QED
      BY <1>1, <1>2, <1>3, <3>1, <3>3 DEF LogEnds
  <2>2. CASE ~ IsSuffix(Mark, file)
    <3>1. mark = Len(file)
      BY <2>2 DEF SyslogInit
    <3>. QED
      BY <1>1, <1>2, <1>3, <3>1 DEF LogEnds
  <2>. QED
    BY <2>1, <2>2
<1>5. hist \in History
  <2>1. <<>> \in Seq(Seq(Symbol))
    BY EmptySeq
  <2>. QED
    BY <1>3, <2>1 DEF History
<1>6. hist.from = 0 /\ hist.garbled = FALSE /\ hist.cycle = "none"
  BY <1>3
<1>7. ReaderAt
  BY <1>2, <1>3, <1>5, <1>6 DEF ReaderAt, Ends
<1>8. LinesSent
  <2>1. Cut(file, 0, 0) = <<>>
    BY <1>1, CutEmpty
  <2>. QED
    BY <1>3, <1>6, <2>1 DEF LinesSent
<1>9. LinesDue
  BY <1>3, <1>6 DEF LinesDue
<1>. QED
  BY <1>4, <1>7, <1>8, <1>9 DEF SyslogInv

--------------------------------------------------------------------------------
(* Every step keeps it.                                                         *)

\* What Windows does behind its mark leaves the ends of lines before it, and their lines.
LEMMA EndsKept ==
  ASSUME SyslogInv, UNCHANGED hist, file' \in Seq(Symbol), Len(file) <= Len(file'),
         mark' \in mark..Len(file'), \A i \in 1..mark : file'[i] = file[i]
  PROVE  /\ Ends \subseteq Ends'
         /\ \A k \in Ends : Cut(file', hist.from, k) = Cut(file, hist.from, k)
<1>1. /\ Len(file) \in Nat /\ mark \in Nat /\ hist.from \in Nat
      /\ \A k \in Ends : /\ k \in hist.from..Len(file)
                         /\ k = hist.from \/ (k <= mark /\ file[k] \in EOL)
  BY EndsAre
<1>2. file \in Seq(Symbol) /\ Len(file') \in Nat /\ mark' \in Nat /\ mark <= mark'
  BY <1>1 DEF SyslogInv, LogEnds
<1>3. Ends \subseteq Ends'
  BY <1>1, <1>2 DEF Ends
<1>4. ASSUME NEW k \in Ends PROVE Cut(file', hist.from, k) = Cut(file, hist.from, k)
  <2>1. CASE k = hist.from
    BY <1>1, <1>2, <2>1, CutEmpty
  <2>2. CASE k <= mark
    <3>1. k \in hist.from..Len(file) /\ k <= Len(file') /\ \A i \in 1..k : file'[i] = file[i]
      BY <1>1, <1>2, <2>2
    <3>. QED
      BY <1>1, <1>2, <3>1, CutSame
  <2>. QED
    BY <1>1, <2>1, <2>2
<1>. QED
  BY <1>3, <1>4

\* With it the lines that the thread sent and those that are due stay what they are.
LEMMA WindowsKeeps ==
  ASSUME SyslogInv, file' \in Seq(Symbol), Len(file) <= Len(file'),
         mark' \in mark..Len(file'), \A i \in 1..mark : file'[i] = file[i],
         UNCHANGED <<reader, size, pos, last, sent, phase, hist>>
  PROVE  last' \in Ends' /\ LinesSent' /\ LinesDue'
<1>1. /\ Ends \subseteq Ends'
      /\ \A k \in Ends : Cut(file', hist.from, k) = Cut(file, hist.from, k)
  BY EndsKept
<1>2. last \in Ends
  BY DEF SyslogInv, ReaderAt
<1>3. LinesSent'
  BY <1>1, <1>2 DEF SyslogInv, LinesSent
<1>4. LinesDue'
  <2>1. LinesDue
    BY DEF SyslogInv
  <2>2. ASSUME phase # "installing"
        PROVE  \E k \in Ends' :
                 /\ hist.due = Cut(file', hist.from, k)
                 /\ hist.cycle = "begun" => /\ reader \in {"read", "failed"}
                                            /\ reader = "read" => k <= last + size
                 /\ hist.cycle = "whole" => k <= last
    BY <1>1, <2>1, <2>2 DEF LinesDue
  <2>. QED
    BY <2>1, <2>2 DEF LinesDue
<1>. QED
  BY <1>1, <1>2, <1>3, <1>4

\* A text over the mark, or behind the log.
LEMMA OverIs ==
  ASSUME NEW f \in Seq(Symbol), NEW k \in 0..Len(f), NEW t \in Seq(Symbol), Len(f) <= k + Len(t)
  PROVE  /\ Over(f, k, t) \in Seq(Symbol) /\ Len(Over(f, k, t)) = k + Len(t)
         /\ \A i \in 1..k : Over(f, k, t)[i] = f[i]
         /\ \A i \in (k + 1)..(k + Len(t)) : Over(f, k, t)[i] = t[i - k]
<1>1. Len(f) \in Nat /\ k \in Nat /\ Len(t) \in Nat
  BY LenProperties
<1>2. Max({Len(f), k + Len(t)}) = k + Len(t)
  BY <1>1 DEF Max
<1>3. Over(f, k, t) = [i \in 1..(k + Len(t)) |-> IF i \in (k + 1)..(k + Len(t)) THEN t[i - k] ELSE f[i]]
  BY <1>2 DEF Over
<1>4. \A i \in 1..(k + Len(t)) : Over(f, k, t)[i] \in Symbol
  <2>1. ASSUME NEW i \in 1..(k + Len(t)), i \in (k + 1)..(k + Len(t)) PROVE t[i - k] \in Symbol
    <3>1. i - k \in 1..Len(t)
      BY <1>1, <2>1
    <3>. QED
      BY <3>1, ElementOfSeq
  <2>2. ASSUME NEW i \in 1..(k + Len(t)), ~ (i \in (k + 1)..(k + Len(t))) PROVE f[i] \in Symbol
    <3>1. i \in 1..Len(f)
      BY <1>1, <2>2
    <3>. QED
      BY <3>1, ElementOfSeq
  <2>. QED
    BY <1>3, <2>1, <2>2
<1>. DEFINE n == k + Len(t)
<1>5. n \in Nat /\ Over(f, k, t) \in [1..n -> Symbol]
  BY <1>1, <1>3, <1>4
<1>. QED
  BY <1>1, <1>3, <1>5

LEMMA WindowsWritesKeeps == SyslogInv /\ WindowsWrites => SyslogInv'
<1>. SUFFICES ASSUME SyslogInv, WindowsWrites PROVE SyslogInv'
  OBVIOUS
<1>. DEFINE text == Writes[wrote + 1]
<1>1. /\ reader # "open" /\ wrote < Len(Writes) /\ (mark = Len(file) \/ Len(text) >= Len(Mark))
      /\ file' = Over(file, mark, text) /\ mark' = mark + Len(text) /\ wrote' = wrote + 1
      /\ UNCHANGED <<reader, size, pos, last, sent, phase, hist>>
  BY DEF WindowsWrites
<1>2. LogEnds /\ ReaderAt /\ LinesSent /\ LinesDue
  BY DEF SyslogInv
<1>3. /\ file \in Seq(Symbol) /\ mark \in 0..Len(file) /\ wrote \in 0..Len(Writes)
      /\ (mark = Len(file) \/ Len(file) = mark + 3)
  BY <1>2 DEF LogEnds
<1>4. Len(file) \in Nat /\ mark \in Nat /\ hist.from \in Nat
  BY EndsAre
<1>5. Len(Writes) \in Nat /\ wrote + 1 \in 1..Len(Writes)
  BY <1>1, <1>3, LogAssumption
<1>6. text \in Seq(Symbol) /\ Len(text) \in Nat /\ \A j \in 1..Len(text) : text[j] # "ins"
  <2>1. wrote + 1 \in DOMAIN Writes /\ text \in Seq(Symbol)
    BY <1>5, LogAssumption
  <2>. QED
    BY <2>1, LogAssumption
<1>. HIDE DEF text
<1>7. Len(file) <= mark + Len(text)
  BY <1>1, <1>3, <1>4, <1>6, MarkIs
<1>8. /\ file' \in Seq(Symbol) /\ Len(file') = mark + Len(text)
      /\ \A i \in 1..mark : file'[i] = file[i]
      /\ \A i \in (mark + 1)..(mark + Len(text)) : file'[i] = text[i - mark]
  BY <1>1, <1>3, <1>6, <1>7, OverIs
<1>9. mark' \in mark..Len(file') /\ mark' = Len(file') /\ Len(file) <= Len(file')
  BY <1>1, <1>4, <1>6, <1>7, <1>8
<1>10. LogEnds'
  BY <1>1, <1>5, <1>8, <1>9 DEF LogEnds
<1>11. last' \in Ends' /\ LinesSent' /\ LinesDue'
  BY <1>1, <1>8, <1>9, WindowsKeeps
<1>12. \A j \in (hist.from + 1)..mark' : file'[j] # "ins"
  <2>. SUFFICES ASSUME NEW j \in (hist.from + 1)..mark' PROVE file'[j] # "ins"
    OBVIOUS
  <2>1. CASE j <= mark
    <3>1. file[j] # "ins"
      BY <1>1, <1>2, <1>4, <2>1 DEF ReaderAt
    <3>. QED
      BY <1>4, <1>8, <2>1, <3>1
  <2>2. CASE ~ (j <= mark)
    <3>1. j \in (mark + 1)..(mark + Len(text)) /\ j - mark \in 1..Len(text)
      BY <1>1, <1>4, <1>6, <2>2
    <3>. QED
      BY <1>6, <1>8, <3>1
  <2>. QED
    BY <2>1, <2>2
<1>13. ReaderAt'
  <2>1. /\ size \in Nat /\ pos = last /\ hist \in History /\ hist.from <= Len(file) /\ last \in Nat
        /\ (mark < hist.from => hist.from = Len(file))
        /\ (reader = "read" => size > 0 /\ last + size <= Len(file))
    BY <1>1, <1>2, EndsAre DEF ReaderAt
  <2>2. hist.from <= Len(file') /\ ~ (mark' < hist.from)
        /\ ~ (mark' < Len(file')) /\ (reader = "read" => last + size <= Len(file'))
    BY <1>1, <1>4, <1>6, <1>7, <1>8, <1>9, <2>1
  <2>. QED
    BY <1>1, <1>11, <1>12, <2>1, <2>2 DEF ReaderAt
<1>. QED
  BY <1>10, <1>11, <1>13 DEF SyslogInv

LEMMA WindowsMarksKeeps == SyslogInv /\ WindowsMarks => SyslogInv'
<1>. SUFFICES ASSUME SyslogInv, WindowsMarks PROVE SyslogInv'
  OBVIOUS
<1>1. /\ mark = Len(file) /\ mark > 0 /\ file[mark] = "LF" /\ file' = file \o Mark
      /\ UNCHANGED <<mark, wrote, reader, size, pos, last, sent, phase, hist>>
  BY DEF WindowsMarks
<1>2. LogEnds /\ ReaderAt /\ LinesSent /\ LinesDue
  BY DEF SyslogInv
<1>3. file \in Seq(Symbol) /\ wrote \in 0..Len(Writes)
  BY <1>2 DEF LogEnds
<1>4. Len(file) \in Nat /\ mark \in Nat /\ hist.from \in Nat /\ last \in Nat /\ size \in Nat
  BY EndsAre
<1>5. /\ file' \in Seq(Symbol) /\ Len(file') = Len(file) + 3
      /\ \A i \in 1..(Len(file) + 3) : file'[i] = IF i <= Len(file) THEN file[i] ELSE Mark[i - Len(file)]
  <2>1. /\ file \o Mark \in Seq(Symbol) /\ Len(file \o Mark) = Len(file) + Len(Mark)
        /\ \A i \in 1..(Len(file) + Len(Mark)) :
             (file \o Mark)[i] = IF i <= Len(file) THEN file[i] ELSE Mark[i - Len(file)]
    BY <1>3, MarkIs, ConcatProperties
  <2>. QED
    BY <1>1, <2>1, MarkIs
<1>6. /\ \A i \in 1..mark : file'[i] = file[i]
      /\ mark' \in mark..Len(file') /\ Len(file) <= Len(file') /\ Len(file') = mark + 3
  BY <1>1, <1>4, <1>5
<1>7. file'[mark + 1] = "ins" /\ file'[mark + 2] = "CR" /\ file'[mark + 3] = "LF"
  BY <1>1, <1>4, <1>5, MarkIs
<1>8. LogEnds'
  BY <1>1, <1>3, <1>4, <1>5, <1>6, <1>7 DEF LogEnds
<1>9. last' \in Ends' /\ LinesSent' /\ LinesDue'
  BY <1>1, <1>5, <1>6, WindowsKeeps
<1>10. ReaderAt'
  <2>1. /\ size \in Nat /\ pos = last /\ hist \in History /\ hist.from <= Len(file)
        /\ (reader = "open" => phase = "installing" /\ hist.from = 0 /\ sent = <<>>)
        /\ (reader # "open" => \A j \in (hist.from + 1)..mark : file[j] # "ins")
        /\ (reader = "read" => size > 0 /\ last + size <= Len(file))
    BY <1>2 DEF ReaderAt
  <2>2. /\ hist.from <= Len(file') /\ ~ (mark < hist.from) /\ file'[mark] = "LF"
        /\ (reader = "read" => last + size <= Len(file'))
        /\ (reader # "open" => \A j \in (hist.from + 1)..mark : file'[j] # "ins")
    BY <1>1, <1>4, <1>6, <2>1
  <2>. QED
    BY <1>1, <1>9, <2>1, <2>2 DEF ReaderAt
<1>. QED
  BY <1>8, <1>9, <1>10 DEF SyslogInv

LEMMA ReaderOpensKeeps == SyslogInv /\ ReaderOpens => SyslogInv'
<1>. SUFFICES ASSUME SyslogInv, ReaderOpens PROVE SyslogInv'
  OBVIOUS
<1>1. /\ reader = "open" /\ last' = Len(file) /\ pos' = Len(file) /\ reader' = "look"
      /\ hist' = [hist EXCEPT !.from = Len(file)]
      /\ UNCHANGED <<file, mark, wrote, size, sent, phase>>
  BY DEF ReaderOpens
<1>2. LogEnds /\ ReaderAt /\ LinesSent /\ LinesDue
  BY DEF SyslogInv
<1>3. /\ file \in Seq(Symbol) /\ Len(file) \in Nat /\ mark \in 0..Len(file) /\ size \in Nat
      /\ hist \in History /\ phase = "installing" /\ sent = <<>>
  BY <1>1, <1>2, EndsAre DEF LogEnds, ReaderAt
<1>4. /\ hist' \in History /\ hist'.from = Len(file) /\ hist'.cycle = hist.cycle
      /\ hist'.garbled = hist.garbled /\ hist'.torn = hist.torn
  BY <1>1, <1>3 DEF History
<1>5. LogEnds'
  BY <1>1, <1>2 DEF LogEnds
<1>6. ReaderAt'
  <2>1. last' \in Ends'
    BY <1>1, <1>4 DEF Ends
  <2>2. ~ (hist'.from <= mark /\ mark < Len(file)) /\ \A j \in (hist'.from + 1)..mark : FALSE
    BY <1>3, <1>4
  <2>. QED
    BY <1>1, <1>3, <1>4, <2>1, <2>2 DEF ReaderAt
<1>7. LinesSent'
  <2>1. Cut(file, Len(file), Len(file)) = <<>>
    BY <1>3, CutEmpty
  <2>. QED
    BY <1>1, <1>2, <1>3, <1>4, <2>1 DEF LinesSent
<1>8. LinesDue'
  BY <1>1, <1>2, <1>3, <1>4 DEF LinesDue
<1>. QED
  BY <1>5, <1>6, <1>7, <1>8 DEF SyslogInv

LEMMA ReaderLooksKeeps == SyslogInv /\ ReaderLooks => SyslogInv'
<1>. SUFFICES ASSUME SyslogInv, ReaderLooks PROVE SyslogInv'
  OBVIOUS
<1>1. reader = "look" /\ UNCHANGED <<file, mark, wrote, pos, last, sent, phase>>
  BY DEF ReaderLooks
<1>2. LogEnds /\ ReaderAt /\ LinesSent /\ LinesDue
  BY DEF SyslogInv
<1>3. /\ Len(file) \in Nat /\ last \in Nat /\ size \in Nat
      /\ \A k \in Ends : k \in Nat /\ k <= Len(file)
  BY EndsAre
<1>4. hist \in History /\ last \in Ends
  BY <1>2 DEF ReaderAt
<1>5. LogEnds'
  BY <1>1, <1>2 DEF LogEnds
<1>6. CASE phase = "terminated"
  <2>1. reader' = "ended" /\ UNCHANGED <<size, hist>>
    BY <1>6 DEF ReaderLooks
  <2>2. Ends' = Ends
    BY <1>1, <2>1 DEF Ends
  <2>3. ReaderAt'
    BY <1>1, <1>2, <2>1, <2>2 DEF ReaderAt
  <2>4. LinesSent'
    BY <1>1, <1>2, <2>1 DEF LinesSent
  <2>5. LinesDue'
    BY <1>1, <1>2, <1>6, <2>1, <2>2 DEF LinesDue
  <2>. QED
    BY <1>5, <2>3, <2>4, <2>5 DEF SyslogInv
<1>7. CASE phase # "terminated"
  <2>1. /\ size' = Len(file) - last
        /\ reader' = IF size' = 0 THEN "look" ELSE "read"
        /\ hist' = IF phase # "done" THEN hist
                   ELSE [hist EXCEPT !.cycle = IF size' = 0 THEN "whole" ELSE "begun"]
    BY <1>7 DEF ReaderLooks
  <2>2. /\ hist' \in History /\ hist'.from = hist.from /\ hist'.due = hist.due
        /\ hist'.torn = hist.torn /\ hist'.garbled = hist.garbled
        /\ phase # "done" => hist'.cycle = hist.cycle
        /\ phase = "done" => hist'.cycle = IF size' = 0 THEN "whole" ELSE "begun"
    BY <1>4, <2>1 DEF History
  <2>3. Ends' = Ends
    BY <1>1, <2>2 DEF Ends
  <2>4. size' \in Nat /\ last + size' = Len(file) /\ (reader' = "read" => size' > 0)
    BY <1>3, <1>4, <2>1
  <2>5. reader' # "open" /\ reader' # "ended" /\ (reader' = "read" \/ size' = 0)
    BY <2>1
  <2>6. ReaderAt'
    <3>1. /\ pos = last /\ hist.from <= Len(file)
          /\ mark < hist.from => hist.from = Len(file)
          /\ hist.from <= mark /\ mark < Len(file) => mark > 0 /\ file[mark] = "LF"
          /\ \A j \in (hist.from + 1)..mark : file[j] # "ins"
      BY <1>1, <1>2 DEF ReaderAt
    <3>2. reader' = "read" => size' > 0 /\ last + size' <= Len(file)
      BY <1>3, <2>4
    <3>3. last' \in Ends' /\ size' \in Nat /\ reader' # "open"
      BY <1>1, <1>4, <2>3, <2>4, <2>5
    <3>. QED
      BY <1>1, <2>2, <3>1, <3>2, <3>3 DEF ReaderAt
  <2>7. LinesSent'
    BY <1>1, <1>2, <2>2 DEF LinesSent
  <2>8. LinesDue'
    <3>1. CASE phase = "done"
      <4>1. PICK k \in Ends : hist.due = Cut(file, hist.from, k)
        BY <1>2, <3>1 DEF LinesDue
      <4>2. k <= last + size' /\ (size' = 0 => k <= last)
        BY <1>3, <2>4, <4>1
      <4>. QED
        BY <1>1, <2>2, <2>3, <2>5, <3>1, <4>1, <4>2 DEF LinesDue
    <3>2. CASE phase # "done"
      <4>1. hist'.cycle = hist.cycle
        BY <2>2, <3>2
      <4>2. CASE phase = "installing"
        BY <1>1, <1>2, <2>2, <2>5, <4>1, <4>2 DEF LinesDue
      <4>3. CASE phase # "installing"
        \* There is no other phase.
        BY <1>2, <1>7, <3>2, <4>3 DEF LinesDue
      <4>. QED
        BY <4>2, <4>3
    <3>. QED
      BY <3>1, <3>2
  <2>. QED
    BY <1>5, <2>6, <2>7, <2>8 DEF SyslogInv
<1>. QED
  BY <1>6, <1>7

\* What a read makes of the log: it sends the lines up to the beginning of one, which is not
\* behind a mark.
LEMMA ReadsOn ==
  ASSUME SyslogInv, reader = "read"
  PROVE  LET p == ProcessSyslog(SubSeq(file, last + 1, last + size)) IN
         /\ p.start \in 0..size /\ p.lines \in Seq(Seq(Symbol)) /\ p.garbled \in BOOLEAN
         /\ last + p.start \in Ends
         /\ Cut(file, hist.from, last + p.start) = Cut(file, hist.from, last) \o p.lines
         /\ p.garbled => file[last + 1] \in EOL
         /\ \A k \in Ends : k <= last + size => k <= last + p.start
<1>. DEFINE b == SubSeq(file, last + 1, last + size)
            p == ProcessSyslog(b)
<1>1. LogEnds /\ ReaderAt
  BY DEF SyslogInv
<1>2. /\ Len(file) \in Nat /\ mark \in Nat /\ hist.from \in Nat /\ last \in Nat /\ size \in Nat
      /\ hist.from <= last /\ last \in Ends
      /\ \A k \in Ends : /\ k \in hist.from..Len(file)
                         /\ k = hist.from \/ (k <= mark /\ file[k] \in EOL)
  BY <1>1, EndsAre DEF ReaderAt
<1>3. /\ size > 0 /\ last + size <= Len(file)
      /\ mark < hist.from => hist.from = Len(file)
      /\ hist.from <= mark /\ mark < Len(file) => mark > 0 /\ file[mark] = "LF"
      /\ \A j \in (hist.from + 1)..mark : file[j] # "ins"
  BY <1>1 DEF ReaderAt
<1>4. /\ file \in Seq(Symbol)
      /\ mark = Len(file) \/ /\ Len(file) = mark + 3 /\ file[mark + 1] = "ins"
                             /\ file[mark + 2] = "CR" /\ file[mark + 3] = "LF"
  BY <1>1 DEF LogEnds
<1>5. last \in hist.from..Len(file) /\ last + size \in last..Len(file)
  BY <1>2, <1>3
<1>6. b \in Seq(Symbol) /\ Len(b) = size /\ \A i \in 1..size : b[i] = file[last + i]
  <2>1. Len(b) = (last + size) - last /\ b \in Seq(Symbol)
        /\ \A i \in 1..((last + size) - last) : b[i] = file[last + i]
    BY <1>2, <1>4, <1>5, Parts
  <2>2. (last + size) - last = size
    BY <1>2
  <2>. QED
    BY <2>1, <2>2
<1>. HIDE DEF b
<1>7. /\ p \in Processed /\ p.start \in 0..size /\ (p.start # 0 => b[p.start] \in EOL)
      /\ p.lines = Scan(SubSeq(b, 1, p.start)).lines
      /\ (\A j \in 1..(p.start - 1) : ~ MarkAt(b, j))
      /\ (p.garbled => b[1] \in EOL)
  BY <1>6, ProcessSyslogIs DEF Half
<1>8. p.lines \in Seq(Seq(Symbol)) /\ p.garbled \in BOOLEAN
  BY <1>7 DEF Processed
<1>9. \A k \in Ends : k <= last + size => k <= last + p.start
  <2>. SUFFICES ASSUME NEW k \in Ends, k <= last + size, ~ (k <= last + p.start) PROVE FALSE
    OBVIOUS
  <2>. HIDE DEF p
  <2>1. k \in Nat /\ k > last /\ k <= mark /\ file[k] \in EOL
    BY <1>2, <1>7
  <2>. DEFINE i == k - last
  <2>2. i \in 1..Len(b) /\ last + i = k
    BY <1>2, <1>6, <2>1
  <2>3. b[i] \in EOL
    BY <1>6, <2>1, <2>2
  <2>4. ASSUME NEW j \in 1..i PROVE b[j] # "ins"
    <3>1. last + j \in (hist.from + 1)..mark /\ j \in 1..size
      BY <1>2, <1>6, <2>1, <2>2
    <3>. QED
      BY <1>3, <1>6, <3>1
  <2>. HIDE DEF i
  <2>5. i <= p.start
    BY <1>6, <2>2, <2>3, <2>4, ProcessReaches DEF p
  <2>. QED
    BY <1>2, <1>7, <2>2, <2>5
<1>10. last + p.start \in Ends
  <2>. HIDE DEF p
  <2>1. CASE p.start = 0
    BY <1>2, <2>1
  <2>2. CASE p.start # 0
    <3>1. file[last + p.start] \in EOL /\ last + p.start \in (hist.from + 1)..Len(file)
      <4>1. p.start \in 1..size
        BY <1>2, <1>7, <2>2
      <4>2. file[last + p.start] \in EOL
        BY <1>6, <1>7, <4>1
      <4>3. last + p.start \in (hist.from + 1)..Len(file)
        BY <1>2, <1>3, <4>1
      <4>. QED
        BY <4>2, <4>3
    <3>2. last + p.start <= mark
      <4>. SUFFICES ASSUME ~ (last + p.start <= mark) PROVE FALSE
        OBVIOUS
      <4>1. /\ hist.from <= mark /\ mark < Len(file) /\ last <= mark
        BY <1>2, <1>3, <1>7, <3>1
      <4>2. /\ mark > 0 /\ file[mark] = "LF" /\ Len(file) = mark + 3
            /\ file[mark + 1] = "ins" /\ file[mark + 2] = "CR"
        BY <1>2, <1>3, <1>4, <4>1
      <4>. DEFINE j == mark + 1 - last
      <4>3. j \in Nat \ {0} /\ last + j = mark + 1 /\ p.start >= j
        BY <1>2, <1>7, <4>1
      <4>4. p.start # j
        <5>1. "ins" \notin EOL
          BY DEF EOL
        <5>. QED
          BY <3>1, <4>2, <4>3, <5>1
      <4>5. j \in 1..(p.start - 1) /\ j \in 1..size /\ j + 1 \in 1..size
        BY <1>2, <1>7, <4>3, <4>4
      <4>6. b[j] = "ins" /\ b[j + 1] = "CR"
        <5>1. last + (j + 1) = mark + 2
          BY <1>2, <4>3
        <5>. QED
          BY <1>6, <4>2, <4>3, <4>5, <5>1
      <4>7. j = 1 \/ b[j - 1] = "LF"
        <5>1. j # 1 => j - 1 \in 1..size /\ last + (j - 1) = mark
          BY <1>2, <4>3, <4>5
        <5>. QED
          BY <1>6, <4>2, <5>1
      <4>8. MarkAt(b, j)
        BY <4>6, <4>7 DEF MarkAt, EOL
      <4>. QED
        BY <1>7, <4>5, <4>8
    <3>. QED
      BY <1>2, <1>7, <3>1, <3>2 DEF Ends
  <2>. QED
    BY <2>1, <2>2
<1>11. Cut(file, hist.from, last + p.start) = Cut(file, hist.from, last) \o p.lines
  <2>. HIDE DEF p
  <2>1. last + p.start \in last..Len(file)
    BY <1>2, <1>3, <1>7
  <2>2. last = hist.from \/ file[last] \in EOL
    BY <1>2
  <2>3. Cut(file, hist.from, last + p.start)
          = Cut(file, hist.from, last) \o Scan(SubSeq(file, last + 1, last + p.start)).lines
    BY <1>2, <1>4, <1>5, <2>1, <2>2, CutGoesOn
  <2>4. SubSeq(file, last + 1, last + p.start) = SubSeq(b, 1, p.start)
    <3>1. /\ file \in Seq(Symbol) /\ last \in Nat /\ size \in Nat /\ p.start \in 0..size
          /\ last + size \in last..Len(file)
      BY <1>2, <1>4, <1>5, <1>7
    <3>. QED
      BY <3>1, PartOfPart DEF b
  <2>. QED
    BY <1>7, <2>3, <2>4
<1>12. p.garbled => file[last + 1] \in EOL
  <2>1. b[1] = file[last + 1]
    BY <1>2, <1>3, <1>6
  <2>. QED
    BY <1>7, <2>1
<1>. QED
  BY <1>7, <1>8, <1>9, <1>10, <1>11, <1>12 DEF b

LEMMA ReaderReadsKeeps == SyslogInv /\ ReaderReads => SyslogInv'
<1>. SUFFICES ASSUME SyslogInv, ReaderReads PROVE SyslogInv'
  OBVIOUS
<1>. DEFINE b == SubSeq(file, last + 1, last + size)
            p == ProcessSyslog(b)
<1>1. LogEnds /\ ReaderAt /\ LinesSent /\ LinesDue
  BY DEF SyslogInv
<1>2. /\ Len(file) \in Nat /\ mark \in Nat /\ hist.from \in Nat /\ last \in Nat /\ size \in Nat
      /\ \A k \in Ends : k \in hist.from..Len(file)
  BY EndsAre
<1>3. /\ reader = "read" /\ pos = last /\ hist \in History /\ size > 0 /\ last + size <= Len(file)
  BY <1>1 DEF ReaderReads, ReaderAt
<1>4. /\ p.start \in 0..size /\ p.lines \in Seq(Seq(Symbol)) /\ p.garbled \in BOOLEAN
      /\ last + p.start \in Ends
      /\ Cut(file, hist.from, last + p.start) = Cut(file, hist.from, last) \o p.lines
      /\ p.garbled => file[last + 1] \in EOL
      /\ \A k \in Ends : k <= last + size => k <= last + p.start
  BY <1>3, ReadsOn
<1>5. b[1] = file[last + 1]
  <2>1. file \in Seq(Symbol)
    BY <1>1 DEF LogEnds
  <2>. QED
    BY <1>2, <1>3, <2>1
<1>. HIDE DEF p
<1>6. /\ sent' = sent \o p.lines /\ pos' = last + p.start
      /\ last' = (IF p.start = size THEN last + p.start ELSE pos')
      /\ hist' = [hist EXCEPT !.cycle = IF @ = "begun" THEN "whole" ELSE @,
                              !.torn = @ \/ b[1] \in EOL,
                              !.garbled = @ \/ p.garbled]
      /\ reader' = "look" /\ UNCHANGED <<file, mark, wrote, size, phase>>
  <2>1. p = ProcessSyslog(SubSeq(file, pos + 1, pos + size)) /\ b = SubSeq(file, pos + 1, pos + size)
    BY <1>3 DEF p
  <2>. HIDE DEF b
  <2>. QED
    BY <1>3, <2>1 DEF ReaderReads
<1>. HIDE DEF b
<1>7. last' = last + p.start /\ pos' = last'
  BY <1>6
<1>8. /\ hist' \in History /\ hist'.from = hist.from /\ hist'.due = hist.due
      /\ hist'.cycle = (IF hist.cycle = "begun" THEN "whole" ELSE hist.cycle)
      /\ hist'.garbled = (hist.garbled \/ p.garbled)
      /\ hist'.torn = (hist.torn \/ b[1] \in EOL)
  BY <1>3, <1>4, <1>6 DEF History
<1>9. Ends' = Ends
  BY <1>6, <1>8 DEF Ends
<1>10. LogEnds'
  BY <1>1, <1>6 DEF LogEnds
<1>11. ReaderAt'
  <2>1. /\ mark < hist.from => hist.from = Len(file)
        /\ hist.from <= mark /\ mark < Len(file) => mark > 0 /\ file[mark] = "LF"
        /\ \A j \in (hist.from + 1)..mark : file[j] # "ins"
        /\ hist.from <= Len(file)
    BY <1>1, <1>3 DEF ReaderAt
  <2>2. last' \in Ends'
    BY <1>4, <1>7, <1>9
  <2>. QED
    BY <1>2, <1>6, <1>7, <1>8, <2>1, <2>2 DEF ReaderAt
<1>12. LinesSent'
  <2>1. sent' = Cut(file, hist.from, last')
    BY <1>1, <1>4, <1>6, <1>7 DEF LinesSent
  <2>2. hist'.garbled => hist'.torn
    BY <1>1, <1>4, <1>5, <1>8 DEF LinesSent
  <2>. QED
    BY <1>6, <1>8, <2>1, <2>2 DEF LinesSent
<1>13. LinesDue'
  <2>1. ASSUME phase # "installing"
        PROVE  \E k \in Ends : /\ hist.due = Cut(file, hist.from, k)
                               /\ hist'.cycle # "begun"
                               /\ hist'.cycle = "whole" => k <= last'
    <3>1. PICK k \in Ends :
            /\ hist.due = Cut(file, hist.from, k)
            /\ hist.cycle = "begun" => k <= last + size
            /\ hist.cycle = "whole" => k <= last
      BY <1>1, <1>3, <2>1 DEF LinesDue
    <3>2. hist.cycle = "begun" => k <= last'
      BY <1>4, <1>7, <3>1
    <3>3. hist.cycle = "whole" => k <= last'
      <4>1. k \in Nat
        BY <1>2, <3>1
      <4>2. last <= last'
        BY <1>2, <1>4, <1>7
      <4>. QED
        BY <1>2, <1>4, <1>7, <3>1, <4>1, <4>2
    <3>. QED
      BY <1>8, <3>1, <3>2, <3>3
  <2>2. phase = "installing" => hist'.cycle = "none"
    BY <1>1, <1>8 DEF LinesDue
  <2>3. phase = "terminated" => hist'.cycle = "whole"
    BY <1>1, <1>3, <1>8 DEF LinesDue
  <2>4. phase \in {"installing", "done", "terminated"}
    BY <1>1 DEF LinesDue
  <2>. QED
    BY <1>6, <1>8, <1>9, <2>1, <2>2, <2>3, <2>4 DEF LinesDue
<1>. QED
  BY <1>10, <1>11, <1>12, <1>13 DEF SyslogInv

LEMMA ReaderFailsKeeps == SyslogInv /\ ReaderFails => SyslogInv'
<1>. SUFFICES ASSUME SyslogInv, ReaderFails PROVE SyslogInv'
  OBVIOUS
<1>1. /\ reader = "read" /\ reader' = "failed"
      /\ UNCHANGED <<file, mark, wrote, size, pos, last, sent, phase, hist>>
  BY DEF ReaderFails
<1>2. LogEnds /\ ReaderAt /\ LinesSent /\ LinesDue /\ Ends' = Ends
  BY <1>1 DEF SyslogInv, Ends
<1>3. LogEnds' /\ LinesSent'
  BY <1>1, <1>2 DEF LogEnds, LinesSent
<1>4. ReaderAt'
  BY <1>1, <1>2 DEF ReaderAt
<1>5. LinesDue'
  BY <1>1, <1>2 DEF LinesDue
<1>. QED
  BY <1>3, <1>4, <1>5 DEF SyslogInv

\* The lines that are complete are those before the last end of a line that is not the mark's.
LEMMA DueIs ==
  ASSUME SyslogInv, reader # "open"
  PROVE  \E k \in Ends : Cut(file, hist.from, Len(file)) = Cut(file, hist.from, k)
<1>1. LogEnds /\ ReaderAt
  BY DEF SyslogInv
<1>2. Len(file) \in Nat /\ mark \in Nat /\ hist.from \in Nat
  BY EndsAre
<1>3. /\ file \in Seq(Symbol) /\ mark \in 0..Len(file) /\ hist.from <= Len(file)
      /\ mark < hist.from => hist.from = Len(file)
      /\ hist.from <= mark /\ mark < Len(file) => mark > 0 /\ file[mark] = "LF"
      /\ mark = Len(file) \/ /\ Len(file) = mark + 3 /\ file[mark + 1] = "ins"
                             /\ file[mark + 2] = "CR" /\ file[mark + 3] = "LF"
  BY <1>1 DEF LogEnds, ReaderAt
<1>4. CASE mark < hist.from
  BY <1>3, <1>4 DEF Ends
<1>5. CASE hist.from <= mark /\ mark = Len(file)
  <2>1. PICK k \in hist.from..mark : (k = hist.from \/ file[k] \in EOL)
                                     /\ \A j \in (k + 1)..mark : file[j] \notin EOL
    <3>1. mark \in hist.from..Len(file)
      BY <1>2, <1>5
    <3>. QED
      BY <1>2, <1>3, <3>1, LastEnd
  <2>2. k \in hist.from..Len(file) /\ Len(file) \in k..Len(file)
    BY <1>2, <1>5
  <2>3. Cut(file, hist.from, Len(file)) = Cut(file, hist.from, k)
    BY <1>2, <1>3, <1>5, <2>1, <2>2, CutGoesOn
  <2>4. k \in Ends
    BY <1>2, <2>1 DEF Ends
  <2>. QED
    BY <2>3, <2>4
<1>6. CASE hist.from <= mark /\ mark # Len(file)
  <2>1. /\ file[mark] = "LF" /\ Len(file) = mark + 3
        /\ file[mark + 1] = "ins" /\ file[mark + 2] = "CR" /\ file[mark + 3] = "LF"
    BY <1>2, <1>3, <1>6
  <2>2. mark \in hist.from..Len(file) /\ Len(file) \in mark..Len(file) /\ Len(file) - mark = 3
    BY <1>2, <1>6, <2>1
  <2>. DEFINE t == SubSeq(file, mark + 1, Len(file))
  <2>3. t \in Seq(Symbol) /\ Len(t) = 3 /\ t[1] = "ins" /\ t[2] = "CR" /\ t[3] = "LF"
    <3>1. t \in Seq(Symbol) /\ Len(t) = Len(file) - mark
          /\ \A i \in 1..(Len(file) - mark) : t[i] = file[mark + i]
      BY <1>2, <1>3, <2>2, Parts
    <3>. HIDE DEF t
    <3>. QED
      BY <2>1, <2>2, <3>1
  <2>4. Scan(t).lines = <<>>
    <3>. HIDE DEF t
    <3>. QED
      BY <2>3, MarkIsNoLine
  <2>5. "LF" \in EOL
    BY DEF EOL
  <2>6. Cut(file, hist.from, Len(file)) = Cut(file, hist.from, mark) \o Scan(t).lines
    BY <1>2, <1>3, <2>1, <2>2, <2>5, CutGoesOn
  <2>7. Cut(file, hist.from, mark) \in Seq(Seq(Symbol))
    BY <1>2, <1>3, <2>2, CutTyped
  <2>8. Cut(file, hist.from, Len(file)) = Cut(file, hist.from, mark)
    BY <2>4, <2>6, <2>7, ConcatEmptySeq
  <2>9. mark \in Ends
    BY <1>2, <1>6, <2>1, <2>5 DEF Ends
  <2>. QED
    BY <2>8, <2>9
<1>. QED
  BY <1>2, <1>4, <1>5, <1>6

LEMMA InstallDoneKeeps == SyslogInv /\ InstallDone => SyslogInv'
<1>. SUFFICES ASSUME SyslogInv, InstallDone PROVE SyslogInv'
  OBVIOUS
<1>1. /\ phase = "installing" /\ reader # "open" /\ phase' = "done"
      /\ hist' = [hist EXCEPT !.due = Cut(file, hist.from, Len(file))]
      /\ UNCHANGED <<file, mark, wrote, reader, size, pos, last, sent>>
  BY NewIsCut DEF InstallDone
<1>2. LogEnds /\ ReaderAt /\ LinesSent /\ LinesDue
  BY DEF SyslogInv
<1>3. hist \in History /\ hist.from \in Nat /\ Len(file) \in hist.from..Len(file) /\ file \in Seq(Symbol)
  BY <1>2, EndsAre DEF ReaderAt, LogEnds
<1>4. Cut(file, hist.from, Len(file)) \in Seq(Seq(Symbol))
  BY <1>3, CutTyped
<1>5. /\ hist' \in History /\ hist'.from = hist.from /\ hist'.due = Cut(file, hist.from, Len(file))
      /\ hist'.cycle = hist.cycle /\ hist'.torn = hist.torn /\ hist'.garbled = hist.garbled
  BY <1>1, <1>3, <1>4 DEF History
<1>6. Ends' = Ends
  BY <1>1, <1>5 DEF Ends
<1>7. LogEnds' /\ LinesSent'
  BY <1>1, <1>2, <1>5 DEF LogEnds, LinesSent
<1>8. ReaderAt'
  BY <1>1, <1>2, <1>5, <1>6 DEF ReaderAt
<1>9. LinesDue'
  <2>1. PICK k \in Ends : Cut(file, hist.from, Len(file)) = Cut(file, hist.from, k)
    BY <1>1, DueIs
  <2>2. hist.cycle = "none" /\ reader # "ended"
    BY <1>1, <1>2 DEF LinesDue
  <2>. QED
    BY <1>1, <1>5, <1>6, <2>1, <2>2 DEF LinesDue
<1>. QED
  BY <1>7, <1>8, <1>9 DEF SyslogInv

LEMMA TerminateKeeps == SyslogInv /\ Terminate => SyslogInv'
<1>. SUFFICES ASSUME SyslogInv, Terminate PROVE SyslogInv'
  OBVIOUS
<1>1. /\ phase = "done" /\ (hist.cycle = "whole" \/ reader = "failed") /\ phase' = "terminated"
      /\ UNCHANGED <<file, mark, wrote, reader, size, pos, last, sent, hist>>
  BY DEF Terminate
<1>2. LogEnds /\ ReaderAt /\ LinesSent /\ LinesDue /\ Ends' = Ends
  BY <1>1 DEF SyslogInv, Ends
<1>3. LogEnds' /\ LinesSent'
  BY <1>1, <1>2 DEF LogEnds, LinesSent
<1>4. ReaderAt'
  BY <1>1, <1>2 DEF ReaderAt
<1>5. LinesDue'
  BY <1>1, <1>2 DEF LinesDue
<1>. QED
  BY <1>3, <1>4, <1>5 DEF SyslogInv

LEMMA SyslogStep == SyslogInv /\ [SyslogNext]_slvars => SyslogInv'
<1>. SUFFICES ASSUME SyslogInv, [SyslogNext]_slvars PROVE SyslogInv'
  OBVIOUS
<1>1. CASE SyslogNext
  BY <1>1, WindowsWritesKeeps, WindowsMarksKeeps, ReaderOpensKeeps, ReaderLooksKeeps,
     ReaderReadsKeeps, ReaderFailsKeeps, InstallDoneKeeps, TerminateKeeps DEF SyslogNext
<1>2. CASE UNCHANGED slvars
  <2>1. UNCHANGED <<file, mark, wrote, reader, size, pos, last, sent, phase, hist>> /\ Ends' = Ends
    BY <1>2 DEF slvars, Ends
  <2>2. LogEnds' /\ LinesSent'
    BY <2>1 DEF SyslogInv, LogEnds, LinesSent
  <2>3. ReaderAt'
    BY <2>1 DEF SyslogInv, ReaderAt
  <2>4. LinesDue'
    BY <2>1 DEF SyslogInv, LinesDue
  <2>. QED
    BY <2>2, <2>3, <2>4 DEF SyslogInv
<1>. QED
  BY <1>1, <1>2

--------------------------------------------------------------------------------
\* The lines of the log reach the application, each once and in order, whatever Windows
\* overwrites (syslog_reader_thread and process_syslog): those that were sent are those up to
\* where the thread is, at the end of an install none is missing of those that were there when it
\* was done, and nothing is garbled unless the end of a line was read in two parts.
THEOREM LogIsFollowed == SyslogInit /\ [][SyslogNext]_slvars => []SyslogLogged
<1>1. SyslogInv => SyslogLogged
  <2>. SUFFICES ASSUME SyslogInv PROVE SyslogLogged
    OBVIOUS
  <2>1. LogEnds /\ ReaderAt /\ LinesSent /\ LinesDue
    BY DEF SyslogInv
  <2>2. sent = New(file, last) /\ (hist.garbled => hist.torn)
    BY <2>1, NewIsCut DEF LinesSent
  <2>3. ASSUME reader = "ended" PROVE IsPrefix(hist.due, sent)
    <3>1. PICK k \in Ends : hist.due = Cut(file, hist.from, k) /\ k <= last
      BY <2>1, <2>3 DEF LinesDue
    <3>2. /\ hist.from \in Nat /\ k \in hist.from..Len(file) /\ last \in Nat /\ last <= Len(file)
          /\ k \in Nat /\ last \in k..Len(file)
      BY <2>1, <3>1, EndsAre DEF ReaderAt
    <3>3. file \in Seq(Symbol)
      BY <2>1 DEF LogEnds
    <3>4. IsPrefix(Cut(file, hist.from, k), Cut(file, hist.from, last))
      BY <3>2, <3>3, CutGoesOn
    <3>. QED
      BY <2>1, <3>1, <3>4 DEF LinesSent
  <2>. QED
    BY <2>2, <2>3 DEF SyslogLogged
<1>. QED
  BY SyslogInitInv, SyslogStep, <1>1, PTL

=============================================================================
