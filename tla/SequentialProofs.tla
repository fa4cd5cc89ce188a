--------------------------- MODULE SequentialProofs ---------------------------
(* What holds of the sequential algorithms for inputs of any size: what is made   *)
(* of a job is what is meant, for every kind of job but the settings, the ini     *)
(* files and the presets.                                                         *)
(*                                                                                *)
(* What is computed by recursion or by a fold along a sequence is followed step   *)
(* by step, by the induction on numbers of SyslogProofs.                          *)
EXTENDS Sequential, FiniteSetTheorems, SyslogProofs

--------------------------------------------------------------------------------
(* Folds.  FoldLeft is defined by recursion on the sets of positions that are left. *)

\* The member that none exceeds is the greatest.
LEMMA MaxIs ==
  ASSUME NEW s \in SUBSET Nat, NEW m \in s, \A x \in s : x <= m
  PROVE  Max(s) = m
<1>1. \A y \in s : (\A x \in s : x <= y) => y = m
  OBVIOUS
<1>2. Max(s) \in s /\ \A x \in s : x <= Max(s)
  BY DEF Max
<1>. QED
  BY <1>1, <1>2

IsFold(f, S, b, n, F) ==
  /\ f \in [SUBSET (1..n) -> S]
  /\ \A s \in SUBSET (1..n) : f[s] = IF s = {} THEN b ELSE F[<<Max(s), f[s \ {Max(s)}]>>]

\* What a fold needs for its recursion exists.
LEMMA FoldExists ==
  ASSUME NEW S, NEW b \in S, NEW n \in Nat, NEW F \in Steps(n, S)
  PROVE  \E f : IsFold(f, S, b, n, F)
<1>. USE DEF Steps
<1>. DEFINE Folds(m, f) == \A s \in SUBSET (1..m) :
                             f[s] = IF s = {} THEN b ELSE F[<<Max(s), f[s \ {Max(s)}]>>]
            Folded(m) == \E f \in [SUBSET (1..m) -> S] : Folds(m, f)
            T == {m \in 0..n : Folded(m)}
<1>1. Folded(0)
  <2>. DEFINE e == [s \in SUBSET (1..0) |-> b]
  <2>1. \A s \in SUBSET (1..0) : s = {}
    OBVIOUS
  <2>2. e \in [SUBSET (1..0) -> S] /\ \A s \in SUBSET (1..0) : e[s] = b
    OBVIOUS
  <2>3. Folds(0, e)
    BY <2>1, <2>2
  <2>. HIDE DEF Folds, e
  <2>. QED
    BY <2>2, <2>3
<1>2. ASSUME NEW m \in 1..n, Folded(m - 1) PROVE Folded(m)
  <2>1. PICK g \in [SUBSET (1..(m - 1)) -> S] : Folds(m - 1, g)
    BY <1>2
  <2>. DEFINE h == [s \in SUBSET (1..m) |-> IF m \in s THEN F[<<m, g[s \ {m}]>>] ELSE g[s]]
  <2>2. ASSUME NEW s \in SUBSET (1..m)
        PROVE  /\ s \ {m} \in SUBSET (1..(m - 1))
               /\ m \notin s => s \in SUBSET (1..(m - 1))
    OBVIOUS
  <2>3. ASSUME NEW s \in SUBSET (1..m) PROVE h[s] \in S
    <3>1. CASE m \in s
      <4>1. g[s \ {m}] \in S
        BY <2>2
      <4>2. h[s] = F[<<m, g[s \ {m}]>>]
        BY <3>1
      <4>. HIDE DEF h
      <4>. QED
        BY <4>1, <4>2
    <3>2. CASE m \notin s
      BY <2>2, <3>2
    <3>. QED
      BY <3>1, <3>2
  <2>4. h \in [SUBSET (1..m) -> S]
    BY <2>3
  <2>5. ASSUME NEW s \in SUBSET (1..m)
        PROVE  h[s] = IF s = {} THEN b ELSE F[<<Max(s), h[s \ {Max(s)}]>>]
    <3>1. CASE m \in s
      <4>1. s \in SUBSET Nat /\ \A x \in s : x <= m
        OBVIOUS
      <4>5. Max(s) = m
        BY <3>1, <4>1, MaxIs
      <4>2. s \ {m} \in SUBSET (1..m) /\ m \notin s \ {m}
        BY <2>2
      <4>3. h[s \ {m}] = g[s \ {m}]
        BY <4>2
      <4>4. h[s] = F[<<m, g[s \ {m}]>>] /\ s # {}
        BY <3>1
      <4>. HIDE DEF h
      <4>. QED
        BY <4>5, <4>3, <4>4
    <3>2. CASE m \notin s
      <4>1. s \in SUBSET (1..(m - 1)) /\ h[s] = g[s]
        BY <2>2, <3>2
      <4>2. s \ {Max(s)} \in SUBSET (1..m) /\ m \notin s \ {Max(s)}
        BY <3>2
      <4>3. h[s \ {Max(s)}] = g[s \ {Max(s)}]
        BY <4>2
      <4>. HIDE DEF h
      <4>4. g[s] = IF s = {} THEN b ELSE F[<<Max(s), g[s \ {Max(s)}]>>]
        BY <2>1, <4>1
      <4>. QED
        BY <4>1, <4>3, <4>4
    <3>. QED
      BY <3>1, <3>2
  <2>6. Folds(m, h)
    <3>. HIDE DEF h
    <3>. QED
      BY <2>5
  <2>. HIDE DEF Folds, h
  <2>. QED
    BY <2>4, <2>6
<1>3. 0..n \subseteq T
  <2>. HIDE DEF Folded
  <2>1. 0 \in T /\ \A m \in 1..n : m - 1 \in T => m \in T
    BY <1>1, <1>2
  <2>. HIDE DEF T
  <2>. QED
    BY <2>1, UpTo
<1>4. Folded(n)
  <2>. HIDE DEF Folded
  <2>1. n \in T
    <3>1. n \in 0..n
      OBVIOUS
    <3>. HIDE DEF T
    <3>. QED
      BY <1>3, <3>1
  <2>. QED
    BY <2>1
<1>. QED
  BY <1>4 DEF IsFold

\* A finite set of numbers that is not empty has a greatest member.
LEMMA MaxIn ==
  ASSUME NEW n \in Nat, NEW s \in SUBSET (1..n), s # {}
  PROVE  Max(s) \in s /\ \A x \in s : x <= Max(s)
<1>. DEFINE T == {d \in 0..n : n - d \in s}
<1>1. T \subseteq Nat /\ T # {}
  <2>1. PICK x \in s : x \in 1..n
    OBVIOUS
  <2>2. n - x \in 0..n /\ n - (n - x) = x
    BY <2>1
  <2>3. n - x \in T
    BY <2>1, <2>2
  <2>4. T \subseteq Nat
    OBVIOUS
  <2>. HIDE DEF T
  <2>. QED
    BY <2>3, <2>4
<1>2. PICK d \in T : \A e \in T : d <= e
  <2>. HIDE DEF T
  <2>. QED
    BY <1>1, LeastNumber
<1>3. \A x \in s : n - x \in T
  OBVIOUS
<1>4. n - d \in s /\ \A x \in s : x <= n - d
  BY <1>2, <1>3
<1>. QED
  BY <1>4 DEF Max

\* The sets that a fold goes through.
LEMMA FirstOnes ==
  \A n \in Nat : \A k \in 1..n :
    1..k \in SUBSET (1..n) /\ 1..k # {} /\ Max(1..k) = k /\ (1..k) \ {k} = 1..(k - 1)
<1>. SUFFICES ASSUME NEW n \in Nat, NEW k \in 1..n
              PROVE  1..k \in SUBSET (1..n) /\ 1..k # {} /\ Max(1..k) = k /\ (1..k) \ {k} = 1..(k - 1)
  OBVIOUS
<1>1. k \in 1..k /\ 1..k \in SUBSET Nat /\ \A x \in 1..k : x <= k
  OBVIOUS
<1>2. Max(1..k) = k
  <2>. DEFINE s == 1..k
  <2>1. s \in SUBSET Nat /\ k \in s /\ \A x \in s : x <= k
    BY <1>1
  <2>. HIDE DEF s
  <2>2. Max(s) = k
    BY <2>1, MaxIs
  <2>. QED
    BY <2>2 DEF s
<1>. QED
  BY <1>1, <1>2

\* A fold that makes its steps goes from the first element to the last.
LEMMA FoldSteps ==
  ASSUME NEW S, NEW b \in S, NEW n \in Nat, NEW F \in Steps(n, S), NEW M, M[{}] = b,
         \A k \in 1..n : M[1..(k - 1)] \in S => M[1..k] = F[<<k, M[1..(k - 1)]>>]
  PROVE  \E L \in [0..n -> S] :
           L[0] = b /\ L[n] = M[1..n] /\ \A k \in 1..n : L[k] = F[<<k, L[k - 1]>>]
<1>. DEFINE L == [k \in 0..n |-> M[1..k]]
            T == {k \in 0..n : L[k] \in S}
<1>1. L[0] = b
  OBVIOUS
<1>2. \A k \in 1..n : L[k - 1] = M[1..(k - 1)] /\ L[k] = M[1..k]
  OBVIOUS
<1>3. L[n] = M[1..n]
  OBVIOUS
<1>. HIDE DEF L
<1>4. 0 \in T
  BY <1>1
<1>5. ASSUME NEW k \in 1..n, k - 1 \in T PROVE L[k] = F[<<k, L[k - 1]>>] /\ k \in T
  <2>1. L[k - 1] \in S /\ L[k] = F[<<k, L[k - 1]>>]
    BY <1>2, <1>5
  <2>2. L[k] \in S
    BY <2>1 DEF Steps
  <2>. QED
    BY <2>1, <2>2
<1>6. 0..n \subseteq T
  <2>. HIDE DEF T
  <2>. QED
    BY <1>4, <1>5, UpTo
<1>7. L \in [0..n -> S]
  BY <1>6 DEF L
<1>8. \A k \in 1..n : L[k] = F[<<k, L[k - 1]>>]
  <2>1. \A k \in 1..n : k - 1 \in T
    <3>. HIDE DEF T
    <3>. QED
      BY <1>6
  <2>. QED
    BY <1>5, <2>1
<1>. QED
  BY <1>1, <1>3, <1>7, <1>8

\* ... with what it is that makes them, under a name.
Folded(M, S, b, n, F) ==
  M[{}] = b /\ \A k \in 1..n : M[1..(k - 1)] \in S => M[1..k] = F[<<k, M[1..(k - 1)]>>]
Goes(L, M, S, b, n, F) ==
  /\ L \in [0..n -> S]
  /\ L[0] = b /\ L[n] = M[1..n] /\ \A k \in 1..n : L[k] = F[<<k, L[k - 1]>>]

LEMMA FoldedSteps ==
  ASSUME NEW S, NEW b, NEW n, NEW F, NEW M,
         b \in S, n \in Nat, F \in Steps(n, S), Folded(M, S, b, n, F)
  PROVE  \E L : Goes(L, M, S, b, n, F)
<1>1. M[{}] = b /\ \A k \in 1..n : M[1..(k - 1)] \in S => M[1..k] = F[<<k, M[1..(k - 1)]>>]
  BY DEF Folded
<1>2. PICK L \in [0..n -> S] :
        L[0] = b /\ L[n] = M[1..n] /\ \A k \in 1..n : L[k] = F[<<k, L[k - 1]>>]
  BY <1>1, FoldSteps
<1>. QED
  BY <1>2 DEF Goes

--------------------------------------------------------------------------------
(* The entry of the menu. *)
Menus == [displayed : BOOLEAN, items : Seq({"Delete", "Install"})]

\* set_filter_menu leaves a menu.
LEMMA SetFilterMenuTyped == \A m \in Menus, c \in Calls : SetFilterMenu(m, c) \in Menus
<1>. SUFFICES ASSUME NEW m \in Menus, NEW c \in Calls PROVE SetFilterMenu(m, c) \in Menus
  OBVIOUS
<1>. DEFINE S == Seq({"Delete", "Install"})
            deleted == IF m.displayed /\ m.items # <<>> THEN Tail(m.items) ELSE m.items
            added == IF c.display THEN <<FilterText(c.has_filter)>> ELSE <<>>
<1>1. m.items \in S /\ c.display \in BOOLEAN
  BY DEF Menus, Calls
<1>2. deleted \in S
  BY <1>1, HeadTailProperties
<1>3. added \in S
  <2>1. \A x \in {"Delete", "Install"} : <<x>> \in S
    OBVIOUS
  <2>2. FilterText(c.has_filter) \in {"Delete", "Install"}
    BY DEF FilterText
  <2>. HIDE DEF S
  <2>. QED
    BY <2>1, <2>2, EmptySeq DEF S
<1>4. added \o deleted \in S
  BY <1>2, <1>3, ConcatProperties
<1>. QED
  BY <1>1, <1>4 DEF SetFilterMenu, Menus

\* The menu after a list of calls, call by call.
LEMMA MenuFollows ==
  ASSUME NEW calls \in Seq(Calls)
  PROVE  \E L \in [0..Len(calls) -> Menus] :
           /\ L[0] = Menu /\ \A k \in 1..Len(calls) : L[k] = SetFilterMenu(L[k - 1], calls[k])
           /\ FoldLeft(SetFilterMenu, Menu, calls) = L[Len(calls)]
<1>. DEFINE n == Len(calls)
            R(f) == [s \in SUBSET (1..n) |->
                       IF s = {} THEN Menu ELSE SetFilterMenu(f[s \ {Max(s)}], calls[Max(s)])]
            M == CHOOSE f : f = R(f)
            F == [p \in (1..n) \X Menus |-> SetFilterMenu(p[2], calls[p[1]])]
<1>1. n \in Nat /\ DOMAIN calls = 1..n /\ \A i \in 1..n : calls[i] \in Calls
  BY LenProperties, ElementOfSeq
<1>2. FoldLeft(SetFilterMenu, Menu, calls) = M[1..n]
  BY <1>1 DEF FoldLeft, MapThenFoldSet
<1>3. Menu \in Menus
  BY DEF Menu, Menus
<1>4. F \in Steps(n, Menus)
  BY <1>1, SetFilterMenuTyped DEF Steps
<1>5. \A k \in 1..n, m \in Menus : F[<<k, m>>] = SetFilterMenu(m, calls[k])
  OBVIOUS
<1>. HIDE DEF n, F
<1>6. PICK f : IsFold(f, Menus, Menu, n, F)
  <2>1. n \in Nat
    BY <1>1
  <2>. QED
    BY <2>1, <1>3, <1>4, FoldExists
<1>7. f = R(f)
  <2>1. ASSUME NEW s \in SUBSET (1..n), s # {}
        PROVE  f[s] = SetFilterMenu(f[s \ {Max(s)}], calls[Max(s)])
    <3>1. Max(s) \in 1..n /\ f[s \ {Max(s)}] \in Menus
      BY <1>1, <1>6, <2>1, MaxIn DEF IsFold
    <3>. QED
      BY <1>5, <1>6, <2>1, <3>1 DEF IsFold
  <2>. QED
    BY <1>6, <2>1 DEF IsFold
<1>8. M = R(M)
  BY <1>7
<1>. HIDE DEF M
<1>9. M[{}] = Menu
  BY <1>8
<1>10. ASSUME NEW k \in 1..n, M[1..(k - 1)] \in Menus
       PROVE  M[1..k] = F[<<k, M[1..(k - 1)]>>]
  <2>1. 1..k \in SUBSET (1..n) /\ 1..k # {} /\ Max(1..k) = k /\ (1..k) \ {k} = 1..(k - 1)
    BY <1>1, FirstOnes
  <2>2. M[1..k] = SetFilterMenu(M[1..(k - 1)], calls[k])
    BY <1>8, <2>1
  <2>. QED
    BY <1>5, <1>10, <2>2
<1>11. PICK L \in [0..n -> Menus] :
         L[0] = Menu /\ L[n] = M[1..n] /\ \A k \in 1..n : L[k] = F[<<k, L[k - 1]>>]
  BY <1>1, <1>3, <1>4, <1>9, <1>10, FoldSteps
<1>12. \A k \in 1..n : L[k - 1] \in Menus
  BY <1>1
<1>. QED
  BY <1>2, <1>5, <1>11, <1>12 DEF n

\* The entry is there or not as the last call has it.
LEMMA MenuMeant ==
  ASSUME NEW calls \in Seq(Calls), calls # <<>>
  PROVE  MenuIsMeant(FoldLeft(SetFilterMenu, Menu, calls), calls)
<1>. DEFINE n == Len(calls)
            Item(call) == IF call.display THEN <<FilterText(call.has_filter)>> ELSE <<>>
            T(L) == {k \in 0..n : /\ L[k].displayed => L[k].items # <<>> /\ Tail(L[k].items) = <<>>
                                  /\ ~ L[k].displayed => L[k].items = <<>>
                                  /\ k # 0 => L[k].items = Item(calls[k])}
<1>1. n \in Nat \ {0} /\ \A i \in 1..n : calls[i] \in Calls
  BY LenProperties, ElementOfSeq, EmptySeq
<1>2. PICK L \in [0..n -> Menus] :
        /\ L[0] = Menu /\ \A k \in 1..n : L[k] = SetFilterMenu(L[k - 1], calls[k])
        /\ FoldLeft(SetFilterMenu, Menu, calls) = L[n]
  BY MenuFollows
<1>. HIDE DEF n
<1>3. \A x : <<x>> # <<>> /\ Tail(<<x>>) = <<>>
  OBVIOUS
<1>4. 0 \in T(L)
  <2>1. L[0].displayed = TRUE /\ L[0].items = <<"Install">>
    BY <1>2 DEF Menu
  <2>2. L[0].items # <<>> /\ Tail(L[0].items) = <<>>
    BY <1>3, <2>1
  <2>3. 0 \in 0..n
    BY <1>1
  <2>. QED
    BY <2>1, <2>2, <2>3
<1>5. ASSUME NEW k \in 1..n, k - 1 \in T(L) PROVE k \in T(L)
  <2>. DEFINE m == L[k - 1]
              call == calls[k]
  <2>1. call \in Calls /\ m \in Menus /\ (m.displayed => m.items # <<>> /\ Tail(m.items) = <<>>)
        /\ (~ m.displayed => m.items = <<>>)
    BY <1>1, <1>5
  <2>2. L[k] = [displayed |-> call.display, items |-> Item(call) \o <<>>]
    <3>1. (IF m.displayed /\ m.items # <<>> THEN Tail(m.items) ELSE m.items) = <<>>
      BY <2>1
    <3>. QED
      BY <1>2, <3>1 DEF SetFilterMenu
  <2>3. Item(call) \o <<>> = Item(call)
    BY DEF FilterText
  <2>4. L[k].displayed = call.display /\ L[k].items = Item(call)
    BY <2>2, <2>3
  <2>. HIDE DEF m
  <2>5. k \in 0..n
    BY <1>1
  <2>. QED
    BY <1>3, <2>1, <2>4, <2>5 DEF Calls
<1>6. n \in T(L)
  <2>1. 0..n \subseteq T(L)
    <3>. HIDE DEF T
    <3>. QED
      BY <1>1, <1>4, <1>5, UpTo
  <2>. QED
    BY <1>1, <2>1
<1>7. L[n].items = Item(calls[n])
  BY <1>1, <1>6
<1>. QED
  BY <1>2, <1>7 DEF MenuIsMeant, n

--------------------------------------------------------------------------------
(* Recursion from the end of a text.                                            *)

\* What holds at a place when it holds at all places behind holds everywhere.
LEMMA Down ==
  ASSUME NEW n \in Nat, NEW T,
         \A i \in 1..n : (\A j \in (i + 1)..n : j \in T) => i \in T
  PROVE  1..n \subseteq T
<1>. DEFINE U == {d \in 0..n : d < n /\ n - d \notin T}
<1>. SUFFICES ASSUME U # {} PROVE FALSE
  <2>1. ASSUME NEW i \in 1..n, i \notin T PROVE n - i \in U
    <3>1. n - i \in 0..n /\ n - i < n /\ n - (n - i) = i
      OBVIOUS
    <3>. QED
      BY <2>1, <3>1
  <2>. QED
    BY <2>1
<1>1. U \subseteq Nat
  OBVIOUS
<1>2. PICK d \in U : \A e \in U : d <= e
  <2>. HIDE DEF U
  <2>. QED
    BY <1>1, LeastNumber
<1>3. n - d \in 1..n /\ n - d \notin T
  BY <1>2
<1>4. ASSUME NEW j \in (n - d + 1)..n PROVE j \in T
  <2>1. n - j \in 0..n /\ n - j < n /\ n - (n - j) = j /\ ~ (d <= n - j)
    BY <1>3
  <2>2. n - j \notin U
    <3>. HIDE DEF U
    <3>. QED
      BY <1>2, <2>1
  <2>. QED
    BY <2>1, <2>2
<1>. QED
  BY <1>3, <1>4

\* f is defined by a recursion that goes from i to next[i], behind it, and ends in ends.
Falls(f, S, n, next, ends, v, G) ==
  /\ f \in [1..(n + 1) -> S]
  /\ \A i \in 1..(n + 1) : f[i] = IF i \in ends THEN v[i] ELSE G[<<i, f[next[i]]>>]

\* A recursion that moves on from every place, and ends, has a value at each place.
LEMMA Falling ==
  ASSUME NEW S, NEW n \in Nat, NEW next \in [1..n -> 1..(n + 1)], \A i \in 1..n : i < next[i],
         NEW ends, n + 1 \in ends, NEW v \in [1..(n + 1) -> S], NEW G \in Steps(n, S)
  PROVE  \E f : Falls(f, S, n, next, ends, v, G)
<1>. USE DEF Steps
<1>. DEFINE From(d) == (n + 1 - d)..(n + 1)
            Solves(d, f) == \A i \in From(d) : f[i] = IF i \in ends THEN v[i] ELSE G[<<i, f[next[i]]>>]
            Solved(d) == \E f \in [From(d) -> S] : Solves(d, f)
            T == {d \in 0..n : Solved(d)}
<1>1. Solved(0)
  <2>1. From(0) = {n + 1}
    OBVIOUS
  <2>. DEFINE e == [i \in From(0) |-> v[n + 1]]
  <2>2. e \in [From(0) -> S] /\ \A i \in From(0) : e[i] = v[i] /\ i \in ends
    BY <2>1
  <2>. HIDE DEF e
  <2>. QED
    BY <2>2
<1>2. ASSUME NEW d \in 1..n, Solved(d - 1) PROVE Solved(d)
  <2>. DEFINE i0 == n + 1 - d
  <2>1. PICK g \in [From(d - 1) -> S] : Solves(d - 1, g)
    BY <1>2
  <2>. DEFINE x == IF i0 \in ends THEN v[i0] ELSE G[<<i0, g[next[i0]]>>]
              h == [i \in From(d) |-> IF i = i0 THEN x ELSE g[i]]
  <2>2. i0 \in 1..n /\ next[i0] \in From(d - 1)
    OBVIOUS
  <2>3. x \in S
    <3>1. g[next[i0]] \in S /\ v[i0] \in S
      BY <2>2
    <3>. QED
      BY <2>2, <3>1
  <2>4. \A i \in From(d) : i = i0 \/ i \in From(d - 1)
    OBVIOUS
  <2>5. \A i \in From(d - 1) : i \in From(d) /\ i # i0
    OBVIOUS
  <2>. HIDE DEF x
  <2>6. h \in [From(d) -> S]
    <3>1. \A i \in From(d) : i # i0 => g[i] \in S
      BY <2>4
    <3>. QED
      BY <2>3, <3>1
  <2>7. h[i0] = x /\ \A i \in From(d - 1) : h[i] = g[i]
    <3>1. i0 \in From(d)
      OBVIOUS
    <3>. QED
      BY <2>5, <3>1
  <2>. HIDE DEF h
  <2>8. ASSUME NEW i \in From(d)
        PROVE  h[i] = IF i \in ends THEN v[i] ELSE G[<<i, h[next[i]]>>]
    <3>1. CASE i = i0
      BY <2>2, <2>7, <3>1 DEF x
    <3>2. CASE i # i0
      <4>1. i \in From(d - 1) /\ (i \notin ends => i \in 1..n)
        <5>1. i \in From(d - 1) /\ i \in 1..(n + 1)
          BY <2>4, <3>2
        <5>2. i \notin ends => i # n + 1
          OBVIOUS
        <5>. QED
          BY <5>1, <5>2
      <4>2. i \notin ends => next[i] \in From(d - 1)
        BY <4>1
      <4>. HIDE DEF From
      <4>. QED
        BY <2>1, <2>7, <4>1, <4>2
    <3>. QED
      BY <3>1, <3>2
  <2>. QED
    <3>. HIDE DEF From
    <3>. QED
      BY <2>6, <2>8
<1>3. n \in T
  <2>. HIDE DEF Solved
  <2>1. 0 \in T /\ \A m \in 1..n : m - 1 \in T => m \in T
    BY <1>1, <1>2
  <2>2. n \in 0..n
    OBVIOUS
  <2>. HIDE DEF T
  <2>. QED
    BY <2>1, <2>2, UpTo
<1>4. PICK f \in [From(n) -> S] : Solves(n, f)
  BY <1>3
<1>5. From(n) = 1..(n + 1)
  OBVIOUS
<1>. HIDE DEF From
<1>. QED
  BY <1>4, <1>5 DEF Falls

--------------------------------------------------------------------------------
(* Texts and what they hold.                                                    *)
LEMMA PartIs ==
  ASSUME NEW S, NEW t \in Seq(S), NEW a \in 1..(Len(t) + 1), NEW m \in (a - 1)..Len(t)
  PROVE  /\ SubSeq(t, a, m) \in Seq(S) /\ Len(SubSeq(t, a, m)) = m - a + 1
         /\ \A i \in 1..(m - a + 1) : SubSeq(t, a, m)[i] = t[a + i - 1]
<1>1. Len(t) \in Nat
  OBVIOUS
<1>. QED
  BY <1>1

\* What two sequences make when they are joined.
LEMMA JoinIs ==
  ASSUME NEW S, NEW s \in Seq(S), NEW t \in Seq(S)
  PROVE  /\ s \o t \in Seq(S) /\ Len(s \o t) = Len(s) + Len(t)
         /\ \A i \in 1..Len(s) : (s \o t)[i] = s[i]
         /\ \A i \in 1..Len(t) : (s \o t)[Len(s) + i] = t[i]
         /\ Len(s) \in Nat /\ Len(t) \in Nat
OBVIOUS

\* A sequence of one member.
LEMMA OneOnly == ASSUME NEW S, NEW t \in Seq(S), Len(t) = 1 PROVE t = <<t[1]>>
OBVIOUS

\* Two neighbouring parts of a sequence make one part.
LEMMA PartsJoin ==
  ASSUME NEW S, NEW t \in Seq(S), NEW a \in 1..(Len(t) + 1), NEW k \in (a - 1)..Len(t),
         NEW m \in k..Len(t)
  PROVE  SubSeq(t, a, k) \o SubSeq(t, k + 1, m) = SubSeq(t, a, m)
<1>. DEFINE x == SubSeq(t, a, k)
            y == SubSeq(t, k + 1, m)
            z == SubSeq(t, a, m)
<1>1. /\ Len(t) \in Nat /\ k \in Nat /\ m \in Nat /\ m \in (a - 1)..Len(t)
      /\ k + 1 \in 1..(Len(t) + 1) /\ m \in ((k + 1) - 1)..Len(t)
  OBVIOUS
<1>2. x \in Seq(S) /\ Len(x) = k - a + 1 /\ \A i \in 1..(k - a + 1) : x[i] = t[a + i - 1]
  BY PartIs
<1>3. y \in Seq(S) /\ Len(y) = m - (k + 1) + 1 /\ \A i \in 1..(m - (k + 1) + 1) : y[i] = t[(k + 1) + i - 1]
  BY <1>1, PartIs
<1>4. z \in Seq(S) /\ Len(z) = m - a + 1 /\ \A i \in 1..(m - a + 1) : z[i] = t[a + i - 1]
  BY <1>1, PartIs
<1>. HIDE DEF x, y, z
<1>5. /\ x \o y \in Seq(S) /\ Len(x \o y) = m - a + 1
      /\ \A i \in 1..Len(x) : (x \o y)[i] = x[i]
      /\ \A i \in 1..Len(y) : (x \o y)[Len(x) + i] = y[i]
  <2>1. x \in Seq(S) /\ y \in Seq(S)
    BY <1>2, <1>3
  <2>2. /\ x \o y \in Seq(S) /\ Len(x \o y) = Len(x) + Len(y)
        /\ \A i \in 1..Len(x) : (x \o y)[i] = x[i]
        /\ \A i \in 1..Len(y) : (x \o y)[Len(x) + i] = y[i]
    BY <2>1, JoinIs
  <2>3. Len(x) + Len(y) = m - a + 1
    BY <1>1, <1>2, <1>3
  <2>. QED
    BY <2>2, <2>3
<1>6. ASSUME NEW i \in 1..(m - a + 1) PROVE (x \o y)[i] = z[i]
  <2>1. CASE i <= k - a + 1
    <3>1. i \in 1..(k - a + 1) /\ i \in 1..Len(x)
      BY <1>1, <1>2, <2>1
    <3>. QED
      BY <1>2, <1>4, <1>5, <3>1
  <2>2. CASE ~ (i <= k - a + 1)
    <3>. DEFINE j == i - (k - a + 1)
    <3>1. j \in 1..(m - (k + 1) + 1) /\ Len(x) + j = i /\ (k + 1) + j - 1 = a + i - 1
      BY <1>1, <1>2, <2>2
    <3>. HIDE DEF j
    <3>2. (x \o y)[Len(x) + j] = y[j] /\ y[j] = t[(k + 1) + j - 1]
      BY <1>3, <1>5, <3>1
    <3>. QED
      BY <1>4, <3>1, <3>2
  <2>. QED
    BY <2>1, <2>2
<1>7. x \o y = z
  BY <1>4, <1>5, <1>6, SeqEqual
<1>. QED
  BY <1>7 DEF x, y, z

\* A word is found where its characters are.
LEMMA HasIs ==
  ASSUME NEW S, NEW src \in Seq(S), NEW i \in 1..(Len(src) + 1), NEW word \in Seq(S)
  PROVE  Has(src, i, word) <=> /\ i + Len(word) - 1 <= Len(src)
                               /\ \A k \in 1..Len(word) : src[i + k - 1] = word[k]
<1>. DEFINE m == i + Len(word) - 1
            part == SubSeq(src, i, m)
<1>. SUFFICES ASSUME m <= Len(src)
              PROVE  part = word <=> \A k \in 1..Len(word) : src[i + k - 1] = word[k]
  BY DEF Has
<1>1. Len(word) \in Nat /\ Len(src) \in Nat /\ m \in (i - 1)..Len(src) /\ m - i + 1 = Len(word)
  OBVIOUS
<1>2. part \in Seq(S) /\ Len(part) = m - i + 1 /\ \A k \in 1..(m - i + 1) : part[k] = src[i + k - 1]
  <2>. HIDE DEF m
  <2>. QED
    BY <1>1, PartIs
<1>. HIDE DEF m, part
<1>3. ASSUME \A k \in 1..Len(word) : src[i + k - 1] = word[k] PROVE part = word
  BY <1>1, <1>2, <1>3, SeqEqual
<1>. QED
  BY <1>1, <1>2, <1>3

\* A word of two parts is found where one part follows the other.
LEMMA HasJoin ==
  ASSUME NEW S, NEW src \in Seq(S), NEW i \in 1..(Len(src) + 1), NEW a \in Seq(S), NEW b \in Seq(S)
  PROVE  Has(src, i, a \o b) <=> Has(src, i, a) /\ Has(src, i + Len(a), b)
<1>. DEFINE c == a \o b
            j == i + Len(a)
<1>1. /\ c \in Seq(S) /\ Len(c) = Len(a) + Len(b) /\ Len(a) \in Nat /\ Len(b) \in Nat
      /\ \A k \in 1..Len(a) : c[k] = a[k]
      /\ \A k \in 1..Len(b) : c[Len(a) + k] = b[k]
  BY JoinIs
<1>2. Len(src) \in Nat
  OBVIOUS
<1>. HIDE DEF c
<1>3. Has(src, i, c) <=> i + Len(c) - 1 <= Len(src) /\ \A k \in 1..Len(c) : src[i + k - 1] = c[k]
  <2>1. c \in Seq(S)
    BY <1>1
  <2>. QED
    BY <2>1, HasIs
<1>4. Has(src, i, a) <=> i + Len(a) - 1 <= Len(src) /\ \A k \in 1..Len(a) : src[i + k - 1] = a[k]
  BY HasIs
<1>5. ASSUME Has(src, i, a)
      PROVE  Has(src, j, b) <=> j + Len(b) - 1 <= Len(src) /\ \A k \in 1..Len(b) : src[j + k - 1] = b[k]
  <2>1. j \in 1..(Len(src) + 1)
    BY <1>1, <1>2, <1>4, <1>5
  <2>. HIDE DEF j
  <2>. QED
    BY <2>1, HasIs
<1>6. ASSUME Has(src, i, c) PROVE Has(src, i, a) /\ Has(src, j, b)
  <2>1. i + Len(c) - 1 <= Len(src) /\ \A k \in 1..Len(c) : src[i + k - 1] = c[k]
    BY <1>3, <1>6
  <2>2. \A k \in 1..Len(a) : k \in 1..Len(c)
    BY <1>1
  <2>3. Has(src, i, a)
    BY <1>1, <1>2, <1>4, <2>1, <2>2
  <2>4. ASSUME NEW k \in 1..Len(b) PROVE src[j + k - 1] = b[k]
    <3>1. Len(a) + k \in 1..Len(c) /\ i + (Len(a) + k) - 1 = j + k - 1
      BY <1>1
    <3>. HIDE DEF j
    <3>. QED
      BY <1>1, <2>1, <3>1
  <2>5. j + Len(b) - 1 <= Len(src)
    BY <1>1, <1>2, <2>1
  <2>. HIDE DEF j
  <2>. QED
    BY <1>5, <2>3, <2>4, <2>5
<1>7. ASSUME Has(src, i, a), Has(src, j, b) PROVE Has(src, i, c)
  <2>1. i + Len(a) - 1 <= Len(src) /\ \A k \in 1..Len(a) : src[i + k - 1] = a[k]
    BY <1>4, <1>7
  <2>2. j + Len(b) - 1 <= Len(src) /\ \A k \in 1..Len(b) : src[j + k - 1] = b[k]
    <3>. HIDE DEF j
    <3>. QED
      BY <1>5, <1>7
  <2>3. i + Len(c) - 1 <= Len(src)
    BY <1>1, <1>2, <2>2
  <2>4. ASSUME NEW k \in 1..Len(c) PROVE src[i + k - 1] = c[k]
    <3>1. CASE k <= Len(a)
      <4>1. k \in 1..Len(a)
        BY <1>1, <3>1
      <4>. QED
        BY <1>1, <2>1, <4>1
    <3>2. CASE ~ (k <= Len(a))
      <4>. DEFINE d == k - Len(a)
      <4>1. d \in 1..Len(b) /\ Len(a) + d = k /\ j + d - 1 = i + k - 1
        BY <1>1, <3>2
      <4>. HIDE DEF d, j
      <4>. QED
        BY <1>1, <2>2, <4>1
    <3>. QED
      BY <3>1, <3>2
  <2>. QED
    BY <1>3, <2>3, <2>4
<1>. QED
  BY <1>6, <1>7 DEF c

--------------------------------------------------------------------------------
(* The tokenizer: what is copied to a buffer that grows.                        *)
Texts == Seq(Character)
Buffers == {b \in [text : Texts, size : Nat] : Len(b.text) < b.size}

\* Whatever is copied finds room.
LEMMA GrowCopyIs ==
  \A b \in Buffers, piece \in Texts :
    GrowCopy(b, piece) \in Buffers /\ GrowCopy(b, piece).text = b.text \o piece
<1>. SUFFICES ASSUME NEW b \in Buffers, NEW piece \in Texts
              PROVE  GrowCopy(b, piece) \in Buffers /\ GrowCopy(b, piece).text = b.text \o piece
  OBVIOUS
<1>. DEFINE here == Len(b.text)
            whole == IF here + Len(piece) >= b.size THEN DestSize(here + Len(piece)) ELSE b.size
            free == whole - here - 1
            copied == [i \in DOMAIN piece |-> IF i <= free THEN piece[i] ELSE "junk"]
<1>1. /\ b.text \in Texts /\ here \in Nat /\ b.size \in Nat /\ here < b.size /\ Len(piece) \in Nat
      /\ DOMAIN piece = 1..Len(piece) /\ \A i \in 1..Len(piece) : piece[i] \in Character
  BY DEF Buffers, Texts
<1>2. whole \in Nat /\ here + Len(piece) < whole /\ Len(piece) <= free
  BY <1>1, TokenizerAssumption DEF DestSize
<1>3. GrowCopy(b, piece) = [text |-> b.text \o copied, size |-> whole]
  BY DEF GrowCopy
<1>. HIDE DEF whole
<1>4. \A i \in DOMAIN piece : i <= free
  BY <1>1, <1>2
<1>5. copied = [i \in DOMAIN piece |-> piece[i]]
  BY <1>4
<1>6. copied = piece
  BY <1>5 DEF Texts
<1>. HIDE DEF copied
<1>7. b.text \o piece \in Texts /\ Len(b.text \o piece) = here + Len(piece)
  BY <1>1, JoinIs DEF Texts
<1>. QED
  BY <1>2, <1>3, <1>6, <1>7 DEF Buffers

Copied(b, ps) == FoldLeft(GrowCopy, b, ps)

\* What grow_copy leaves after a list of texts, text by text.
LEMMA CopyFollows ==
  ASSUME NEW b \in Buffers, NEW ps \in Seq(Texts)
  PROVE  \E L \in [0..Len(ps) -> Buffers] :
           /\ L[0] = b /\ \A k \in 1..Len(ps) : L[k] = GrowCopy(L[k - 1], ps[k])
           /\ Copied(b, ps) = L[Len(ps)]
<1>. DEFINE n == Len(ps)
            R(f) == [s \in SUBSET (1..n) |-> IF s = {} THEN b ELSE GrowCopy(f[s \ {Max(s)}], ps[Max(s)])]
            M == CHOOSE f : f = R(f)
            F == [p \in (1..n) \X Buffers |-> GrowCopy(p[2], ps[p[1]])]
<1>1. n \in Nat /\ DOMAIN ps = 1..n /\ \A i \in 1..n : ps[i] \in Texts
  BY LenProperties, ElementOfSeq
<1>2. Copied(b, ps) = M[1..n]
  BY <1>1 DEF Copied, FoldLeft, MapThenFoldSet
<1>3. F \in Steps(n, Buffers)
  BY <1>1, GrowCopyIs DEF Steps
<1>4. \A k \in 1..n, x \in Buffers : F[<<k, x>>] = GrowCopy(x, ps[k])
  OBVIOUS
<1>. HIDE DEF n, F
<1>5. PICK f : IsFold(f, Buffers, b, n, F)
  <2>1. n \in Nat
    BY <1>1
  <2>. QED
    BY <2>1, <1>3, FoldExists
<1>6. f = R(f)
  <2>1. ASSUME NEW s \in SUBSET (1..n), s # {}
        PROVE  f[s] = GrowCopy(f[s \ {Max(s)}], ps[Max(s)])
    <3>1. Max(s) \in 1..n /\ f[s \ {Max(s)}] \in Buffers
      BY <1>1, <1>5, <2>1, MaxIn DEF IsFold
    <3>. QED
      BY <1>4, <1>5, <2>1, <3>1 DEF IsFold
  <2>. QED
    BY <1>5, <2>1 DEF IsFold
<1>7. M = R(M)
  BY <1>6
<1>. HIDE DEF M
<1>8. M[{}] = b
  BY <1>7
<1>9. ASSUME NEW k \in 1..n, M[1..(k - 1)] \in Buffers
      PROVE  M[1..k] = F[<<k, M[1..(k - 1)]>>]
  <2>1. 1..k \in SUBSET (1..n) /\ 1..k # {} /\ Max(1..k) = k /\ (1..k) \ {k} = 1..(k - 1)
    BY <1>1, FirstOnes
  <2>2. M[1..k] = GrowCopy(M[1..(k - 1)], ps[k])
    BY <1>7, <2>1
  <2>. QED
    BY <1>4, <1>9, <2>2
<1>a. PICK L : Goes(L, M, Buffers, b, n, F)
  <2>1. Folded(M, Buffers, b, n, F)
    BY <1>8, <1>9 DEF Folded
  <2>. QED
    BY <1>1, <1>3, <2>1, FoldedSteps
<1>10. /\ L \in [0..n -> Buffers]
       /\ L[0] = b /\ L[n] = M[1..n] /\ \A k \in 1..n : L[k] = F[<<k, L[k - 1]>>]
  BY <1>a DEF Goes
<1>11. \A k \in 1..n : L[k - 1] \in Buffers
  BY <1>1, <1>10
<1>. QED
  BY <1>2, <1>4, <1>10, <1>11 DEF n

\* The first piece is copied first.
LEMMA CopyFirst ==
  ASSUME NEW b \in Buffers, NEW x \in Texts, NEW ps \in Seq(Texts)
  PROVE  Copied(b, <<x>> \o ps) = Copied(GrowCopy(b, x), ps)
<1>. DEFINE n == Len(ps)
            qs == <<x>> \o ps
            c == GrowCopy(b, x)
<1>1. /\ n \in Nat /\ qs \in Seq(Texts) /\ Len(qs) = n + 1 /\ qs[1] = x
      /\ \A i \in 1..n : qs[i + 1] = ps[i]
  OBVIOUS
<1>2. c \in Buffers
  BY GrowCopyIs
<1>. HIDE DEF qs, c
<1>3. PICK L \in [0..(n + 1) -> Buffers] :
        /\ L[0] = b /\ \A k \in 1..(n + 1) : L[k] = GrowCopy(L[k - 1], qs[k])
        /\ Copied(b, qs) = L[n + 1]
  <2>1. qs \in Seq(Texts)
    BY <1>1
  <2>2. PICK L \in [0..Len(qs) -> Buffers] :
          /\ L[0] = b /\ \A k \in 1..Len(qs) : L[k] = GrowCopy(L[k - 1], qs[k])
          /\ Copied(b, qs) = L[Len(qs)]
    BY <2>1, CopyFollows
  <2>3. Len(qs) = n + 1
    BY <1>1
  <2>. HIDE DEF n
  <2>. QED
    BY <2>2, <2>3
<1>4. PICK M \in [0..n -> Buffers] :
        /\ M[0] = c /\ \A k \in 1..n : M[k] = GrowCopy(M[k - 1], ps[k])
        /\ Copied(c, ps) = M[n]
  BY <1>2, CopyFollows
<1>. HIDE DEF n
<1>. DEFINE T == {k \in 0..n : L[k + 1] = M[k]}
<1>5. 0 \in T
  <2>1. 1 \in 1..(n + 1) /\ 1 - 1 = 0 /\ 0 + 1 = 1 /\ 0 \in 0..n
    BY <1>1
  <2>2. L[1] = c
    BY <1>1, <1>3, <2>1 DEF c
  <2>. QED
    BY <1>4, <2>1, <2>2
<1>6. ASSUME NEW k \in 1..n, k - 1 \in T PROVE k \in T
  <2>1. k + 1 \in 1..(n + 1) /\ (k + 1) - 1 = k /\ (k - 1) + 1 = k /\ k \in 0..n
    BY <1>1
  <2>2. L[k] = M[k - 1]
    BY <1>6, <2>1
  <2>3. L[k + 1] = GrowCopy(L[k], qs[k + 1]) /\ M[k] = GrowCopy(M[k - 1], ps[k]) /\ qs[k + 1] = ps[k]
    BY <1>1, <1>3, <1>4, <2>1
  <2>. QED
    BY <2>1, <2>2, <2>3
<1>7. n \in T
  <2>. HIDE DEF T
  <2>1. n \in 0..n
    BY <1>1
  <2>. QED
    BY <1>1, <1>5, <1>6, <2>1, UpTo
<1>. QED
  BY <1>3, <1>4, <1>7 DEF qs, c

\* One text is copied by one call.
LEMMA CopyOne ==
  ASSUME NEW b \in Buffers, NEW x \in Texts
  PROVE  Copied(b, <<x>>) = GrowCopy(b, x)
<1>1. <<x>> \in Seq(Texts) /\ Len(<<x>>) = 1 /\ <<x>>[1] = x
  OBVIOUS
<1>2. PICK L \in [0..1 -> Buffers] :
        /\ L[0] = b /\ \A k \in 1..1 : L[k] = GrowCopy(L[k - 1], <<x>>[k])
        /\ Copied(b, <<x>>) = L[1]
  BY <1>1, CopyFollows, ZenonT(60)
<1>3. 1 \in 1..1 /\ 1 - 1 = 0
  OBVIOUS
<1>. QED
  BY <1>1, <1>2, <1>3

--------------------------------------------------------------------------------
(* The tokenizer: what is meant.                                                *)
LEMMA MinIn ==
  ASSUME NEW s \in SUBSET Nat, s # {}
  PROVE  Min(s) \in s /\ \A x \in s : Min(s) <= x
<1>1. PICK d \in s : \A e \in s : d <= e
  BY LeastNumber
<1>. QED
  BY <1>1 DEF Min

\* An entity as a text has it, and those that begin at i.
Token(e) == Prefix \o Entities[e].match \o Suffix
Hit(src, i) == {e \in DOMAIN Entities : Has(src, i, Token(e))}
First(src, i) == Min(Hit(src, i))

\* A token is the prefix, the match and the suffix.
LEMMA EntityIs ==
  ASSUME NEW e \in DOMAIN Entities
  PROVE  /\ Entities[e].match \in Texts /\ Entities[e].replace \in Texts
         /\ Len(Entities[e].match) \in Nat \ {0}
         /\ Entities[e].match \o Suffix \in Texts
         /\ Token(e) = Prefix \o (Entities[e].match \o Suffix) /\ Token(e) \in Texts
         /\ Len(Token(e)) = 1 + Len(Entities[e].match) + Len(Suffix)
<1>. DEFINE m == Entities[e].match
<1>1. Entities[e] \in [match : Texts \ {<<>>}, replace : Texts]
  <2>1. DOMAIN Entities = 1..Len(Entities)
    BY TokenizerAssumption
  <2>. QED
    BY <2>1, TokenizerAssumption, ElementOfSeq DEF Texts
<1>2. m \in Texts /\ m # <<>> /\ Entities[e].replace \in Texts
  BY <1>1
<1>3. Prefix \in Texts /\ Suffix \in Texts /\ Len(Prefix) = 1
  BY TokenizerAssumption DEF Texts
<1>. HIDE DEF m
<1>4. Len(m) \in Nat /\ Len(Suffix) \in Nat /\ Len(m) # 0
  BY <1>2, <1>3, EmptySeq DEF Texts
<1>5. (Prefix \o m) \o Suffix = Prefix \o (m \o Suffix)
  BY <1>2, <1>3, ConcatAssociative DEF Texts
<1>6. Prefix \o m \in Texts /\ Len(Prefix \o m) = 1 + Len(m)
  <2>1. Prefix \o m \in Texts /\ Len(Prefix \o m) = Len(Prefix) + Len(m)
    BY <1>2, <1>3, JoinIs DEF Texts
  <2>. QED
    BY <1>3, <2>1
<1>7. (Prefix \o m) \o Suffix \in Texts /\ Len((Prefix \o m) \o Suffix) = 1 + Len(m) + Len(Suffix)
  <2>. DEFINE pm == Prefix \o m
  <2>1. pm \in Texts /\ Len(pm) = 1 + Len(m)
    BY <1>6
  <2>. HIDE DEF pm
  <2>2. pm \o Suffix \in Texts /\ Len(pm \o Suffix) = Len(pm) + Len(Suffix)
    BY <1>3, <2>1, JoinIs DEF Texts
  <2>. QED
    BY <2>1, <2>2 DEF pm
<1>8. m \o Suffix \in Texts
  BY <1>2, <1>3, JoinIs DEF Texts
<1>. QED
  BY <1>2, <1>4, <1>5, <1>7, <1>8 DEF m, Token

\* The entity that is taken at i is one, and its token ends in the text.
LEMMA FirstIs ==
  ASSUME NEW src \in Texts, NEW i \in 1..Len(src), Hit(src, i) # {}
  PROVE  /\ First(src, i) \in Hit(src, i) /\ First(src, i) \in DOMAIN Entities
         /\ i + Len(Token(First(src, i))) \in (i + 1)..(Len(src) + 1)
<1>. DEFINE e == First(src, i)
<1>1. DOMAIN Entities = 1..Len(Entities) /\ Len(Entities) \in Nat
  BY TokenizerAssumption
<1>2. Hit(src, i) \in SUBSET Nat
  BY <1>1 DEF Hit
<1>3. e \in Hit(src, i)
  BY <1>2, MinIn DEF First
<1>. HIDE DEF e
<1>4. e \in DOMAIN Entities /\ Has(src, i, Token(e))
  BY <1>3 DEF Hit
<1>5. Len(Token(e)) \in Nat \ {0} /\ Len(src) \in Nat
  <2>1. Len(Suffix) \in Nat /\ Len(src) \in Nat
    BY TokenizerAssumption DEF Texts
  <2>2. /\ Len(Entities[e].match) \in Nat \ {0}
        /\ Len(Token(e)) = 1 + Len(Entities[e].match) + Len(Suffix)
    BY <1>4, EntityIs
  <2>. QED
    BY <2>1, <2>2
<1>6. i + Len(Token(e)) - 1 <= Len(src)
  BY <1>4 DEF Has
<1>7. i + Len(Token(e)) \in (i + 1)..(Len(src) + 1)
  BY <1>5, <1>6
<1>. QED
  BY <1>3, <1>4, <1>7 DEF e

\* R[i] is what is made of the text from i on.
IsMeant(src, R) ==
  /\ R \in [1..(Len(src) + 1) -> Texts] /\ R[Len(src) + 1] = <<>>
  /\ \A i \in 1..Len(src) :
       R[i] = IF Hit(src, i) = {} THEN <<src[i]>> \o R[i + 1]
              ELSE Entities[First(src, i)].replace \o R[i + Len(Token(First(src, i)))]

\* The text that is meant, from the end of the source back to its start.
LEMMA MeantFalls ==
  ASSUME NEW src \in Texts
  PROVE  \E R : IsMeant(src, R) /\ Meant(src) = R[1]
<1>. DEFINE n == Len(src)
            R(f) == [i \in 1..(n + 1) |->
                       IF i > n THEN <<>>
                       ELSE IF Hit(src, i) = {} THEN <<src[i]>> \o f[i + 1]
                       ELSE Entities[First(src, i)].replace \o f[i + Len(Token(First(src, i)))]]
            M == CHOOSE f : f = R(f)
            next == [i \in 1..n |-> IF Hit(src, i) = {} THEN i + 1 ELSE i + Len(Token(First(src, i)))]
            Made(i, x) == IF Hit(src, i) = {} THEN <<src[i]>> \o x
                             ELSE Entities[First(src, i)].replace \o x
            G == [p \in (1..n) \X Texts |-> Made(p[1], p[2])]
            v == [i \in 1..(n + 1) |-> <<>>]
<1>1. n \in Nat /\ \A i \in 1..n : src[i] \in Character
  BY LenProperties, ElementOfSeq DEF Texts
<1>2. Meant(src) = M[1]
  BY DEF Meant, Hit, Token, First
<1>3. \A i \in 1..n : Hit(src, i) # {} =>
        /\ First(src, i) \in DOMAIN Entities
        /\ i + Len(Token(First(src, i))) \in (i + 1)..(n + 1)
  BY FirstIs
<1>4. next \in [1..n -> 1..(n + 1)] /\ \A i \in 1..n : i < next[i]
  <2>1. \A i \in 1..n : i + 1 \in (i + 1)..(n + 1)
    BY <1>1
  <2>2. \A i \in 1..n : next[i] \in (i + 1)..(n + 1)
    BY <1>3, <2>1
  <2>3. \A i \in 1..n : \A k \in (i + 1)..(n + 1) : k \in 1..(n + 1) /\ i < k
    BY <1>1
  <2>. HIDE DEF n
  <2>. QED
    BY <2>2, <2>3
<1>5. \A i \in 1..n, x \in Texts : Made(i, x) \in Texts
  <2>. SUFFICES ASSUME NEW i \in 1..n, NEW x \in Texts PROVE Made(i, x) \in Texts
    OBVIOUS
  <2>1. <<src[i]>> \in Texts
    BY <1>1 DEF Texts
  <2>2. Hit(src, i) # {} => Entities[First(src, i)].replace \in Texts
    BY <1>3, EntityIs
  <2>3. \A y \in Texts : y \o x \in Texts
    BY JoinIs DEF Texts
  <2>. QED
    BY <2>1, <2>2, <2>3
<1>6. <<>> \in Texts
  BY EmptySeq DEF Texts
<1>7. v \in [1..(n + 1) -> Texts] /\ n + 1 \in {n + 1}
  BY <1>6
<1>. HIDE DEF Made
<1>8. G \in Steps(n, Texts) /\ \A i \in 1..n, x \in Texts : G[<<i, x>>] = Made(i, x)
  BY <1>5 DEF Steps
<1>. HIDE DEF n, next, G, v
<1>9. PICK f : Falls(f, Texts, n, next, {n + 1}, v, G)
  BY <1>1, <1>4, <1>7, <1>8, Falling
<1>10. f = R(f)
  <2>1. f \in [1..(n + 1) -> Texts] /\ f[n + 1] = v[n + 1]
    <3>1. n + 1 \in 1..(n + 1) /\ n + 1 \in {n + 1}
      BY <1>1
    <3>. QED
      BY <1>9, <3>1, Zenon DEF Falls
  <2>2. f[n + 1] = <<>>
    BY <1>1, <2>1 DEF v
  <2>3. ASSUME NEW i \in 1..n PROVE f[i] = Made(i, f[next[i]])
    <3>1. f[i] = G[<<i, f[next[i]]>>] /\ f[next[i]] \in Texts
      BY <1>1, <1>4, <1>9 DEF Falls
    <3>. QED
      BY <1>8, <3>1
  <2>4. ASSUME NEW i \in 1..n
        PROVE  f[i] = IF Hit(src, i) = {} THEN <<src[i]>> \o f[i + 1]
                      ELSE Entities[First(src, i)].replace \o f[i + Len(Token(First(src, i)))]
    BY <2>3 DEF Made, next
  <2>5. \A i \in 1..(n + 1) : (i > n => i = n + 1) /\ (~ (i > n) => i \in 1..n)
    BY <1>1, SMTT(30)
  <2>. QED
    BY <2>1, <2>2, <2>4, <2>5
<1>11. M = R(M)
  BY <1>10
<1>. HIDE DEF M
<1>12. M[n + 1] = <<>> /\ DOMAIN M = 1..(n + 1)
  <2>1. n + 1 \in 1..(n + 1) /\ n + 1 > n
    BY <1>1
  <2>. QED
    BY <1>11, <2>1
<1>13. ASSUME NEW i \in 1..n
       PROVE  M[i] = IF Hit(src, i) = {} THEN <<src[i]>> \o M[i + 1]
                     ELSE Entities[First(src, i)].replace \o M[i + Len(Token(First(src, i)))]
  <2>1. i \in 1..(n + 1) /\ ~ (i > n)
    BY <1>1
  <2>. QED
    BY <1>11, <2>1
<1>14. M \in [1..(n + 1) -> Texts]
  <2>. DEFINE T == {i \in 1..(n + 1) : M[i] \in Texts}
  <2>1. ASSUME NEW i \in 1..(n + 1), \A j \in (i + 1)..(n + 1) : j \in T PROVE i \in T
    <3>1. CASE i = n + 1
      BY <1>6, <1>12, <3>1
    <3>2. CASE i # n + 1
      <4>1. i \in 1..n /\ next[i] \in (i + 1)..(n + 1)
        BY <1>1, <1>4, <3>2
      <4>2. M[next[i]] \in Texts
        BY <2>1, <4>1
      <4>3. M[i] = Made(i, M[next[i]])
        BY <1>13, <4>1 DEF Made, next
      <4>. QED
        BY <1>5, <4>1, <4>2, <4>3
    <3>. QED
      BY <3>1, <3>2
  <2>2. 1..(n + 1) \subseteq T
    <3>. HIDE DEF T
    <3>1. n + 1 \in Nat
      BY <1>1
    <3>. QED
      BY <2>1, <3>1, Down
  <2>3. \A i \in 1..(n + 1) : M[i] \in Texts
    BY <2>2
  <2>. QED
    BY <1>11, <2>3
<1>15. IsMeant(src, M)
  BY <1>12, <1>13, <1>14 DEF IsMeant, n
<1>. QED
  BY <1>2, <1>15

\* Where no token begins, the text stays.
LEMMA MeantQuiet ==
  ASSUME NEW src \in Texts, NEW R, IsMeant(src, R), NEW i \in 1..(Len(src) + 1),
         NEW m \in i..(Len(src) + 1), \A k \in i..(m - 1) : Hit(src, k) = {}
  PROVE  R[i] = SubSeq(src, i, m - 1) \o R[m]
<1>. DEFINE n == Len(src)
            T == {k \in 1..m : k >= i => R[k] = SubSeq(src, k, m - 1) \o R[m]}
<1>1. n \in Nat /\ m \in Nat /\ m \in 1..(n + 1) /\ \A k \in 1..n : src[k] \in Character
  BY LenProperties, ElementOfSeq DEF Texts
<1>2. R[m] \in Texts
  BY <1>1 DEF IsMeant
<1>3. ASSUME NEW k \in 1..m, \A j \in (k + 1)..m : j \in T PROVE k \in T
  <2>. SUFFICES ASSUME k >= i PROVE R[k] = SubSeq(src, k, m - 1) \o R[m]
    OBVIOUS
  <2>1. CASE k = m
    <3>1. SubSeq(src, m, m - 1) = <<>>
      BY <1>1 DEF Texts
    <3>2. <<>> \o R[m] = R[m]
      BY <1>2 DEF Texts
    <3>. QED
      BY <2>1, <3>1, <3>2
  <2>2. CASE k # m
    <3>1. k \in 1..n /\ k \in i..(m - 1) /\ k + 1 \in (k + 1)..m /\ k + 1 >= i
      BY <1>1, <2>2
    <3>2. R[k] = <<src[k]>> \o R[k + 1]
      BY <3>1 DEF IsMeant
    <3>3. R[k + 1] = SubSeq(src, k + 1, m - 1) \o R[m]
      BY <1>3, <3>1
    <3>4. SubSeq(src, k, k) = <<src[k]>>
      <4>1. /\ k \in 1..(Len(src) + 1) /\ k \in (k - 1)..Len(src) /\ k - k + 1 = 1
            /\ 1 \in 1..1 /\ k + 1 - 1 = k
        BY <1>1, <3>1
      <4>2. SubSeq(src, k, k) \in Texts /\ Len(SubSeq(src, k, k)) = 1 /\ SubSeq(src, k, k)[1] = src[k]
        BY <4>1, PartIs DEF Texts
      <4>. QED
        BY <4>2, OneOnly DEF Texts
    <3>5. SubSeq(src, k, k) \o SubSeq(src, k + 1, m - 1) = SubSeq(src, k, m - 1)
      BY <1>1, <3>1, PartsJoin DEF Texts
    <3>6. <<src[k]>> \in Texts /\ SubSeq(src, k + 1, m - 1) \in Texts
      BY <1>1, <3>1 DEF Texts
    <3>7. <<src[k]>> \o (SubSeq(src, k + 1, m - 1) \o R[m])
            = (<<src[k]>> \o SubSeq(src, k + 1, m - 1)) \o R[m]
      <4>. DEFINE x == <<src[k]>>
                  y == SubSeq(src, k + 1, m - 1)
                  z == R[m]
      <4>. HIDE DEF x, y, z
      <4>1. x \in Seq(Character) /\ y \in Seq(Character) /\ z \in Seq(Character)
        BY <1>2, <3>6 DEF x, y, z, Texts
      <4>2. (x \o y) \o z = x \o (y \o z)
        BY <4>1, ConcatAssociative, SMTT(30)
      <4>. QED
        BY <4>2 DEF x, y, z
    <3>. QED
      BY <3>2, <3>3, <3>4, <3>5, <3>7
  <2>. QED
    BY <2>1, <2>2
<1>4. 1..m \subseteq T
  <2>. HIDE DEF T
  <2>. QED
    BY <1>1, <1>3, Down
<1>5. i \in 1..m /\ i >= i
  BY <1>1
<1>6. i \in T
  <2>. HIDE DEF T
  <2>. QED
    BY <1>4, <1>5
<1>. QED
  BY <1>5, <1>6

--------------------------------------------------------------------------------
(* The tokenizer: its pieces.                                                   *)

\* From i on no prefix has room for a suffix; where the next one is; and what follows it.
Ended(src, i) == Len(src) - i + 1 <= Len(Prefix) + Len(Suffix) \/ Starts(src, i) = {}
At(src, i) == Min(Starts(src, i))
Behind(src, i) == At(src, i) + Len(Prefix)
Taken(src, i) == Entities[Min(Hits(src, Behind(src, i)))]
Onward(src, i) ==
  IF Hits(src, Behind(src, i)) = {} THEN Behind(src, i)
  ELSE Behind(src, i) + Len(Taken(src, i).match) + Len(Suffix)
Instead(src, i) == IF Hits(src, Behind(src, i)) = {} THEN Prefix ELSE Taken(src, i).replace

\* Prefix and suffix are texts that are not empty.
LEMMA MarksAre ==
  /\ Prefix \in Texts /\ Suffix \in Texts /\ Len(Prefix) = 1 /\ Len(Suffix) \in Nat \ {0}
BY TokenizerAssumption, EmptySeq DEF Texts

\* What is taken at a prefix is what is meant there.
LEMMA HitIs ==
  ASSUME NEW src \in Texts, NEW i \in 1..Len(src)
  PROVE  /\ Has(src, i, Prefix) => Hits(src, i + 1) = Hit(src, i)
         /\ Hit(src, i) # {} =>
              Has(src, i, Prefix) /\ i <= Len(src) - Len(Prefix) - Len(Suffix)
<1>1. Len(src) \in Nat /\ i \in 1..(Len(src) + 1)
  BY DEF Texts
<1>2. ASSUME NEW e \in DOMAIN Entities
      PROVE  /\ Has(src, i, Token(e)) <=>
                  Has(src, i, Prefix) /\ Has(src, i + 1, Entities[e].match \o Suffix)
             /\ Has(src, i, Token(e)) => i <= Len(src) - Len(Prefix) - Len(Suffix)
  <2>. DEFINE w == Entities[e].match \o Suffix
  <2>1. /\ Token(e) = Prefix \o w /\ w \in Texts /\ Len(Entities[e].match) \in Nat \ {0}
        /\ Len(Token(e)) = 1 + Len(Entities[e].match) + Len(Suffix)
    BY EntityIs
  <2>. HIDE DEF w
  <2>2. Has(src, i, Prefix \o w) <=> Has(src, i, Prefix) /\ Has(src, i + Len(Prefix), w)
    BY <1>1, <2>1, MarksAre, HasJoin DEF Texts
  <2>3. Has(src, i, Token(e)) => i + Len(Token(e)) - 1 <= Len(src)
    BY DEF Has
  <2>4. Has(src, i, Token(e)) => i <= Len(src) - Len(Prefix) - Len(Suffix)
    BY <1>1, <2>1, <2>3, MarksAre
  <2>. QED
    BY <2>1, <2>2, <2>4, MarksAre DEF w
<1>3. ASSUME Has(src, i, Prefix) PROVE Hits(src, i + 1) = Hit(src, i)
  BY <1>2, <1>3 DEF Hits, Hit
<1>4. ASSUME Hit(src, i) # {}
      PROVE  Has(src, i, Prefix) /\ i <= Len(src) - Len(Prefix) - Len(Suffix)
  BY <1>2, <1>4 DEF Hit
<1>. QED
  BY <1>3, <1>4

\* Before the next prefix, and behind the last, nothing is meant to be replaced.
LEMMA StartIs ==
  ASSUME NEW src \in Texts, NEW i \in 1..(Len(src) + 1)
  PROVE  /\ Ended(src, i) => \A k \in i..Len(src) : Hit(src, k) = {}
         /\ ~ Ended(src, i) =>
              /\ At(src, i) \in i..Len(src) /\ Has(src, At(src, i), Prefix)
              /\ \A k \in i..(At(src, i) - 1) : Hit(src, k) = {}
<1>. DEFINE top == Len(src) - Len(Prefix) - Len(Suffix) + 1
<1>1. Len(src) \in Nat /\ Len(Prefix) = 1 /\ Len(Suffix) \in Nat \ {0}
  BY MarksAre DEF Texts
<1>2. ASSUME NEW k \in i..Len(src), Hit(src, k) # {}
      PROVE  k \in Starts(src, i) /\ k <= Len(src) - Len(Prefix) - Len(Suffix)
  <2>1. k \in 1..Len(src)
    BY <1>1
  <2>2. Has(src, k, Prefix) /\ k <= Len(src) - Len(Prefix) - Len(Suffix)
    BY <1>2, <2>1, HitIs
  <2>3. k \in i..top
    BY <1>1, <2>2
  <2>. QED
    BY <2>2, <2>3 DEF Starts
<1>3. ASSUME Ended(src, i), NEW k \in i..Len(src), Hit(src, k) # {} PROVE FALSE
  <2>1. k \in Starts(src, i) /\ k <= Len(src) - Len(Prefix) - Len(Suffix)
    BY <1>2, <1>3
  <2>2. ~ (Len(src) - i + 1 <= Len(Prefix) + Len(Suffix))
    BY <1>1, <2>1
  <2>. QED
    BY <1>3, <2>1, <2>2 DEF Ended
<1>4. ASSUME ~ Ended(src, i)
      PROVE  /\ At(src, i) \in i..Len(src) /\ Has(src, At(src, i), Prefix)
             /\ \A k \in i..(At(src, i) - 1) : Hit(src, k) = {}
  <2>1. Starts(src, i) \in SUBSET Nat /\ Starts(src, i) # {}
    BY <1>1, <1>4 DEF Starts, Ended
  <2>2. At(src, i) \in Starts(src, i) /\ \A k \in Starts(src, i) : At(src, i) <= k
    BY <2>1, MinIn DEF At
  <2>3. At(src, i) \in i..top /\ Has(src, At(src, i), Prefix)
    BY <2>2 DEF Starts
  <2>4. At(src, i) \in i..Len(src)
    BY <1>1, <2>3
  <2>5. ASSUME NEW k \in i..(At(src, i) - 1) PROVE Hit(src, k) = {}
    <3>1. k \in i..Len(src) /\ ~ (At(src, i) <= k)
      BY <1>1, <2>4
    <3>. QED
      BY <1>2, <2>2, <3>1
  <2>. QED
    BY <2>3, <2>4, <2>5
<1>. QED
  BY <1>3, <1>4

\* What comes next in the text, and what is copied instead of it.
LEMMA OnwardIs ==
  ASSUME NEW src \in Texts, NEW i \in 1..(Len(src) + 1), ~ Ended(src, i)
  PROVE  /\ Onward(src, i) \in (i + 1)..(Len(src) + 1) /\ Instead(src, i) \in Texts
         /\ SubSeq(src, i, At(src, i) - 1) \in Texts /\ i \in 1..Len(src)
         /\ \A R : IsMeant(src, R) => R[At(src, i)] = Instead(src, i) \o R[Onward(src, i)]
<1>. DEFINE m == At(src, i)
<1>1. m \in i..Len(src) /\ Has(src, m, Prefix) /\ Behind(src, i) = m + 1
  BY StartIs, MarksAre DEF Behind
<1>2. Len(src) \in Nat /\ m \in 1..Len(src) /\ i \in 1..Len(src)
  BY <1>1 DEF Texts
<1>3. SubSeq(src, i, m - 1) \in Texts
  <2>1. m - 1 \in (i - 1)..Len(src)
    BY <1>1, <1>2
  <2>. HIDE DEF m
  <2>. QED
    BY <2>1, PartIs DEF Texts
<1>. HIDE DEF m
<1>4. Hits(src, m + 1) = Hit(src, m)
  BY <1>1, <1>2, HitIs
<1>5. CASE Hit(src, m) = {}
  <2>1. Onward(src, i) = m + 1 /\ Instead(src, i) = Prefix
    BY <1>1, <1>4, <1>5 DEF Onward, Instead
  <2>2. Prefix = <<src[m]>>
    <3>1. src \in Seq(Character) /\ m \in 1..(Len(src) + 1) /\ Prefix \in Seq(Character)
      BY <1>2, MarksAre DEF Texts
    <3>2. \A k \in 1..Len(Prefix) : src[m + k - 1] = Prefix[k]
      BY <1>1, <3>1, HasIs
    <3>3. 1 \in 1..Len(Prefix) /\ m + 1 - 1 = m
      BY <1>2, MarksAre
    <3>4. src[m] = Prefix[1] /\ Prefix = <<Prefix[1]>>
      BY <3>1, <3>2, <3>3, MarksAre, OneOnly
    <3>. QED
      BY <3>4
  <2>3. m + 1 \in (i + 1)..(Len(src) + 1)
    BY <1>1, <1>2
  <2>4. ASSUME NEW R, IsMeant(src, R) PROVE R[m] = <<src[m]>> \o R[m + 1]
    BY <1>2, <1>5, <2>4 DEF IsMeant
  <2>. QED
    BY <1>2, <1>3, <2>1, <2>2, <2>3, <2>4, MarksAre DEF m
<1>6. CASE Hit(src, m) # {}
  <2>. DEFINE e == First(src, m)
  <2>1. e \in DOMAIN Entities /\ m + Len(Token(e)) \in (m + 1)..(Len(src) + 1)
    BY <1>2, <1>6, FirstIs
  <2>2. Taken(src, i) = Entities[e]
    BY <1>1, <1>4 DEF Taken, First
  <2>. HIDE DEF e
  <2>3. Len(Token(e)) = 1 + Len(Entities[e].match) + Len(Suffix) /\ Entities[e].replace \in Texts
        /\ Len(Entities[e].match) \in Nat
    BY <2>1, EntityIs
  <2>4. Onward(src, i) = m + Len(Token(e)) /\ Instead(src, i) = Entities[e].replace
    <3>1. Onward(src, i) = m + 1 + Len(Entities[e].match) + Len(Suffix)
          /\ Instead(src, i) = Entities[e].replace
      BY <1>1, <1>4, <1>6, <2>2 DEF Onward, Instead
    <3>2. \A x, y, z \in Nat : x + 1 + y + z = x + (1 + y + z)
      OBVIOUS
    <3>3. m \in Nat /\ Len(Suffix) \in Nat
      BY <1>2, MarksAre
    <3>4. m + 1 + Len(Entities[e].match) + Len(Suffix) = m + (1 + Len(Entities[e].match) + Len(Suffix))
      BY <2>3, <3>2, <3>3
    <3>. QED
      BY <2>3, <3>1, <3>4
  <2>5. Onward(src, i) \in (i + 1)..(Len(src) + 1)
    BY <1>1, <1>2, <2>1, <2>4
  <2>6. ASSUME NEW R, IsMeant(src, R) PROVE R[m] = Entities[e].replace \o R[m + Len(Token(e))]
    BY <1>2, <1>6, <2>6 DEF IsMeant, e
  <2>. QED
    BY <1>2, <1>3, <2>3, <2>4, <2>5, <2>6 DEF m
<1>. QED
  BY <1>5, <1>6

\* P[i] are the pieces from i on.
ArePieces(src, P) ==
  /\ P \in [1..(Len(src) + 1) -> Seq(Texts)]
  /\ \A i \in 1..(Len(src) + 1) :
       P[i] = IF Ended(src, i) THEN <<Rest(src, i)>>
              ELSE <<SubSeq(src, i, At(src, i) - 1)>> \o (<<Instead(src, i)>> \o P[Onward(src, i)])

\* The pieces the tokenizer copies, from the end of the source back to its start.
LEMMA PiecesFall ==
  ASSUME NEW src \in Texts
  PROVE  \E P : ArePieces(src, P) /\ Pieces(src) = P[1]
<1>. DEFINE n == Len(src)
            before(i) == SubSeq(src, i, At(src, i) - 1)
            N(f) == [i \in 1..(n + 1) |->
                       IF Ended(src, i) THEN <<Rest(src, i)>>
                       ELSE <<before(i)>> \o
                            IF Hits(src, Behind(src, i)) = {} THEN <<Prefix>> \o f[Behind(src, i)]
                            ELSE <<Taken(src, i).replace>> \o
                                 f[Behind(src, i) + Len(Taken(src, i).match) + Len(Suffix)]]
            R(f) == [i \in 1..(n + 1) |->
                       IF Ended(src, i) THEN <<Rest(src, i)>>
                       ELSE <<before(i)>> \o (<<Instead(src, i)>> \o f[Onward(src, i)])]
            M == CHOOSE f : f = N(f)
            ends == {i \in 1..(n + 1) : Ended(src, i)}
            next == [i \in 1..n |-> IF Ended(src, i) THEN i + 1 ELSE Onward(src, i)]
            Made(i, x) == IF Ended(src, i) THEN x ELSE <<before(i)>> \o (<<Instead(src, i)>> \o x)
            G == [p \in (1..n) \X Seq(Texts) |-> Made(p[1], p[2])]
            v == [i \in 1..(n + 1) |-> <<Rest(src, i)>>]
<1>1. n \in Nat
  BY DEF Texts
<1>2. Pieces(src) = M[1]
  BY DEF Pieces, Ended, At, Behind, Taken
<1>3. \A f : N(f) = R(f)
  <2>. SUFFICES ASSUME NEW f, NEW i \in 1..(n + 1)
                PROVE  (IF Hits(src, Behind(src, i)) = {} THEN <<Prefix>> \o f[Behind(src, i)]
                        ELSE <<Taken(src, i).replace>> \o
                             f[Behind(src, i) + Len(Taken(src, i).match) + Len(Suffix)])
                       = <<Instead(src, i)>> \o f[Onward(src, i)]
    OBVIOUS
  <2>. QED
    BY DEF Instead, Onward
<1>. HIDE DEF N
<1>4. \A i \in 1..(n + 1) : ~ Ended(src, i) =>
        /\ i \in 1..n /\ Onward(src, i) \in (i + 1)..(n + 1) /\ Instead(src, i) \in Texts
        /\ before(i) \in Texts
  BY OnwardIs
<1>. HIDE DEF before
<1>5. n + 1 \in ends
  <2>1. n + 1 \in 1..(n + 1) /\ n + 1 \notin 1..n
    BY <1>1
  <2>. QED
    BY <1>4, <2>1
<1>6. next \in [1..n -> 1..(n + 1)] /\ \A i \in 1..n : i < next[i]
  <2>1. \A i \in 1..n : i \in 1..(n + 1) /\ i + 1 \in (i + 1)..(n + 1)
    BY <1>1
  <2>2. \A i \in 1..n : next[i] \in (i + 1)..(n + 1)
    BY <1>4, <2>1
  <2>3. \A i \in 1..n : \A k \in (i + 1)..(n + 1) : k \in 1..(n + 1) /\ i < k
    BY <1>1
  <2>. HIDE DEF n
  <2>. QED
    BY <2>2, <2>3
<1>7. v \in [1..(n + 1) -> Seq(Texts)]
  <2>1. ASSUME NEW i \in 1..(n + 1) PROVE Rest(src, i) \in Texts
    <3>1. src \in Seq(Character) /\ i \in 1..(Len(src) + 1) /\ Len(src) \in (i - 1)..Len(src)
      BY <1>1 DEF Texts
    <3>. QED
      BY <3>1, PartIs DEF Rest, Texts
  <2>2. \A t \in Texts : <<t>> \in Seq(Texts)
    OBVIOUS
  <2>. HIDE DEF n
  <2>. QED
    BY <2>1, <2>2
<1>8. \A i \in 1..(n + 1), x \in Seq(Texts) : Made(i, x) \in Seq(Texts)
  <2>. SUFFICES ASSUME NEW i \in 1..(n + 1), NEW x \in Seq(Texts) PROVE Made(i, x) \in Seq(Texts)
    OBVIOUS
  <2>1. \A t \in Texts, y \in Seq(Texts) : <<t>> \o y \in Seq(Texts)
    OBVIOUS
  <2>. HIDE DEF n
  <2>. QED
    BY <1>4, <2>1
<1>. HIDE DEF Made
<1>9. G \in Steps(n, Seq(Texts)) /\ \A i \in 1..n, x \in Seq(Texts) : G[<<i, x>>] = Made(i, x)
  BY <1>1, <1>8 DEF Steps
<1>. HIDE DEF n, next, G, v, ends
<1>10. PICK f : Falls(f, Seq(Texts), n, next, ends, v, G)
  BY <1>1, <1>5, <1>6, <1>7, <1>9, Falling
<1>11. \A i \in 1..(n + 1) : (i \in ends <=> Ended(src, i)) /\ (i \notin ends => i \in 1..n)
  BY <1>4 DEF ends
<1>12. ASSUME NEW g \in [1..(n + 1) -> Seq(Texts)],
              \A i \in 1..(n + 1) : g[i] = IF i \in ends THEN v[i] ELSE G[<<i, g[next[i]]>>]
       PROVE  g = R(g)
  <2>1. ASSUME NEW i \in 1..(n + 1), i \notin ends
        PROVE  g[i] = <<before(i)>> \o (<<Instead(src, i)>> \o g[Onward(src, i)])
    <3>1. i \in 1..n /\ ~ Ended(src, i) /\ g[next[i]] \in Seq(Texts) /\ next[i] = Onward(src, i)
      BY <1>6, <1>11, <2>1 DEF next
    <3>. QED
      BY <1>9, <1>12, <2>1, <3>1 DEF Made
  <2>2. ASSUME NEW i \in 1..(n + 1), i \in ends PROVE g[i] = <<Rest(src, i)>>
    BY <1>12, <2>2 DEF v
  <2>. QED
    BY <1>11, <2>1, <2>2
<1>13. f = N(f)
  <2>1. f \in [1..(n + 1) -> Seq(Texts)]
        /\ \A i \in 1..(n + 1) : f[i] = IF i \in ends THEN v[i] ELSE G[<<i, f[next[i]]>>]
    BY <1>10 DEF Falls
  <2>2. f = R(f)
    BY <1>12, <2>1
  <2>. QED
    BY <1>3, <2>2
<1>14. M = N(M)
  BY <1>13
<1>. HIDE DEF M
<1>15. M = R(M)
  BY <1>3, <1>14
<1>16. DOMAIN M = 1..(n + 1)
       /\ \A i \in 1..(n + 1) : M[i] = IF Ended(src, i) THEN <<Rest(src, i)>>
                                       ELSE <<before(i)>> \o (<<Instead(src, i)>> \o M[Onward(src, i)])
  BY <1>15
<1>17. M \in [1..(n + 1) -> Seq(Texts)]
  <2>. DEFINE T == {i \in 1..(n + 1) : M[i] \in Seq(Texts)}
  <2>1. ASSUME NEW i \in 1..(n + 1), \A j \in (i + 1)..(n + 1) : j \in T PROVE i \in T
    <3>1. CASE Ended(src, i)
      <4>1. v[i] \in Seq(Texts) /\ v[i] = <<Rest(src, i)>>
        BY <1>7 DEF v
      <4>. QED
        BY <1>16, <3>1, <4>1
    <3>2. CASE ~ Ended(src, i)
      <4>1. M[Onward(src, i)] \in Seq(Texts)
        BY <1>4, <2>1, <3>2 DEF n
      <4>2. M[i] = Made(i, M[Onward(src, i)])
        BY <1>16, <3>2 DEF Made
      <4>. QED
        BY <1>8, <4>1, <4>2
    <3>. QED
      BY <3>1, <3>2
  <2>2. 1..(n + 1) \subseteq T
    <3>. HIDE DEF T
    <3>1. n + 1 \in Nat
      BY <1>1
    <3>. QED
      BY <2>1, <3>1, Down
  <2>3. \A i \in 1..(n + 1) : M[i] \in Seq(Texts)
    BY <2>2
  <2>. QED
    BY <1>15, <2>3
<1>18. ArePieces(src, M)
  BY <1>16, <1>17 DEF ArePieces, n, before
<1>. QED
  BY <1>2, <1>18

Regroup(t, x, y, r) == ((t \o x) \o y) \o r = t \o (x \o (y \o r))

\* A text cut in two places, with what stands for the part between them.
LEMMA Regrouped == \A t, x, y, r \in Texts : Regroup(t, x, y, r)
<1>. SUFFICES ASSUME NEW t \in Seq(Character), NEW x \in Seq(Character),
                     NEW y \in Seq(Character), NEW r \in Seq(Character)
              PROVE  ((t \o x) \o y) \o r = t \o (x \o (y \o r))
  BY DEF Texts, Regroup
<1>. DEFINE tx == t \o x
            yr == y \o r
<1>1. tx \in Seq(Character) /\ yr \in Seq(Character)
  BY JoinIs
<1>2. tx \o yr = t \o (x \o yr)
  <2>. HIDE DEF yr
  <2>. QED
    BY <1>1, ConcatAssociative, SMTT(30)
<1>. HIDE DEF tx
<1>3. (tx \o y) \o r = tx \o (y \o r)
  BY <1>1, ConcatAssociative, SMTT(30)
<1>. QED
  BY <1>2, <1>3 DEF tx, yr

\* The pieces, copied one after the other, are what is meant: from any place on, and so from the first.
LEMMA PiecesMeant ==
  ASSUME NEW src \in Texts, NEW empty \in Buffers
  PROVE  Copied(empty, Pieces(src)).text = empty.text \o Meant(src) /\ Meant(src) \in Texts
<1>1. PICK P : ArePieces(src, P) /\ Pieces(src) = P[1]
  BY PiecesFall
<1>2. PICK R : IsMeant(src, R) /\ Meant(src) = R[1]
  BY MeantFalls
<1>. DEFINE n == Len(src)
            T == {i \in 1..(n + 1) : \A b \in Buffers : Copied(b, P[i]).text = b.text \o R[i]}
<1>3. n \in Nat /\ n + 1 \in Nat /\ R[n + 1] = <<>>
      /\ \A i \in 1..(n + 1) : R[i] \in Texts /\ P[i] \in Seq(Texts)
  <2>1. n \in Nat
    BY DEF Texts
  <2>. HIDE DEF n
  <2>. QED
    BY <1>1, <1>2, <2>1 DEF n, IsMeant, ArePieces
<1>4. ASSUME NEW i \in 1..(n + 1), \A j \in (i + 1)..(n + 1) : j \in T PROVE i \in T
  <2>. SUFFICES ASSUME NEW b \in Buffers PROVE Copied(b, P[i]).text = b.text \o R[i]
    OBVIOUS
  <2>0. b.text \in Texts
    BY DEF Buffers
  <2>1. CASE Ended(src, i)
    <3>1. P[i] = <<Rest(src, i)>> /\ Rest(src, i) = SubSeq(src, i, n)
      BY <1>1, <2>1 DEF ArePieces, Rest
    <3>2. SubSeq(src, i, n) \in Texts
      <4>1. src \in Seq(Character) /\ i \in 1..(Len(src) + 1) /\ n \in (i - 1)..Len(src)
        BY <1>3 DEF Texts
      <4>. QED
        BY <4>1, PartIs DEF Texts
    <3>3. R[i] = SubSeq(src, i, n) \o R[n + 1]
      <4>. DEFINE m == n + 1
      <4>1. m \in i..(Len(src) + 1) /\ m - 1 = n
        BY <1>3
      <4>2. \A k \in i..n : Hit(src, k) = {}
        BY <2>1, StartIs
      <4>. HIDE DEF m
      <4>3. \A k \in i..(m - 1) : Hit(src, k) = {}
        BY <4>1, <4>2
      <4>4. R[i] = SubSeq(src, i, m - 1) \o R[m]
        BY <4>1, <4>3, <1>2, MeantQuiet
      <4>5. SubSeq(src, i, m - 1) = SubSeq(src, i, n)
        BY <4>1
      <4>. QED
        BY <4>4, <4>5 DEF m
    <3>4. R[i] = SubSeq(src, i, n)
      BY <1>3, <3>2, <3>3 DEF Texts
    <3>. DEFINE x == SubSeq(src, i, n)
    <3>. HIDE DEF x, n
    <3>5. x \in Texts /\ R[i] = x /\ P[i] = <<x>>
      BY <3>1, <3>2, <3>4 DEF x
    <3>6. Copied(b, P[i]) = GrowCopy(b, x)
      BY <3>5, CopyOne
    <3>7. GrowCopy(b, x).text = b.text \o x
      BY <3>5, GrowCopyIs
    <3>. QED
      BY <3>5, <3>6, <3>7
  <2>2. CASE ~ Ended(src, i)
    <3>. DEFINE m == At(src, i)
                k == Onward(src, i)
                x == SubSeq(src, i, m - 1)
                y == Instead(src, i)
                c == GrowCopy(b, x)
                d == GrowCopy(c, y)
    <3>1. k \in (i + 1)..(n + 1) /\ y \in Texts /\ x \in Texts /\ i \in 1..n /\ R[m] = y \o R[k]
      BY <1>2, <2>2, OnwardIs
    <3>2. R[i] = x \o R[m]
      <4>1. m \in i..n /\ \A j \in i..(m - 1) : Hit(src, j) = {}
        BY <2>2, StartIs
      <4>2. m \in i..(Len(src) + 1)
        BY <1>3, <4>1
      <4>. HIDE DEF m
      <4>. QED
        BY <4>1, <4>2, <1>2, MeantQuiet
    <3>3. P[i] = <<x>> \o (<<y>> \o P[k])
      BY <1>1, <2>2 DEF ArePieces
    <3>4. k \in 1..(n + 1) /\ k \in T
      BY <1>4, <3>1
    <3>5. P[k] \in Seq(Texts) /\ R[k] \in Texts
      BY <1>3, <3>4
    <3>6. <<y>> \o P[k] \in Seq(Texts)
      <4>1. \A t \in Texts, q \in Seq(Texts) : <<t>> \o q \in Seq(Texts)
        OBVIOUS
      <4>. QED
        BY <3>1, <3>5, <4>1
    <3>. HIDE DEF x, y, k, T
    <3>7. c \in Buffers /\ c.text = b.text \o x
      BY <3>1, GrowCopyIs
    <3>. HIDE DEF c
    <3>8. d \in Buffers /\ d.text = c.text \o y
      BY <3>1, <3>7, GrowCopyIs
    <3>. HIDE DEF d
    <3>9. Copied(b, P[i]) = Copied(c, <<y>> \o P[k])
      BY <3>1, <3>3, <3>6, CopyFirst, ZenonT(60) DEF c
    <3>10. Copied(c, <<y>> \o P[k]) = Copied(d, P[k])
      BY <3>1, <3>5, <3>7, CopyFirst DEF d
    <3>11. Copied(d, P[k]).text = d.text \o R[k]
      BY <3>4, <3>8 DEF T
    <3>12. ((b.text \o x) \o y) \o R[k] = b.text \o (x \o (y \o R[k]))
      <4>. DEFINE t == b.text
                  r == R[k]
      <4>1. t \in Texts /\ x \in Texts /\ y \in Texts /\ r \in Texts
        BY <2>0, <3>1, <3>5
      <4>. HIDE DEF t, r
      <4>2. Regroup(t, x, y, r)
        BY <4>1, Regrouped
      <4>. QED
        BY <4>2, Zenon DEF t, r, Regroup
    <3>. QED
      BY <3>1, <3>2, <3>7, <3>8, <3>9, <3>10, <3>11, <3>12
  <2>. QED
    BY <2>1, <2>2
<1>5. 1..(n + 1) \subseteq T
  <2>. HIDE DEF T
  <2>. QED
    BY <1>3, <1>4, Down
<1>6. 1 \in 1..(n + 1)
  BY <1>3
<1>. QED
  BY <1>1, <1>2, <1>3, <1>5, <1>6

\* tokenize_string makes what is meant, of any text, however the buffer grows.
LEMMA TokenizeMeant == \A src \in Texts : TokenizeString(src).text = Meant(src)
<1>. SUFFICES ASSUME NEW src \in Texts PROVE TokenizeString(src).text = Meant(src)
  OBVIOUS
<1>. DEFINE empty == EmptyBuffer(src)
<1>1. empty \in Buffers /\ empty.text = <<>>
  <2>1. Len(src) \in Nat /\ <<>> \in Texts /\ Len(<<>>) = 0 /\ GrowSize \in Nat \ {0}
    BY TokenizerAssumption, EmptySeq DEF Texts
  <2>. QED
    BY <2>1 DEF Buffers, EmptyBuffer, DestSize
<1>2. TokenizeString(src) = Copied(empty, Pieces(src))
  BY DEF TokenizeString, Copied
<1>. HIDE DEF empty
<1>3. Copied(empty, Pieces(src)).text = empty.text \o Meant(src) /\ Meant(src) \in Texts
  BY <1>1, PiecesMeant
<1>4. <<>> \o Meant(src) = Meant(src)
  BY <1>3 DEF Texts
<1>. QED
  BY <1>1, <1>2, <1>3, <1>4

--------------------------------------------------------------------------------
(* The version of a driver as one number.                                       *)
Packed == Nat
Packs(v, f) == v * Field + f

\* The number a version is packed into, field by field.
LEMMA PackFollows ==
  ASSUME NEW a \in Seq(Fields)
  PROVE  \E L \in [0..Len(a) -> Packed] :
           /\ L[0] = 0 /\ \A k \in 1..Len(a) : L[k] = Packs(L[k - 1], a[k])
           /\ PackVersion(a) = L[Len(a)]
<1>. DEFINE n == Len(a)
            zero == 0
            R(f) == [s \in SUBSET (1..n) |-> IF s = {} THEN zero ELSE Packs(f[s \ {Max(s)}], a[Max(s)])]
            M == CHOOSE f : f = R(f)
            F == [p \in (1..n) \X Packed |-> Packs(p[2], a[p[1]])]
<1>1. n \in Nat /\ DOMAIN a = 1..n /\ \A i \in 1..n : a[i] \in Fields
  BY LenProperties, ElementOfSeq
<1>2. PackVersion(a) = M[1..n]
  BY <1>1 DEF PackVersion, FoldLeft, MapThenFoldSet, Packs
<1>3. zero \in Packed /\ \A v \in Packed, f \in Fields : Packs(v, f) \in Packed
  BY DeviceListAssumption DEF Packs, Fields, Packed
<1>4. F \in Steps(n, Packed)
  BY <1>1, <1>3 DEF Steps
<1>5. \A k \in 1..n, x \in Packed : F[<<k, x>>] = Packs(x, a[k])
  OBVIOUS
<1>. HIDE DEF n, F, zero
<1>6. PICK f : IsFold(f, Packed, zero, n, F)
  <2>1. n \in Nat /\ zero \in Packed
    BY <1>1, <1>3
  <2>. QED
    BY <2>1, <1>4, FoldExists
<1>7. f = R(f)
  <2>1. ASSUME NEW s \in SUBSET (1..n), s # {}
        PROVE  f[s] = Packs(f[s \ {Max(s)}], a[Max(s)])
    <3>1. Max(s) \in 1..n /\ f[s \ {Max(s)}] \in Packed
      BY <1>1, <1>6, <2>1, MaxIn DEF IsFold
    <3>. QED
      BY <1>5, <1>6, <2>1, <3>1 DEF IsFold
  <2>. QED
    BY <1>6, <2>1 DEF IsFold
<1>8. M = R(M)
  BY <1>7
<1>. HIDE DEF M
<1>9. M[{}] = zero
  BY <1>8
<1>10. ASSUME NEW k \in 1..n, M[1..(k - 1)] \in Packed
       PROVE  M[1..k] = F[<<k, M[1..(k - 1)]>>]
  <2>1. 1..k \in SUBSET (1..n) /\ 1..k # {} /\ Max(1..k) = k /\ (1..k) \ {k} = 1..(k - 1)
    BY <1>1, FirstOnes
  <2>2. M[1..k] = Packs(M[1..(k - 1)], a[k])
    BY <1>8, <2>1
  <2>. QED
    BY <1>5, <1>10, <2>2
<1>a. PICK L : Goes(L, M, Packed, zero, n, F)
  <2>1. n \in Nat
    BY <1>1
  <2>2. zero \in Packed
    BY <1>3
  <2>3. Folded(M, Packed, zero, n, F)
    BY <1>9, <1>10 DEF Folded
  <2>. QED
    BY <1>4, <2>1, <2>2, <2>3, FoldedSteps
<1>11. /\ L \in [0..n -> Packed]
       /\ L[0] = zero /\ L[n] = M[1..n] /\ \A k \in 1..n : L[k] = F[<<k, L[k - 1]>>]
  BY <1>a DEF Goes
<1>12. \A k \in 1..n : L[k - 1] \in Packed
  BY <1>1, <1>11
<1>. QED
  BY <1>2, <1>5, <1>11, <1>12 DEF n, zero

\* A field decides only between versions that are the same before it.
LEMMA PacksKeep ==
  ASSUME NEW v \in Nat, NEW w \in Nat, NEW f \in Fields, NEW g \in Fields
  PROVE  /\ Packs(v, f) < Packs(w, g) <=> v < w \/ (v = w /\ f < g)
         /\ Packs(v, f) = Packs(w, g) <=> v = w /\ f = g
<1>1. Field \in Nat /\ f \in 0..(Field - 1) /\ g \in 0..(Field - 1)
  BY DeviceListAssumption DEF Fields
<1>2. \A x, y \in Nat : x < y => x * Field + Field <= y * Field
  <2>. SUFFICES ASSUME NEW x \in Nat, NEW y \in Nat, x < y PROVE x * Field + Field <= y * Field
    OBVIOUS
  <2>. DEFINE d == y - x - 1
  <2>1. d \in Nat /\ y = x + 1 + d
    OBVIOUS
  <2>. HIDE DEF d
  <2>2. y * Field = x * Field + Field + d * Field /\ d * Field \in Nat /\ x * Field \in Nat
    BY <1>1, <2>1
  <2>. QED
    BY <1>1, <2>2
<1>3. v * Field \in Nat /\ w * Field \in Nat
  BY <1>1
<1>4. (v < w => v * Field + Field <= w * Field) /\ (w < v => w * Field + Field <= v * Field)
  BY <1>2
<1>5. v = w => v * Field = w * Field
  OBVIOUS
<1>. DEFINE vf == v * Field
            wf == w * Field
<1>. HIDE DEF vf, wf
<1>6. vf \in Nat /\ wf \in Nat /\ (v < w => vf + Field <= wf) /\ (w < v => wf + Field <= vf) /\ (v = w => vf = wf)
  BY <1>3, <1>4, <1>5 DEF vf, wf
<1>7. Packs(v, f) = vf + f /\ Packs(w, g) = wf + g
  BY DEF Packs, vf, wf
<1>. QED
  BY <1>1, <1>6, <1>7

\* Two versions of as many fields compare as their numbers do.
LEMMA PackMeant ==
  ASSUME NEW a \in Seq(Fields), NEW b \in Seq(Fields), Len(a) = Len(b)
  PROVE  PackVersion(a) < PackVersion(b) <=> Less(a, b)
<1>. DEFINE n == Len(a)
            Same(k) == \A j \in 1..k : a[j] = b[j]
            Before(k) == \E i \in 1..k : a[i] < b[i] /\ Same(i - 1)
<1>1. n \in Nat /\ DOMAIN a = 1..n /\ \A i \in 1..n : a[i] \in Fields /\ b[i] \in Fields
  <2>1. n \in Nat /\ DOMAIN a = 1..n /\ DOMAIN b = 1..n
    BY LenProperties
  <2>. QED
    BY <2>1, ElementOfSeq
<1>2. PICK A \in [0..n -> Nat] :
        A[0] = 0 /\ (\A k \in 1..n : A[k] = Packs(A[k - 1], a[k])) /\ PackVersion(a) = A[n]
  BY PackFollows DEF Packed
<1>3. PICK B \in [0..n -> Nat] :
        B[0] = 0 /\ (\A k \in 1..n : B[k] = Packs(B[k - 1], b[k])) /\ PackVersion(b) = B[n]
  BY PackFollows DEF Packed
<1>. DEFINE T == {k \in 0..n : (A[k] < B[k] <=> Before(k)) /\ (A[k] = B[k] <=> Same(k))}
<1>4. Less(a, b) <=> Before(n)
  BY <1>1 DEF Less
<1>. HIDE DEF n
<1>5. 0 \in T
  <2>1. 1..0 = {} /\ 0 \in 0..n
    BY <1>1
  <2>. QED
    BY <1>2, <1>3, <2>1
<1>6. ASSUME NEW k \in 1..n, k - 1 \in T PROVE k \in T
  <2>1. \A i : i \in 1..k <=> i \in 1..(k - 1) \/ i = k
    OBVIOUS
  <2>2. Same(k) <=> Same(k - 1) /\ a[k] = b[k]
    BY <2>1
  <2>. HIDE DEF Same
  <2>3. Before(k) <=> Before(k - 1) \/ (a[k] < b[k] /\ Same(k - 1))
    BY <2>1
  <2>. HIDE DEF Before
  <2>4. /\ A[k] = Packs(A[k - 1], a[k]) /\ B[k] = Packs(B[k - 1], b[k])
        /\ a[k] \in Fields /\ b[k] \in Fields /\ A[k - 1] \in Nat /\ B[k - 1] \in Nat
    <3>1. k - 1 \in 0..n
      BY <1>1
    <3>. QED
      BY <1>1, <1>2, <1>3, <3>1
  <2>5. /\ Packs(A[k - 1], a[k]) < Packs(B[k - 1], b[k])
             <=> A[k - 1] < B[k - 1] \/ (A[k - 1] = B[k - 1] /\ a[k] < b[k])
        /\ Packs(A[k - 1], a[k]) = Packs(B[k - 1], b[k]) <=> A[k - 1] = B[k - 1] /\ a[k] = b[k]
    BY <2>4, PacksKeep
  <2>6. k \in 0..n
    BY <1>1
  <2>. QED
    BY <1>6, <2>2, <2>3, <2>4, <2>5, <2>6
<1>7. n \in T
  <2>. HIDE DEF T
  <2>1. 0..n \subseteq T
    BY <1>1, <1>5, <1>6, UpTo
  <2>. QED
    BY <1>1, <2>1
<1>. HIDE DEF Before, Same
<1>. QED
  BY <1>2, <1>3, <1>4, <1>7

--------------------------------------------------------------------------------
(* The list of devices.                                                         *)
Asking == [list_all : BOOLEAN, list_hubs : BOOLEAN]
Elements == [device : Nat, vid : Nat, is_composite : BOOLEAN, mi : Nat, unknown : Nat, parent : BOOLEAN]
Listings == [list : Seq(Elements), unknown : Nat]
Listing == [list |-> <<>>, unknown |-> 1]
Lists1(devices, o, acc, i) == IF LeftOut(devices[i], o) THEN acc ELSE OneDevice(acc, devices[i], i)

\* The element CreateList makes of a device.
LEMMA ElementIs ==
  ASSUME NEW d \in DeviceType, NEW i \in Nat, NEW unknown \in Nat
  PROVE  /\ Element(d, i, unknown) \in Elements /\ Element(d, i, unknown).device = i
         /\ Element(d, i, unknown).unknown = IF d.named THEN 0 ELSE unknown
<1>1. d.vid \in Nat /\ d.mi \in {-1} \cup Nat /\ d.named \in BOOLEAN
  BY DEF DeviceType
<1>. QED
  BY <1>1 DEF Element, Elements

\* One device adds at most its own element to the list.
LEMMA ListingSteps ==
  ASSUME NEW d \in DeviceType, NEW i \in Nat, NEW acc \in Listings
  PROVE  /\ OneDevice(acc, d, i) \in Listings
         /\ OneDevice(acc, d, i).unknown = IF d.named THEN acc.unknown ELSE acc.unknown + 1
         /\ OneDevice(acc, d, i).list = IF RootHub(d) THEN acc.list
                                        ELSE Append(acc.list, Element(d, i, acc.unknown))
<1>1. acc.list \in Seq(Elements) /\ acc.unknown \in Nat
  BY DEF Listings
<1>2. Append(acc.list, Element(d, i, acc.unknown)) \in Seq(Elements)
  BY <1>1, ElementIs, AppendProperties
<1>. QED
  BY <1>1, <1>2 DEF OneDevice, Listings

\* The list of devices, device by device.
LEMMA ListFollows ==
  ASSUME NEW devices \in Seq(DeviceType), NEW o
  PROVE  \E L \in [0..Len(devices) -> Listings] :
           /\ L[0] = Listing /\ \A k \in 1..Len(devices) : L[k] = Lists1(devices, o, L[k - 1], k)
           /\ CreateList(devices, o) = L[Len(devices)].list
<1>. DEFINE n == Len(devices)
            places == [i \in DOMAIN devices |-> i]
            R(f) == [s \in SUBSET (1..n) |->
                       IF s = {} THEN Listing ELSE Lists1(devices, o, f[s \ {Max(s)}], places[Max(s)])]
            M == CHOOSE f : f = R(f)
            F == [p \in (1..n) \X Listings |-> Lists1(devices, o, p[2], p[1])]
<1>1. n \in Nat /\ DOMAIN devices = 1..n /\ \A i \in 1..n : devices[i] \in DeviceType
  BY LenProperties, ElementOfSeq
<1>2. DOMAIN places = 1..n /\ \A i \in 1..n : places[i] = i
  BY <1>1
<1>3. CreateList(devices, o) = M[1..n].list
  BY <1>2 DEF CreateList, FoldLeft, MapThenFoldSet, Lists1, Listing
<1>4. Listing \in Listings
  <2>1. <<>> \in Seq(Elements)
    BY EmptySeq
  <2>. QED
    BY <2>1 DEF Listing, Listings
<1>5. \A x \in Listings, k \in 1..n : Lists1(devices, o, x, k) \in Listings
  <2>1. \A k \in 1..n : k \in Nat
    BY <1>1
  <2>. QED
    BY <1>1, <2>1, ListingSteps DEF Lists1
<1>6. F \in Steps(n, Listings)
  BY <1>5 DEF Steps
<1>7. \A k \in 1..n, x \in Listings : F[<<k, x>>] = Lists1(devices, o, x, k)
  OBVIOUS
<1>. HIDE DEF n, F, places
<1>8. PICK f : IsFold(f, Listings, Listing, n, F)
  <2>1. n \in Nat
    BY <1>1
  <2>. QED
    BY <2>1, <1>4, <1>6, FoldExists
<1>9. f = R(f)
  <2>1. ASSUME NEW s \in SUBSET (1..n), s # {}
        PROVE  f[s] = Lists1(devices, o, f[s \ {Max(s)}], places[Max(s)])
    <3>1. Max(s) \in 1..n /\ f[s \ {Max(s)}] \in Listings
      BY <1>1, <1>8, <2>1, MaxIn DEF IsFold
    <3>. QED
      BY <1>2, <1>7, <1>8, <2>1, <3>1 DEF IsFold
  <2>. QED
    BY <1>8, <2>1 DEF IsFold
<1>10. M = R(M)
  BY <1>9
<1>. HIDE DEF M
<1>11. M[{}] = Listing
  BY <1>10
<1>12. ASSUME NEW k \in 1..n, M[1..(k - 1)] \in Listings
       PROVE  M[1..k] = F[<<k, M[1..(k - 1)]>>]
  <2>1. 1..k \in SUBSET (1..n) /\ 1..k # {} /\ Max(1..k) = k /\ (1..k) \ {k} = 1..(k - 1)
    BY <1>1, FirstOnes
  <2>2. M[1..k] = Lists1(devices, o, M[1..(k - 1)], places[k])
    BY <1>10, <2>1
  <2>. QED
    BY <1>2, <1>7, <1>12, <2>2
<1>13. PICK L \in [0..n -> Listings] :
         L[0] = Listing /\ L[n] = M[1..n] /\ \A k \in 1..n : L[k] = F[<<k, L[k - 1]>>]
  BY <1>1, <1>4, <1>6, <1>11, <1>12, FoldSteps
<1>14. \A k \in 1..n : L[k - 1] \in Listings
  BY <1>1
<1>. QED
  BY <1>3, <1>7, <1>13, <1>14 DEF n

\* What the list is after k devices.
Listed(devices, o, acc, k) ==
  LET list == acc.list
      wanted(i) == ~ LeftOut(devices[i], o) /\ ~ RootHub(devices[i]) IN
  /\ acc.unknown > 0
  /\ \A x \in DOMAIN list : /\ list[x].device \in 1..k /\ wanted(list[x].device)
                            /\ list[x].unknown < acc.unknown
                            /\ list[x].unknown = 0 <=> devices[list[x].device].named
  /\ \A x, y \in DOMAIN list : x < y => /\ list[x].device < list[y].device
                                        /\ list[x].unknown = list[y].unknown => list[x].unknown = 0
  /\ \A i \in 1..k : wanted(i) => \E x \in DOMAIN list : list[x].device = i

\* The next device leaves what is meant of the devices so far.
LEMMA ListedSteps ==
  ASSUME NEW n \in Nat, NEW devices, \A i \in 1..n : devices[i] \in DeviceType, NEW o, NEW k \in 1..n,
         NEW acc \in Listings, Listed(devices, o, acc, k - 1)
  PROVE  Listed(devices, o, Lists1(devices, o, acc, k), k)
<1>. DEFINE d == devices[k]
            list == acc.list
            next == Lists1(devices, o, acc, k)
            new == Element(d, k, acc.unknown)
            wanted(i) == ~ LeftOut(devices[i], o) /\ ~ RootHub(devices[i])
<1>. SUFFICES Listed(devices, o, next, k)
  OBVIOUS
<1>1. /\ d \in DeviceType /\ k \in Nat /\ list \in Seq(Elements) /\ acc.unknown \in Nat
      /\ d.named \in BOOLEAN
  BY DEF Listings, DeviceType
<1>2. \A i : i \in 1..k <=> i \in 1..(k - 1) \/ i = k
  OBVIOUS
<1>3. Len(list) \in Nat /\ DOMAIN list = 1..Len(list)
      /\ \A x \in DOMAIN list : list[x].device \in Nat /\ list[x].unknown \in Nat
  <2>1. \A x \in 1..Len(list) : list[x] \in Elements
    BY <1>1, ElementOfSeq
  <2>. QED
    BY <1>1, <2>1, LenProperties DEF Elements
<1>4. /\ acc.unknown > 0
      /\ \A x \in DOMAIN list : /\ list[x].device \in 1..(k - 1) /\ wanted(list[x].device)
                                /\ list[x].unknown < acc.unknown
                                /\ list[x].unknown = 0 <=> devices[list[x].device].named
      /\ \A x, y \in DOMAIN list : x < y => /\ list[x].device < list[y].device
                                            /\ list[x].unknown = list[y].unknown => list[x].unknown = 0
      /\ \A i \in 1..(k - 1) : wanted(i) => \E x \in DOMAIN list : list[x].device = i
  BY DEF Listed
<1>. HIDE DEF wanted
<1>5. Listed(devices, o, next, k) <=>
        /\ next.unknown > 0
        /\ \A x \in DOMAIN next.list : /\ next.list[x].device \in 1..k /\ wanted(next.list[x].device)
                                       /\ next.list[x].unknown < next.unknown
                                       /\ next.list[x].unknown = 0 <=> devices[next.list[x].device].named
        /\ \A x, y \in DOMAIN next.list : x < y =>
             /\ next.list[x].device < next.list[y].device
             /\ next.list[x].unknown = next.list[y].unknown => next.list[x].unknown = 0
        /\ \A i \in 1..k : wanted(i) => \E x \in DOMAIN next.list : next.list[x].device = i
  BY DEF Listed, wanted
<1>6. \/ next = acc /\ ~ wanted(k)
      \/ next.list = list /\ ~ wanted(k) /\ next.unknown \in {acc.unknown, acc.unknown + 1}
      \/ /\ next.list = Append(list, new) /\ wanted(k)
         /\ next.unknown = IF d.named THEN acc.unknown ELSE acc.unknown + 1
  BY <1>1, ListingSteps, ZenonT(60) DEF Lists1, wanted
<1>. HIDE DEF next
<1>7. CASE next.list = list /\ ~ wanted(k) /\ next.unknown \in {acc.unknown, acc.unknown + 1}
  <2>1. next.unknown > 0 /\ \A x \in DOMAIN list : list[x].unknown < next.unknown
    BY <1>1, <1>3, <1>4, <1>7
  <2>2. \A x \in DOMAIN list : list[x].device \in 1..k
    BY <1>2, <1>4
  <2>3. \A i \in 1..k : wanted(i) => \E x \in DOMAIN list : list[x].device = i
    BY <1>2, <1>4, <1>7
  <2>. QED
    BY <1>4, <1>5, <1>7, <2>1, <2>2, <2>3
<1>8. CASE /\ next.list = Append(list, new) /\ wanted(k)
           /\ next.unknown = IF d.named THEN acc.unknown ELSE acc.unknown + 1
  <2>. DEFINE m == Len(list) + 1
              longer == Append(list, new)
  <2>1. new.device = k /\ new.unknown = (IF d.named THEN 0 ELSE acc.unknown) /\ new \in Elements
    BY <1>1, ElementIs
  <2>. HIDE DEF new
  <2>2. DOMAIN longer = 1..m /\ longer[m] = new /\ \A x \in DOMAIN list : longer[x] = list[x]
    BY <1>1, <1>3, <2>1, AppendProperties
  <2>3. \A x : x \in 1..m <=> x \in DOMAIN list \/ x = m
    BY <1>3
  <2>4. m \in Nat /\ \A x \in DOMAIN list : x \in Nat /\ x < m
    BY <1>3
  <2>. HIDE DEF longer, m, list, d
  <2>5. ASSUME NEW x \in 1..m
        PROVE  /\ longer[x].device \in 1..k /\ wanted(longer[x].device)
               /\ longer[x].unknown < next.unknown
               /\ longer[x].unknown = 0 <=> devices[longer[x].device].named
    <3>1. CASE x \in DOMAIN list
      <4>1. longer[x].device = list[x].device /\ longer[x].unknown = list[x].unknown
        BY <2>2, <3>1
      <4>2. /\ list[x].device \in 1..(k - 1) /\ wanted(list[x].device) /\ list[x].unknown < acc.unknown
            /\ (list[x].unknown = 0 <=> devices[list[x].device].named) /\ list[x].unknown \in Nat
        BY <1>3, <1>4, <3>1
      <4>3. list[x].device \in 1..k
        BY <1>2, <4>2
      <4>4. list[x].unknown < next.unknown
        BY <1>1, <1>8, <4>2
      <4>. QED
        BY <4>1, <4>2, <4>3, <4>4
    <3>2. CASE x = m
      <4>1. longer[x] = new /\ k \in 1..k /\ devices[k].named = d.named
        BY <1>2, <2>2, <3>2 DEF d
      <4>2. new.unknown < next.unknown /\ (new.unknown = 0 <=> d.named)
        BY <1>1, <1>4, <1>8, <2>1
      <4>3. longer[x].device = k /\ longer[x].unknown = new.unknown
        BY <2>1, <4>1
      <4>4. wanted(longer[x].device)
        BY <1>8, <4>3
      <4>5. devices[longer[x].device].named = d.named
        BY <4>1, <4>3
      <4>. QED
        BY <4>1, <4>2, <4>3, <4>4, <4>5
    <3>. QED
      BY <2>3, <3>1, <3>2
  <2>6. ASSUME NEW x \in 1..m, NEW y \in 1..m, x < y
        PROVE  /\ longer[x].device < longer[y].device
               /\ longer[x].unknown = longer[y].unknown => longer[x].unknown = 0
    <3>1. x \in DOMAIN list
      BY <2>3, <2>4, <2>6
    <3>2. CASE y \in DOMAIN list
      BY <1>4, <2>2, <2>6, <3>1, <3>2
    <3>3. CASE y = m
      <4>1. longer[x].device \in 1..(k - 1) /\ longer[x].unknown \in Nat /\ longer[x].unknown < acc.unknown
        BY <1>3, <1>4, <2>2, <3>1
      <4>. QED
        BY <1>1, <2>1, <2>2, <3>3, <4>1
    <3>. QED
      BY <2>3, <3>2, <3>3
  <2>7. ASSUME NEW i \in 1..k, wanted(i) PROVE \E x \in 1..m : longer[x].device = i
    <3>1. CASE i \in 1..(k - 1)
      BY <1>4, <2>2, <2>3, <2>7, <3>1
    <3>2. CASE i = k
      BY <2>1, <2>2, <2>3, <3>2
    <3>. QED
      BY <1>2, <3>1, <3>2
  <2>8. next.unknown > 0
    BY <1>1, <1>4, <1>8
  <2>9. next.list = longer
    BY <1>8 DEF longer
  <2>. QED
    BY <1>5, <2>2, <2>5, <2>6, <2>7, <2>8, <2>9
<1>. QED
  BY <1>6, <1>7, <1>8

\* The list holds what is meant, whatever the devices and the options.
LEMMA ListMeant ==
  ASSUME NEW devices \in Seq(DeviceType), NEW o
  PROVE  ListIsMeant(CreateList(devices, o), devices, o)
<1>. DEFINE n == Len(devices)
            list == CreateList(devices, o)
            wanted(i) == ~ LeftOut(devices[i], o) /\ ~ RootHub(devices[i])
<1>1. n \in Nat /\ DOMAIN devices = 1..n /\ \A i \in 1..n : devices[i] \in DeviceType
  BY LenProperties, ElementOfSeq
<1>2. PICK L \in [0..n -> Listings] :
        /\ L[0] = Listing /\ \A k \in 1..n : L[k] = Lists1(devices, o, L[k - 1], k)
        /\ list = L[n].list
  BY ListFollows
<1>. HIDE DEF n
<1>. DEFINE T == {k \in 0..n : Listed(devices, o, L[k], k)}
<1>3. 0 \in T
  <2>1. L[0].list = <<>> /\ L[0].unknown = 1
    BY <1>2 DEF Listing
  <2>2. DOMAIN L[0].list = {} /\ 1..0 = {} /\ 0 \in 0..n
    BY <1>1, <2>1
  <2>. QED
    BY <2>1, <2>2 DEF Listed
<1>4. ASSUME NEW k \in 1..n, k - 1 \in T PROVE k \in T
  <2>1. L[k - 1] \in Listings /\ Listed(devices, o, L[k - 1], k - 1) /\ k \in 0..n
    BY <1>1, <1>4
  <2>2. L[k] = Lists1(devices, o, L[k - 1], k)
    BY <1>2
  <2>3. Listed(devices, o, Lists1(devices, o, L[k - 1], k), k)
    BY <1>1, <2>1, ListedSteps
  <2>. QED
    BY <2>1, <2>2, <2>3
<1>5. Listed(devices, o, L[n], n)
  <2>. HIDE DEF T
  <2>1. 0..n \subseteq T
    BY <1>1, <1>3, <1>4, UpTo
  <2>. QED
    BY <1>1, <2>1 DEF T
<1>6. /\ \A x \in DOMAIN list : list[x].device \in 1..n /\ wanted(list[x].device)
                                /\ (list[x].unknown = 0 <=> devices[list[x].device].named)
      /\ \A x, y \in DOMAIN list : x < y => /\ list[x].device < list[y].device
                                            /\ list[x].unknown = list[y].unknown => list[x].unknown = 0
      /\ \A i \in 1..n : wanted(i) => \E x \in DOMAIN list : list[x].device = i
  <2>. HIDE DEF list
  <2>. QED
    BY <1>2, <1>5 DEF Listed
<1>. HIDE DEF list, wanted
<1>7. {list[k].device : k \in DOMAIN list} = {i \in DOMAIN devices : wanted(i)}
  BY <1>1, <1>6
<1>. QED
  BY <1>6, <1>7 DEF ListIsMeant, list, wanted

--------------------------------------------------------------------------------
(* What wdi-simple installs.                                                    *)
Installings(results) == [installed : Seq(Nat), going : {TRUE} \cup {results[k] : k \in Nat}]
Installing == [installed |-> <<>>, going |-> TRUE]
Installs1(dev, results, acc, e) ==
  IF ~acc.going \/ ~Matches(e, dev) THEN acc
  ELSE [installed |-> Append(acc.installed, e.device), going |-> results[Len(acc.installed) + 1]]

\* One element of the list leaves an installing.
LEMMA Installs1Typed ==
  ASSUME NEW dev, NEW results, NEW acc \in Installings(results), NEW e \in Elements
  PROVE  Installs1(dev, results, acc, e) \in Installings(results)
<1>1. acc.installed \in Seq(Nat) /\ e.device \in Nat
  BY DEF Installings, Elements
<1>2. Append(acc.installed, e.device) \in Seq(Nat) /\ Len(acc.installed) + 1 \in Nat
  BY <1>1, AppendProperties, LenProperties
<1>. QED
  BY <1>2 DEF Installs1, Installings

\* L is what was done after each element.
Follows(L, list, dev, results) ==
  /\ L \in [0..Len(list) -> Installings(results)]
  /\ L[0] = Installing /\ \A k \in 1..Len(list) : L[k] = Installs1(dev, results, L[k - 1], list[k])
  /\ Simple(TRUE, list, dev, results) =
       IF L[Len(list)].installed = <<>> THEN <<NoElement>> ELSE L[Len(list)].installed

\* What wdi-simple has installed, element by element.
LEMMA SimpleFollows ==
  ASSUME NEW list \in Seq(Elements), NEW dev, NEW results
  PROVE  \E L : Follows(L, list, dev, results)
<1>. DEFINE n == Len(list)
            S == Installings(results)
            R(f) == [s \in SUBSET (1..n) |->
                       IF s = {} THEN Installing ELSE Installs1(dev, results, f[s \ {Max(s)}], list[Max(s)])]
            M == CHOOSE f : f = R(f)
            F == [p \in (1..n) \X S |-> Installs1(dev, results, p[2], list[p[1]])]
<1>1. n \in Nat /\ DOMAIN list = 1..n /\ \A i \in 1..n : list[i] \in Elements
  BY LenProperties, ElementOfSeq
<1>2. Simple(TRUE, list, dev, results) =
        IF M[1..n].installed = <<>> THEN <<NoElement>> ELSE M[1..n].installed
  BY <1>1 DEF Simple, FoldLeft, MapThenFoldSet, Installs1, Installing
<1>3. Installing \in S
  <2>1. <<>> \in Seq(Nat)
    BY EmptySeq
  <2>. QED
    BY <2>1 DEF Installing, Installings
<1>4. F \in Steps(n, S)
  <2>1. \A k \in 1..n, x \in S : Installs1(dev, results, x, list[k]) \in S
    BY <1>1, Installs1Typed
  <2>. HIDE DEF S
  <2>. QED
    BY <2>1 DEF Steps
<1>5. \A k \in 1..n, x \in S : F[<<k, x>>] = Installs1(dev, results, x, list[k])
  OBVIOUS
<1>. HIDE DEF n, F, S
<1>6. PICK f : IsFold(f, S, Installing, n, F)
  <2>1. n \in Nat
    BY <1>1
  <2>. QED
    BY <2>1, <1>3, <1>4, FoldExists
<1>7. f = R(f)
  <2>1. ASSUME NEW s \in SUBSET (1..n), s # {}
        PROVE  f[s] = Installs1(dev, results, f[s \ {Max(s)}], list[Max(s)])
    <3>1. Max(s) \in 1..n /\ f[s \ {Max(s)}] \in S
      BY <1>1, <1>6, <2>1, MaxIn DEF IsFold
    <3>. QED
      BY <1>5, <1>6, <2>1, <3>1 DEF IsFold
  <2>. QED
    BY <1>6, <2>1 DEF IsFold
<1>8. M = R(M)
  BY <1>7
<1>. HIDE DEF M
<1>9. M[{}] = Installing
  BY <1>8
<1>10. ASSUME NEW k \in 1..n, M[1..(k - 1)] \in S
       PROVE  M[1..k] = F[<<k, M[1..(k - 1)]>>]
  <2>1. 1..k \in SUBSET (1..n) /\ 1..k # {} /\ Max(1..k) = k /\ (1..k) \ {k} = 1..(k - 1)
    BY <1>1, FirstOnes
  <2>2. M[1..k] = Installs1(dev, results, M[1..(k - 1)], list[k])
    BY <1>8, <2>1
  <2>. QED
    BY <1>5, <1>10, <2>2
<1>11. PICK L \in [0..n -> S] :
         L[0] = Installing /\ L[n] = M[1..n] /\ \A k \in 1..n : L[k] = F[<<k, L[k - 1]>>]
  BY <1>1, <1>3, <1>4, <1>9, <1>10, FoldSteps
<1>12. \A k \in 1..n : L[k - 1] \in S
  BY <1>1
<1>13. Follows(L, list, dev, results)
  BY <1>2, <1>5, <1>11, <1>12 DEF Follows, n, S
<1>. QED
  BY <1>13

\* What is installed after k elements.
Installed(list, dev, results, acc, k) ==
  LET t == acc.installed IN
  /\ \A x \in DOMAIN t : x <= t[x] /\ \E i \in 1..k : Matches(list[i], dev) /\ t[x] = list[i].device
  /\ \A x, y \in DOMAIN t : x < y => t[x] < t[y] /\ results[x]
  /\ acc.going <=> t = <<>> \/ results[Len(t)]
  /\ \A i \in 1..k : Matches(list[i], dev) =>
       \/ \E x \in DOMAIN t : t[x] = list[i].device
       \/ ~ acc.going /\ t[Len(t)] < list[i].device

\* A list of n devices in order, and a result for each.
InOrder(list, n, results) ==
  /\ list \in Seq(Elements) /\ n \in Nat /\ results \in Seq(BOOLEAN) /\ n <= Len(results)
  /\ \A i \in 1..Len(list) : list[i].device \in 1..n
  /\ \A i, j \in 1..Len(list) : i < j => list[i].device < list[j].device

\* The next element leaves what is meant of the elements so far.
LEMMA InstalledSteps ==
  ASSUME NEW list, NEW n, NEW results, InOrder(list, n, results), NEW dev, NEW k \in 1..Len(list),
         NEW acc \in Installings(results), Installed(list, dev, results, acc, k - 1)
  PROVE  Installed(list, dev, results, Installs1(dev, results, acc, list[k]), k)
<1>. DEFINE e == list[k]
            t == acc.installed
            next == Installs1(dev, results, acc, list[k])
            matches(i) == Matches(list[i], dev)
<1>. SUFFICES Installed(list, dev, results, next, k)
  OBVIOUS
<1>1. /\ Len(list) \in Nat /\ n \in Nat /\ e.device \in 1..n /\ n <= Len(results) /\ Len(results) \in Nat
      /\ \A x \in 1..n : results[x] \in BOOLEAN
      /\ \A i \in 1..(k - 1) : i \in 1..Len(list) /\ list[i].device \in 1..n /\ list[i].device < e.device
  <2>1. /\ list \in Seq(Elements) /\ n \in Nat /\ results \in Seq(BOOLEAN) /\ n <= Len(results)
        /\ \A i \in 1..Len(list) : list[i].device \in 1..n
        /\ \A i, j \in 1..Len(list) : i < j => list[i].device < list[j].device
    BY DEF InOrder
  <2>2. Len(list) \in Nat /\ Len(results) \in Nat /\ \A x \in 1..Len(results) : results[x] \in BOOLEAN
    BY <2>1, LenProperties, ElementOfSeq
  <2>3. \A i \in 1..(k - 1) : i \in 1..Len(list) /\ i < k
    BY <2>2
  <2>. QED
    BY <2>1, <2>2, <2>3
<1>2. t \in Seq(Nat) /\ Len(t) \in Nat /\ DOMAIN t = 1..Len(t) /\ (t = <<>> <=> Len(t) = 0)
      /\ \A x \in DOMAIN t : t[x] \in Nat
  <2>1. t \in Seq(Nat)
    BY DEF Installings
  <2>. QED
    BY <2>1, LenProperties, ElementOfSeq, EmptySeq
<1>3. /\ \A x \in DOMAIN t : x <= t[x] /\ \E i \in 1..(k - 1) : matches(i) /\ t[x] = list[i].device
      /\ \A x, y \in DOMAIN t : x < y => t[x] < t[y] /\ results[x]
      /\ acc.going <=> t = <<>> \/ results[Len(t)]
      /\ \A i \in 1..(k - 1) : matches(i) =>
           \/ \E x \in DOMAIN t : t[x] = list[i].device
           \/ ~ acc.going /\ t[Len(t)] < list[i].device
  BY DEF Installed
<1>. HIDE DEF matches
<1>4. Installed(list, dev, results, next, k) <=>
        /\ \A x \in DOMAIN next.installed :
             x <= next.installed[x] /\ \E i \in 1..k : matches(i) /\ next.installed[x] = list[i].device
        /\ \A x, y \in DOMAIN next.installed : x < y => next.installed[x] < next.installed[y] /\ results[x]
        /\ next.going <=> next.installed = <<>> \/ results[Len(next.installed)]
        /\ \A i \in 1..k : matches(i) =>
             \/ \E x \in DOMAIN next.installed : next.installed[x] = list[i].device
             \/ ~ next.going /\ next.installed[Len(next.installed)] < list[i].device
  BY DEF Installed, matches
<1>5. \/ next = acc /\ (~ acc.going \/ ~ matches(k))
      \/ /\ acc.going /\ matches(k) /\ next.installed = Append(t, e.device)
         /\ next.going = results[Len(t) + 1]
  BY DEF Installs1, matches
<1>6. \A i : i \in 1..k <=> i \in 1..(k - 1) \/ i = k
  BY <1>1
<1>7. \A x \in DOMAIN t : t[x] < e.device
  BY <1>1, <1>2, <1>3
<1>. HIDE DEF next, t, e
<1>8. CASE next = acc /\ (~ acc.going \/ ~ matches(k))
  <2>1. ASSUME matches(k) PROVE ~ acc.going /\ t[Len(t)] < e.device
    <3>1. t # <<>> /\ ~ acc.going
      BY <1>3, <1>8, <2>1
    <3>2. Len(t) \in DOMAIN t
      BY <1>2, <3>1
    <3>. QED
      BY <1>7, <3>1, <3>2
  <2>2. next.installed = t /\ next.going = acc.going
    BY <1>8 DEF t
  <2>3. \A i \in 1..k : matches(i) =>
           \/ \E x \in DOMAIN t : t[x] = list[i].device
           \/ ~ acc.going /\ t[Len(t)] < list[i].device
    BY <1>3, <1>6, <2>1 DEF e
  <2>4. \A x \in DOMAIN t : x <= t[x] /\ \E i \in 1..k : matches(i) /\ t[x] = list[i].device
    BY <1>3, <1>6
  <2>. QED
    BY <1>3, <1>4, <2>2, <2>3, <2>4
<1>9. CASE /\ acc.going /\ matches(k) /\ next.installed = Append(t, e.device)
           /\ next.going = results[Len(t) + 1]
  <2>. DEFINE m == Len(t) + 1
              longer == Append(t, e.device)
  <2>1. DOMAIN longer = 1..m /\ Len(longer) = m /\ longer[m] = e.device
        /\ \A x \in DOMAIN t : longer[x] = t[x]
    <3>1. e.device \in Nat
      BY <1>1
    <3>. QED
      BY <1>2, <3>1, AppendProperties
  <2>2. m \in Nat /\ (\A x : x \in 1..m <=> x \in DOMAIN t \/ x = m) /\ \A x \in DOMAIN t : x < m
    BY <1>2
  <2>3. m <= e.device /\ m \in 1..n
    <3>1. CASE t = <<>>
      BY <1>1, <1>2, <3>1
    <3>2. CASE t # <<>>
      <4>1. Len(t) \in DOMAIN t
        BY <1>2, <3>2
      <4>2. Len(t) <= t[Len(t)] /\ t[Len(t)] < e.device /\ t[Len(t)] \in Nat
        BY <1>2, <1>3, <1>7, <4>1
      <4>. QED
        BY <1>1, <1>2, <4>2
    <3>. QED
      BY <3>1, <3>2
  <2>4. longer # <<>>
    <3>1. Len(<<>>) = 0
      OBVIOUS
    <3>. HIDE DEF longer
    <3>. QED
      BY <2>1, <2>2, <2>3, <3>1
  <2>5. \A x \in DOMAIN t : results[x]
    <3>. SUFFICES ASSUME NEW x \in DOMAIN t PROVE results[x]
      OBVIOUS
    <3>1. Len(t) \in DOMAIN t /\ t # <<>> /\ x \in 1..Len(t)
      BY <1>2
    <3>2. CASE x = Len(t)
      <4>1. results[Len(t)]
        BY <1>3, <1>9, <3>1
      <4>. QED
        BY <3>2, <4>1
    <3>3. CASE x # Len(t)
      <4>1. x < Len(t)
        BY <1>2, <3>1, <3>3
      <4>. QED
        BY <1>3, <3>1, <4>1
    <3>. QED
      BY <3>2, <3>3
  <2>6. next.installed = longer /\ next.going = results[m]
    BY <1>9
  <2>. HIDE DEF longer, m
  <2>7. \A x \in 1..m : x <= longer[x] /\ \E i \in 1..k : matches(i) /\ longer[x] = list[i].device
    <3>. SUFFICES ASSUME NEW x \in 1..m
                  PROVE  x <= longer[x] /\ \E i \in 1..k : matches(i) /\ longer[x] = list[i].device
      OBVIOUS
    <3>1. CASE x \in DOMAIN t
      <4>1. longer[x] = t[x]
        BY <2>1, <3>1
      <4>2. x <= t[x] /\ \E i \in 1..(k - 1) : matches(i) /\ t[x] = list[i].device
        BY <1>3, <3>1
      <4>. QED
        BY <1>6, <4>1, <4>2
    <3>2. CASE x = m
      BY <1>6, <1>9, <2>1, <2>3, <3>2 DEF e
    <3>. QED
      BY <2>2, <3>1, <3>2
  <2>8. \A x, y \in 1..m : x < y => longer[x] < longer[y] /\ results[x]
    <3>. SUFFICES ASSUME NEW x \in 1..m, NEW y \in 1..m, x < y PROVE longer[x] < longer[y] /\ results[x]
      OBVIOUS
    <3>1. x \in DOMAIN t
      <4>1. x # m
        BY <2>2
      <4>. QED
        BY <2>2, <4>1
    <3>2. CASE y \in DOMAIN t
      BY <1>3, <2>1, <3>1, <3>2
    <3>3. CASE y = m
      BY <1>7, <2>1, <2>5, <3>1, <3>3
    <3>. QED
      BY <2>2, <3>2, <3>3
  <2>9. \A i \in 1..k : matches(i) => \E x \in 1..m : longer[x] = list[i].device
    <3>. SUFFICES ASSUME NEW i \in 1..k, matches(i) PROVE \E x \in 1..m : longer[x] = list[i].device
      OBVIOUS
    <3>1. CASE i \in 1..(k - 1)
      <4>1. PICK x \in DOMAIN t : t[x] = list[i].device
        BY <1>3, <1>9, <3>1
      <4>. QED
        BY <2>1, <2>2, <4>1
    <3>2. CASE i = k
      BY <2>1, <2>2, <3>2 DEF e
    <3>. QED
      BY <1>6, <3>1, <3>2
  <2>10. next.going <=> longer = <<>> \/ results[Len(longer)]
    <3>1. results[m] \in BOOLEAN
      BY <1>1, <2>3
    <3>. QED
      BY <2>1, <2>4, <2>6, <3>1
  <2>. QED
    BY <1>4, <2>1, <2>6, <2>7, <2>8, <2>9, <2>10, ZenonT(60)
<1>. QED
  BY <1>5, <1>8, <1>9 DEF t, e

\* wdi-simple installs what is meant.
LEMMA SimpleMeant ==
  ASSUME NEW list, NEW n, NEW results, InOrder(list, n, results), NEW dev, NEW prepared \in BOOLEAN
  PROVE  SimpleIsMeant(Simple(prepared, list, dev, results), prepared, list, dev, results)
<1>. DEFINE matching == {list[k].device : k \in {l \in DOMAIN list : Matches(list[l], dev)}}
            z == Len(list)
<1>1. list \in Seq(Elements) /\ z \in Nat /\ DOMAIN list = 1..z
      /\ \A i \in 1..z : list[i].device \in Nat
  <2>1. list \in Seq(Elements) /\ \A i \in 1..z : list[i].device \in 1..n /\ n \in Nat
    BY DEF InOrder
  <2>. QED
    BY <2>1, LenProperties
<1>11. PICK L : Follows(L, list, dev, results)
  BY <1>1, SimpleFollows
<1>2. /\ L \in [0..z -> Installings(results)]
      /\ L[0] = Installing /\ \A k \in 1..z : L[k] = Installs1(dev, results, L[k - 1], list[k])
      /\ Simple(TRUE, list, dev, results) =
           IF L[z].installed = <<>> THEN <<NoElement>> ELSE L[z].installed
  BY <1>11 DEF Follows
<1>. DEFINE T == {k \in 0..z : Installed(list, dev, results, L[k], k)}
<1>3. 0 \in T
  <2>1. L[0].installed = <<>> /\ L[0].going = TRUE
    BY <1>2 DEF Installing
  <2>2. DOMAIN L[0].installed = {} /\ 1..0 = {} /\ 0 \in 0..z
    BY <1>1, <2>1
  <2>. QED
    BY <2>1, <2>2 DEF Installed
<1>4. ASSUME NEW k \in 1..z, k - 1 \in T PROVE k \in T
  <2>1. L[k - 1] \in Installings(results) /\ Installed(list, dev, results, L[k - 1], k - 1) /\ k \in 0..z
    BY <1>1, <1>2, <1>4
  <2>2. L[k] = Installs1(dev, results, L[k - 1], list[k])
    BY <1>2
  <2>3. Installed(list, dev, results, Installs1(dev, results, L[k - 1], list[k]), k)
    BY <2>1, InstalledSteps
  <2>. QED
    BY <2>1, <2>2, <2>3
<1>5. Installed(list, dev, results, L[z], z) /\ L[z] \in Installings(results)
  <2>. HIDE DEF T, z
  <2>1. 0..z \subseteq T
    BY <1>1, <1>3, <1>4, UpTo
  <2>. QED
    BY <1>1, <1>2, <2>1 DEF T
<1>. DEFINE t == L[z].installed
            m == Len(t)
<1>6. t \in Seq(Nat) /\ m \in Nat /\ DOMAIN t = 1..m /\ (t = <<>> <=> m = 0) /\ \A x \in DOMAIN t : t[x] \in Nat
  <2>1. t \in Seq(Nat)
    BY <1>5 DEF Installings
  <2>. HIDE DEF t
  <2>. QED
    BY <2>1, LenProperties, ElementOfSeq, EmptySeq
<1>7. /\ \A x \in DOMAIN t : \E i \in 1..z : Matches(list[i], dev) /\ t[x] = list[i].device
      /\ \A x, y \in DOMAIN t : x < y => t[x] < t[y] /\ results[x]
      /\ L[z].going <=> t = <<>> \/ results[Len(t)]
      /\ \A i \in 1..z : Matches(list[i], dev) =>
           \/ \E x \in DOMAIN t : t[x] = list[i].device
           \/ ~ L[z].going /\ t[Len(t)] < list[i].device
  BY <1>5 DEF Installed
<1>8. \A d : d \in matching <=> \E i \in 1..z : Matches(list[i], dev) /\ d = list[i].device
  BY <1>1
<1>. HIDE DEF z, t, matching
<1>9. CASE t = <<>>
  <2>1. matching = {}
    BY <1>6, <1>7, <1>8, <1>9
  <2>. QED
    BY <1>2, <1>9, <2>1 DEF SimpleIsMeant, Simple, matching, t
<1>10. CASE t # <<>>
  <2>1. m \in DOMAIN t
    BY <1>6, <1>10
  <2>2. matching # {}
    BY <1>7, <1>8, <2>1
  <2>3. \A d \in matching : d \in Nat
    BY <1>1, <1>8
  <2>4. ASSUME NEW x \in 1..m PROVE t[x] \in matching /\ (results[m] \/ t[x] <= t[m])
    <3>1. t[x] \in matching
      BY <1>6, <1>7, <1>8
    <3>2. t[x] <= t[m]
      <4>1. CASE x = m
        BY <1>6, <4>1
      <4>2. CASE x # m
        <5>1. m \in Nat
          BY <1>6
        <5>. HIDE DEF m
        <5>2. x < m
          BY <4>2, <5>1
        <5>3. x \in DOMAIN t
          BY <1>6 DEF m
        <5>4. t[x] \in Nat /\ t[m] \in Nat /\ t[x] < t[m]
          BY <1>6, <1>7, <2>1, <5>2, <5>3
        <5>. QED
          BY <5>4
      <4>. QED
        BY <4>1, <4>2
    <3>. QED
      BY <3>1, <3>2
  <2>5. ASSUME NEW d \in matching, results[m] \/ d <= t[m] PROVE \E x \in 1..m : t[x] = d
    <3>1. PICK i \in 1..z : Matches(list[i], dev) /\ d = list[i].device
      BY <1>8
    <3>2. ~ (~ L[z].going /\ t[m] < d)
      BY <1>6, <1>7, <2>1, <2>3, <2>5
    <3>. QED
      BY <1>6, <1>7, <3>1, <3>2
  <2>6. {t[k] : k \in 1..m} = {d \in matching : results[m] \/ d <= t[m]}
    BY <2>4, <2>5
  <2>7. \A k \in 1..(m - 1) : t[k] < t[k + 1] /\ results[k]
    <3>. SUFFICES ASSUME NEW k \in 1..(m - 1) PROVE t[k] < t[k + 1] /\ results[k]
      OBVIOUS
    <3>1. k \in DOMAIN t /\ k + 1 \in DOMAIN t /\ k < k + 1
      BY <1>6
    <3>. QED
      BY <1>7, <3>1
  <2>8. Simple(TRUE, list, dev, results) = t
    BY <1>2, <1>10 DEF t
  <2>. HIDE DEF m
  <2>9. CASE prepared
    <3>1. Simple(prepared, list, dev, results) = t
      BY <2>8, <2>9
    <3>2. SimpleIsMeant(t, TRUE, list, dev, results)
      BY <2>2, <2>6, <2>7 DEF SimpleIsMeant, matching, m
    <3>. QED
      BY <2>9, <3>1, <3>2
  <2>10. CASE ~ prepared
    BY <2>10 DEF Simple, SimpleIsMeant
  <2>. QED
    BY <2>9, <2>10
<1>. QED
  BY <1>9, <1>10

\* The list of devices is in order.
LEMMA ListInOrder ==
  ASSUME NEW devices \in Seq(DeviceType), NEW o, NEW results \in Seq(BOOLEAN), Len(devices) <= Len(results)
  PROVE  InOrder(CreateList(devices, o), Len(devices), results)
<1>. DEFINE n == Len(devices)
            list == CreateList(devices, o)
<1>1. n \in Nat /\ DOMAIN devices = 1..n
  BY LenProperties
<1>2. PICK L \in [0..n -> Listings] : list = L[n].list
  BY ListFollows
<1>3. list \in Seq(Elements)
  <2>. HIDE DEF n
  <2>. QED
    BY <1>1, <1>2 DEF Listings
<1>4. /\ {list[k].device : k \in DOMAIN list} \subseteq 1..n
      /\ \A k, l \in DOMAIN list : k < l => list[k].device < list[l].device
  <2>1. ListIsMeant(list, devices, o)
    BY ListMeant
  <2>. HIDE DEF list
  <2>. QED
    BY <1>1, <2>1 DEF ListIsMeant
<1>5. DOMAIN list = 1..Len(list)
  BY <1>3, LenProperties
<1>. HIDE DEF n, list
<1>6. \A i \in 1..Len(list) : list[i].device \in 1..n
  BY <1>4, <1>5
<1>. QED
  BY <1>1, <1>3, <1>4, <1>5, <1>6 DEF InOrder, n, list

\* An error means success if it is one of three, and only then.
LEMMA SuccessIs == \A e : ProcessError(e) = "WDI_SUCCESS" <=> e \in Meanings.WDI_SUCCESS
<1>. SUFFICES ASSUME NEW e
              PROVE  ProcessError(e) = "WDI_SUCCESS" <=> e \in Meanings.WDI_SUCCESS
  OBVIOUS
<1>. DEFINE R == DOMAIN Meanings
            of == CHOOSE r \in R : e \in Meanings[r]
<1>1. "WDI_SUCCESS" \in R /\ "WDI_ERROR_OTHER" \notin R
  BY DEF Meanings
<1>2. ASSUME e \in Meanings.WDI_SUCCESS PROVE \A r \in R : e \in Meanings[r] => r = "WDI_SUCCESS"
  BY <1>2 DEF Meanings
<1>3. (\E r \in R : e \in Meanings[r]) => of \in R /\ e \in Meanings[of]
  OBVIOUS
<1>4. ProcessError(e) = IF \E r \in R : e \in Meanings[r] THEN of ELSE "WDI_ERROR_OTHER"
  BY DEF ProcessError
<1>. HIDE DEF R, of
<1>5. CASE e \in Meanings.WDI_SUCCESS
  BY <1>1, <1>2, <1>3, <1>4, <1>5
<1>6. CASE e \notin Meanings.WDI_SUCCESS
  BY <1>1, <1>3, <1>4, <1>6
<1>. QED
  BY <1>5, <1>6

\* What the installer comes to, whatever the errors and however many devices there are.
LEMMA InstallMeant ==
  made = InstallDriver(job.update, job.copy, job.known) => InstallIsMeant
<1>. SUFFICES ASSUME made = InstallDriver(job.update, job.copy, job.known) PROVE InstallIsMeant
  OBVIOUS
<1>. DEFINE u == job.update
            c == job.copy
            n == DOMAIN job.known
            kept == [i \in n |-> job.known[i].flags]
            copies == u = "unidentified" \/ ProcessError(u) = "WDI_SUCCESS"
            flagged == ProcessError(c) = "WDI_SUCCESS" /\ u # "unidentified"
            all == [i \in n |-> IF Flagged(job.known[i]) THEN job.known[i].flags \cup {"reinstall"}
                                ELSE job.known[i].flags]
<1>1. CASE u = "none" \/ (copies /\ c = "none")
  <2>1. made = [result |-> "WDI_SUCCESS", searched |-> TRUE, flags |-> kept]
    BY <1>1 DEF InstallDriver
  <2>2. made.result = "WDI_SUCCESS" /\ made.searched = TRUE /\ made.flags = kept
    BY <2>1
  <2>3. DOMAIN made.flags = n /\ \A i \in n : made.flags[i] = job.known[i].flags
    BY <2>2
  <2>. QED
    BY <2>2, <2>3 DEF InstallIsMeant
<1>2. CASE ~ (u = "none" \/ (copies /\ c = "none")) /\ ~ copies
  <2>1. made = [result |-> ProcessError(u), searched |-> FALSE, flags |-> kept]
    BY <1>2 DEF InstallDriver
  <2>2. made.result = ProcessError(u) /\ made.searched = FALSE /\ made.flags = kept
    BY <2>1
  <2>3. DOMAIN made.flags = n /\ \A i \in n : made.flags[i] = job.known[i].flags
    BY <2>2
  <2>. QED
    BY <1>2, <2>2, <2>3 DEF InstallIsMeant
<1>3. CASE ~ (u = "none" \/ (copies /\ c = "none")) /\ copies
  <2>1. made = [result |-> ProcessError(c), searched |-> FALSE,
                flags |-> IF flagged THEN all ELSE kept]
    BY <1>3 DEF InstallDriver, CheckRemoved
  <2>2. made.result = ProcessError(c) /\ made.searched = FALSE
        /\ made.flags = IF flagged THEN all ELSE kept
    BY <2>1
  <2>3. DOMAIN made.flags = n
        /\ \A i \in n : made.flags[i] = IF flagged /\ Flagged(job.known[i])
                                        THEN job.known[i].flags \cup {"reinstall"}
                                        ELSE job.known[i].flags
    BY <2>2
  <2>. HIDE DEF kept, all, flagged
  <2>. QED
    BY <1>3, <2>2, <2>3, SuccessIs DEF InstallIsMeant, Flagged, flagged
<1>. QED
  BY <1>1, <1>2, <1>3

--------------------------------------------------------------------------------
(* What Windows tells of itself, the policy of the check for updates, and versions. *)

\* The architecture is wrong only where an emulated application cannot ask for it.
LEMMA ArchMeant ==
  ASSUME NEW native, NEW app, NEW asks \in BOOLEAN, <<app, native>> \in Runs
  PROVE  GetPlatformArch(native, app, asks) # native => <<app, native>> \in Emulated /\ ~ asks
<1>. USE DEF GetPlatformArch, WideArch, Narrow, Emulated
<1>1. app \in {"x86", "x64", "arm", "arm64"} /\ native \in {"x86", "x64", "arm", "arm64"}
  BY DEF Runs
<1>. QED
  BY <1>1 DEF Runs

\* The settings of updates.
Registries == [opens : BOOLEAN, writable : BOOLEAN, values : UNION {[K -> Int] : K \in SUBSET Keys}]

\* A registry is one of these.
LEMMA RegistryIs == \A r : IsRegistry(r) => r \in Registries
<1>. SUFFICES ASSUME NEW r, IsRegistry(r) PROVE r \in Registries
  OBVIOUS
<1>. DEFINE K == DOMAIN r.values
<1>1. K \in SUBSET Keys /\ r.values \in [K -> Int] /\ r \in [opens : BOOLEAN, writable : BOOLEAN, values : {r.values}]
  BY DEF IsRegistry
<1>2. r.values \in UNION {[L -> Int] : L \in SUBSET Keys}
  <2>. HIDE DEF K
  <2>. QED
    BY <1>1
<1>. QED
  BY <1>1, <1>2 DEF Registries

\* A key that is written is read back, where the registry lets it be, and no other changes.
LEMMA WriteIs ==
  \A r \in Registries, key \in Keys, v \in Int :
         /\ WriteRegistryKey(r, key, v) \in Registries
         /\ WriteRegistryKey(r, key, v).opens = r.opens
         /\ WriteRegistryKey(r, key, v).writable = r.writable
         /\ \A k \in Keys : ReadRegistryKey(WriteRegistryKey(r, key, v), k) =
              IF k = key /\ r.opens /\ r.writable THEN v ELSE ReadRegistryKey(r, k)
<1>. SUFFICES ASSUME NEW r \in Registries, NEW key \in Keys, NEW v \in Int
              PROVE  /\ WriteRegistryKey(r, key, v) \in Registries
                     /\ WriteRegistryKey(r, key, v).opens = r.opens
                     /\ WriteRegistryKey(r, key, v).writable = r.writable
                     /\ \A k \in Keys : ReadRegistryKey(WriteRegistryKey(r, key, v), k) =
                          IF k = key /\ r.opens /\ r.writable THEN v ELSE ReadRegistryKey(r, k)
  OBVIOUS
<1>. DEFINE w == WriteRegistryKey(r, key, v)
            f == [k \in DOMAIN r.values \cup {key} |-> IF k = key THEN v ELSE r.values[k]]
<1>1. r.opens \in BOOLEAN /\ r.writable \in BOOLEAN
      /\ r = [opens |-> r.opens, writable |-> r.writable, values |-> r.values]
  BY DEF Registries
<1>2. PICK K \in SUBSET Keys : r.values \in [K -> Int]
  BY DEF Registries
<1>3. f \in [K \cup {key} -> Int] /\ DOMAIN r.values = K /\ DOMAIN f = K \cup {key}
      /\ f[key] = v /\ \A k \in K : k # key => f[k] = r.values[k]
  BY <1>2
<1>. HIDE DEF f
<1>4. CASE r.opens /\ r.writable
  <2>1. w = [r EXCEPT !.values = f]
    BY <1>4 DEF WriteRegistryKey, f
  <2>2. w = [opens |-> r.opens, writable |-> r.writable, values |-> f]
    BY <1>1, <2>1
  <2>3. w.opens = r.opens /\ w.writable = r.writable /\ w.values = f
    BY <2>2
  <2>4. w \in Registries
    <3>1. f \in UNION {[D -> Int] : D \in SUBSET Keys}
      BY <1>2, <1>3
    <3>. QED
      BY <1>1, <1>3, <2>2, <3>1 DEF Registries
  <2>. HIDE DEF w
  <2>. QED
    BY <1>3, <1>4, <2>3, <2>4 DEF w, ReadRegistryKey
<1>5. CASE ~ (r.opens /\ r.writable)
  <2>1. w = r
    BY <1>5 DEF WriteRegistryKey
  <2>. QED
    BY <1>5, <2>1
<1>. QED
  BY <1>4, <1>5

\* SetUpdateCheck does what is meant, whatever the registry and whatever is answered.
LEMMA PolicyMeant ==
  ASSUME NEW j, j.reg \in Registries, j.ticks \in Int, j.short \in BOOLEAN, j.allows \in BOOLEAN,
         j.picked \in Nat \cup {Disabled}, j.now \in Int
  PROVE  LET set == SetUpdateCheck(j.reg, j.ticks, j.short, j.allows, j.picked) IN
         PolicyIsMeant([reg |-> set.reg, result |-> set.result, due |-> CheckIsDue(set.reg, j.now)], j)
<1>. DEFINE set == SetUpdateCheck(j.reg, j.ticks, j.short, j.allows, j.picked)
            kept == j.reg.opens /\ j.reg.writable
            had == ReadRegistryKey(j.reg, "interval")
            since == ReadRegistryKey(j.reg, "last")
            tried == WriteRegistryKey(j.reg, "comm", j.ticks)
            asked == IF j.short THEN tried ELSE PickFrequency(tried, j.picked)
            interval == IF had # 0 \/ ~ kept THEN had
                        ELSE IF ~ j.short /\ ~ j.allows THEN Disabled
                        ELSE IF ~ j.short /\ j.picked > 0 THEN j.picked ELSE Daily
            Holds(r, i) == /\ r \in Registries /\ r.opens = j.reg.opens /\ r.writable = j.reg.writable
                           /\ ReadRegistryKey(r, "interval") = i /\ ReadRegistryKey(r, "last") = since
<1>1. had \in Int /\ since \in Int
  <2>1. \A k \in DOMAIN j.reg.values : j.reg.values[k] \in Int
    BY DEF Registries
  <2>. QED
    BY <2>1 DEF ReadRegistryKey
<1>0. "comm" \in Keys /\ "interval" \in Keys /\ "last" \in Keys
  BY DEF Keys
<1>2. Holds(tried, had)
  BY <1>0, WriteIs
<1>3. ~ kept \/ ReadRegistryKey(tried, "comm") = j.ticks
  <2>1. ReadRegistryKey(tried, "comm") = IF "comm" = "comm" /\ j.reg.opens /\ j.reg.writable THEN j.ticks
                                         ELSE ReadRegistryKey(j.reg, "comm")
    BY <1>0, WriteIs, Zenon
  <2>. HIDE DEF tried
  <2>. QED
    BY <2>1
<1>4. \A r, i : Holds(r, i) =>
        \A v \in Int : Holds(WriteRegistryKey(r, "interval", v), IF kept THEN v ELSE i)
  <2>. SUFFICES ASSUME NEW r, NEW i, Holds(r, i), NEW v \in Int
                PROVE  Holds(WriteRegistryKey(r, "interval", v), IF kept THEN v ELSE i)
    OBVIOUS
  <2>. DEFINE w == WriteRegistryKey(r, "interval", v)
  <2>1. r \in Registries /\ r.opens = j.reg.opens /\ r.writable = j.reg.writable
        /\ ReadRegistryKey(r, "interval") = i /\ ReadRegistryKey(r, "last") = since
    OBVIOUS
  <2>2. /\ w \in Registries /\ w.opens = r.opens /\ w.writable = r.writable
        /\ \A k \in Keys : ReadRegistryKey(w, k) =
             IF k = "interval" /\ r.opens /\ r.writable THEN v ELSE ReadRegistryKey(r, k)
    BY <1>0, <2>1, WriteIs, Zenon
  <2>. HIDE DEF w
  <2>3. ReadRegistryKey(w, "interval") = IF kept THEN v ELSE i
    BY <1>0, <2>1, <2>2
  <2>4. ReadRegistryKey(w, "last") = since
    BY <1>0, <2>1, <2>2
  <2>. QED
    BY <2>1, <2>2, <2>3, <2>4 DEF w
<1>. HIDE DEF tried, Holds
<1>5. Holds(asked, IF kept /\ ~ j.short /\ j.picked # 0 THEN j.picked ELSE had)
  BY <1>2, <1>4 DEF PickFrequency, Disabled
<1>6. \A r, i : Holds(r, i) => ReadRegistryKey(r, "interval") = i
  BY DEF Holds
<1>7. Holds(WriteRegistryKey(asked, "interval", Disabled), IF kept THEN Disabled ELSE IF kept /\ ~ j.short /\ j.picked # 0 THEN j.picked ELSE had)
  BY <1>4, <1>5 DEF Disabled
<1>8. Holds(WriteRegistryKey(asked, "interval", Daily), IF kept THEN Daily ELSE IF kept /\ ~ j.short /\ j.picked # 0 THEN j.picked ELSE had)
  BY <1>4, <1>5 DEF Daily
<1>. HIDE DEF asked, kept, had
<1>9. Holds(set.reg, interval)
  <2>1. ReadRegistryKey(tried, "interval") = had
    BY <1>2, <1>6
  <2>2. ReadRegistryKey(asked, "interval") = IF kept /\ ~ j.short /\ j.picked # 0 THEN j.picked ELSE had
    BY <1>5, <1>6
  <2>3. set = IF ReadRegistryKey(tried, "comm") # j.ticks THEN [result |-> FALSE, reg |-> tried]
              ELSE IF ReadRegistryKey(tried, "interval") # 0 THEN [result |-> TRUE, reg |-> tried]
              ELSE IF ~ j.short /\ ~ j.allows
              THEN [result |-> FALSE, reg |-> WriteRegistryKey(asked, "interval", Disabled)]
              ELSE [result |-> TRUE,
                    reg |-> IF ReadRegistryKey(asked, "interval") \in {0, Disabled}
                            THEN WriteRegistryKey(asked, "interval", Daily) ELSE asked]
    BY DEF SetUpdateCheck, tried, asked
  <2>. HIDE DEF set
  <2>4. CASE ReadRegistryKey(tried, "comm") # j.ticks
    BY <1>2, <1>3, <2>3, <2>4
  <2>5. CASE ReadRegistryKey(tried, "comm") = j.ticks /\ had # 0
    BY <1>2, <2>1, <2>3, <2>5
  <2>6. CASE ReadRegistryKey(tried, "comm") = j.ticks /\ had = 0 /\ ~ j.short /\ ~ j.allows
    BY <1>7, <2>1, <2>3, <2>6, <1>5, <1>2
  <2>7. CASE ReadRegistryKey(tried, "comm") = j.ticks /\ had = 0 /\ ~ (~ j.short /\ ~ j.allows)
    <3>1. set.reg = IF ReadRegistryKey(asked, "interval") \in {0, Disabled}
                    THEN WriteRegistryKey(asked, "interval", Daily) ELSE asked
      BY <2>1, <2>3, <2>7
    <3>2. CASE ReadRegistryKey(asked, "interval") \in {0, Disabled}
      BY <1>8, <2>2, <2>7, <3>1, <3>2 DEF Disabled
    <3>3. CASE ReadRegistryKey(asked, "interval") \notin {0, Disabled}
      BY <1>5, <2>2, <2>7, <3>1, <3>3 DEF Disabled
    <3>. QED
      BY <3>2, <3>3
  <2>. QED
    BY <2>4, <2>5, <2>6, <2>7
<1>. HIDE DEF set
<1>10. ReadRegistryKey(set.reg, "interval") = interval /\ ReadRegistryKey(set.reg, "last") = since
  BY <1>9 DEF Holds
<1>11. interval \in Int
  BY <1>1 DEF Disabled, Daily
<1>12. CheckIsDue(set.reg, j.now) <=>
         interval # Disabled /\ j.now - since >= (IF interval = 0 THEN Daily ELSE interval)
  <2>. HIDE DEF interval
  <2>. QED
    BY <1>1, <1>10, <1>11 DEF CheckIsDue, Daily
<1>. QED
  BY <1>10, <1>12 DEF PolicyIsMeant, set, had, kept, since

\* The code of a version of Windows is ordered as the version is.
LEMMA LessIs ==
  ASSUME NEW a \in Pairs, NEW b \in Pairs
  PROVE  /\ Less(a, b) <=> a[1] < b[1] \/ (a[1] = b[1] /\ a[2] < b[2])
         /\ Code(a) < Code(b) <=> Less(a, b)
         /\ Code(a) = Code(b) <=> a = b
<1>1. DOMAIN a = {1, 2} /\ a[1] \in 0..15 /\ a[2] \in 0..15 /\ b[1] \in 0..15 /\ b[2] \in 0..15
      /\ a = <<a[1], a[2]>> /\ b = <<b[1], b[2]>>
  BY DEF Pairs
<1>2. 1..(1 - 1) = {} /\ 1..(2 - 1) = {1}
  OBVIOUS
<1>3. Less(a, b) <=> a[1] < b[1] \/ (a[1] = b[1] /\ a[2] < b[2])
  <2>1. Less(a, b) <=> \E i \in {1, 2} : a[i] < b[i] /\ \A j \in 1..(i - 1) : a[j] = b[j]
    BY <1>1 DEF Less
  <2>2. (\E i \in {1, 2} : a[i] < b[i] /\ \A j \in 1..(i - 1) : a[j] = b[j])
        <=> (a[1] < b[1] /\ \A j \in 1..(1 - 1) : a[j] = b[j]) \/ (a[2] < b[2] /\ \A j \in 1..(2 - 1) : a[j] = b[j])
    OBVIOUS
  <2>. QED
    BY <1>2, <2>1, <2>2
<1>4. Code(a) < Code(b) <=> a[1] < b[1] \/ (a[1] = b[1] /\ a[2] < b[2])
  BY <1>1, SMTT(30) DEF Code
<1>5. Code(a) = Code(b) <=> a[1] = b[1] /\ a[2] = b[2]
  BY <1>1, SMTT(30) DEF Code
<1>. QED
  BY <1>1, <1>3, <1>4, <1>5

\* GetWindowsVersion is the version there is when it was verified, and tells what is too old.
LEMMA WindowsMeant ==
  ASSUME NEW real \in Pairs, NEW told \in Pairs, NEW verified \in Pairs, NEW build \in Nat,
         Told(real, told, verified)
  PROVE  LET v == GetWindowsVersion(told, verified, build) IN
         /\ v < Code(<<6, 1>>) <=> Less(real, <<6, 1>>)
         /\ verified = real =>
              v = IF Less(real, XP) THEN WINDOWS_UNSUPPORTED
                  ELSE IF real = Windows10 /\ build >= FirstBuildOf11 THEN Code(Windows11) ELSE Code(real)
<1>1. <<6, 1>> \in Pairs /\ <<6, 2>> \in Pairs /\ <<6, 3>> \in Pairs /\ XP \in Pairs
      /\ Windows10 \in Pairs /\ Windows11 \in Pairs
  BY DEF Pairs, XP, Windows10, Windows11
<1>2. /\ real[1] \in 0..15 /\ real[2] \in 0..15 /\ real = <<real[1], real[2]>>
      /\ told[1] \in 0..15 /\ told[2] \in 0..15 /\ told = <<told[1], told[2]>>
  BY DEF Pairs
<1>3. Probe(told, verified) = IF verified = real THEN real ELSE told
  <2>1. CASE told = real /\ verified = real
    BY <2>1 DEF Probe
  <2>2. CASE told = <<6, 2>> /\ verified = real /\ real[1] \in 6..9 /\ real[2] \in 0..9 /\ Less(<<6, 2>>, real)
    <3>1. 6 < real[1] \/ (6 = real[1] /\ 2 < real[2])
      BY <1>1, <2>2, LessIs
    <3>2. ~ (Code(told) < Code(<<6, 2>>)) /\ told[1] = 6 /\ told[2] = 2
      BY <2>2 DEF Code
    <3>. QED
      BY <1>2, <2>2, <3>1, <3>2 DEF Probe
  <2>3. CASE told \in {<<6, 2>>, <<6, 3>>} /\ verified = told /\ Less(told, real)
    <3>1. verified # real
      BY <1>2, <2>3, LessIs
    <3>. QED
      BY <2>3, <3>1 DEF Probe
  <2>. QED
    BY <2>1, <2>2, <2>3 DEF Told
<1>. DEFINE p == IF verified = real THEN real ELSE told
            v == GetWindowsVersion(told, verified, build)
<1>4. p \in Pairs /\ p[1] <= 15 /\ p[2] <= 15
  BY <1>2
<1>5. v = IF p = Windows10 /\ build >= FirstBuildOf11 THEN Code(Windows11)
          ELSE IF p \notin Named /\ Code(p) < Code(XP) THEN WINDOWS_UNSUPPORTED ELSE Code(p)
  <2>. HIDE DEF p
  <2>1. ~ (p[1] > 15 \/ p[2] > 15)
    BY <1>4 DEF Pairs
  <2>. QED
    BY <1>3, <2>1 DEF GetWindowsVersion, p
<1>6. Less(p, <<6, 1>>) <=> Less(real, <<6, 1>>)
  <2>1. CASE verified = real
    BY <2>1
  <2>2. CASE verified # real
    <3>1. told \in {<<6, 2>>, <<6, 3>>} /\ Less(told, real)
      BY <2>2 DEF Told
    <3>2. told[1] = 6 /\ told[2] >= 2
      BY <3>1
    <3>3. ~ Less(told, <<6, 1>>)
      <4>. DEFINE s == <<6, 1>>
      <4>1. s[1] = 6 /\ s[2] = 1 /\ s \in Pairs
        BY <1>1
      <4>. HIDE DEF s
      <4>2. Less(told, s) <=> told[1] < s[1] \/ (told[1] = s[1] /\ told[2] < s[2])
        BY <4>1, LessIs
      <4>3. ~ Less(told, s)
        BY <1>2, <3>2, <4>1, <4>2
      <4>. QED
        BY <4>3 DEF s
    <3>4. ~ Less(real, <<6, 1>>)
      <4>1. told[1] < real[1] \/ (told[1] = real[1] /\ told[2] < real[2])
        BY <3>1, LessIs
      <4>. QED
        BY <1>1, <1>2, <3>2, <4>1, LessIs
    <3>. QED
      BY <2>2, <3>3, <3>4
  <2>. QED
    BY <2>1, <2>2
<1>. HIDE DEF v, p
<1>7. ASSUME p \in Named PROVE ~ Less(p, XP)
  <2>1. p \in {<<5, 1>>, <<5, 2>>, <<6, 0>>, <<6, 1>>, <<6, 2>>, <<6, 3>>, <<6, 4>>, <<10, 0>>, <<11, 0>>}
    BY <1>7 DEF Named, XP, Windows10, Windows11
  <2>2. p[1] > 5 \/ (p[1] = 5 /\ p[2] >= 1)
    BY <2>1
  <2>. QED
    BY <1>1, <1>4, <2>2, LessIs DEF XP, Pairs
<1>8. Code(XP) = 81 /\ Code(<<6, 1>>) = 97 /\ Code(Windows11) = 176 /\ Code(Windows10) = 160 /\ WINDOWS_UNSUPPORTED = 0
  BY DEF Code, XP, Windows10, Windows11, WINDOWS_UNSUPPORTED
<1>9. (Code(p) < Code(XP) <=> Less(p, XP)) /\ (Code(p) < Code(<<6, 1>>) <=> Less(p, <<6, 1>>)) /\ Code(p) \in Nat
  <2>1. Code(p) \in Nat
    BY <1>4 DEF Pairs, Code
  <2>. QED
    BY <1>1, <1>4, <2>1, LessIs
<1>10. v = IF Less(p, XP) THEN WINDOWS_UNSUPPORTED
           ELSE IF p = Windows10 /\ build >= FirstBuildOf11 THEN Code(Windows11) ELSE Code(p)
  <2>1. ASSUME p = Windows10 PROVE ~ Less(p, XP)
    BY <1>8, <1>9, <2>1
  <2>. QED
    BY <1>5, <1>7, <1>9, <2>1
<1>11. v < Code(<<6, 1>>) <=> Less(p, <<6, 1>>)
  BY <1>8, <1>9, <1>10
<1>. QED
  BY <1>6, <1>10, <1>11 DEF p, v

--------------------------------------------------------------------------------
(* The description of an update, and the search for one.                        *)

\* The numbers of a version without an empty field, of which the first four count.
LEMMA VersionIs ==
  ASSUME NEW fields \in Seq(Nat), NEW i \in 1..4
  PROVE  /\ DOMAIN ParseVersion(fields) = 1..4
         /\ ParseVersion(fields)[i] = IF i \in DOMAIN fields THEN fields[i] % Wide ELSE 0
<1>. DEFINE at == {k \in GivenUpTo(fields, Len(fields)) : Cardinality(GivenUpTo(fields, k)) = i}
<1>1. Len(fields) \in Nat /\ DOMAIN fields = 1..Len(fields) /\ \A k \in 1..Len(fields) : fields[k] # Empty
  <2>1. Len(fields) \in Nat /\ DOMAIN fields = 1..Len(fields) /\ \A k \in 1..Len(fields) : fields[k] \in Nat
    BY LenProperties, ElementOfSeq
  <2>. QED
    BY <2>1 DEF Empty
<1>2. \A k \in 0..Len(fields) : GivenUpTo(fields, k) = 1..k
  BY <1>1 DEF GivenUpTo
<1>3. \A k \in 1..Len(fields) : Cardinality(GivenUpTo(fields, k)) = k
  <2>. SUFFICES ASSUME NEW k \in 1..Len(fields) PROVE Cardinality(GivenUpTo(fields, k)) = k
    OBVIOUS
  <2>1. k \in Nat /\ GivenUpTo(fields, k) = 1..k
    BY <1>1, <1>2
  <2>2. Cardinality(1..k) = k
    BY <2>1, FS_Interval
  <2>. QED
    BY <2>1, <2>2
<1>4. at = {k \in 1..Len(fields) : k = i}
  <2>1. GivenUpTo(fields, Len(fields)) = 1..Len(fields)
    BY <1>1, <1>2
  <2>. QED
    BY <1>3, <2>1
<1>5. ParseVersion(fields)[i] = IF at = {} THEN 0 ELSE fields[Max(at)] % Wide
  BY DEF ParseVersion
<1>. HIDE DEF at
<1>6. CASE i \in DOMAIN fields
  <2>1. at = {i}
    BY <1>1, <1>4, <1>6
  <2>2. at \in SUBSET Nat /\ i \in at /\ \A x \in at : x <= i
    BY <2>1
  <2>3. Max(at) = i
    BY <2>2, MaxIs
  <2>. QED
    BY <1>5, <1>6, <2>1, <2>3 DEF ParseVersion
<1>7. CASE i \notin DOMAIN fields
  <2>1. at = {}
    BY <1>1, <1>4, <1>7
  <2>. QED
    BY <1>5, <1>7, <2>1 DEF ParseVersion
<1>. QED
  BY <1>6, <1>7

\* The width of a field of a version.
LEMMA WideIs == Wide \in Nat \ {0}
BY DEF Wide

\* A field of a version that fits into its width is read as it is.
LEMMA VersionMeant ==
  ASSUME NEW fields \in Seq(0..(Wide - 1)), NEW i \in 1..4, i \in DOMAIN fields
  PROVE  ParseVersion(fields)[i] = fields[i]
<1>. DEFINE S == 0..(Wide - 1)
<1>1. S \subseteq Nat /\ \A f \in S : f % Wide = f
  <2>1. ASSUME NEW w \in Nat \ {0}, NEW f \in 0..(w - 1) PROVE f \in Nat /\ f % w = f
    OBVIOUS
  <2>. QED
    BY <2>1, WideIs
<1>. HIDE DEF S
<1>2. fields \in Seq(Nat)
  BY <1>1, SeqMonotonic DEF S
<1>3. fields[i] \in S
  BY <1>2, LenProperties, ElementOfSeq DEF S
<1>4. ParseVersion(fields)[i] = fields[i] % Wide
  BY <1>2, VersionIs
<1>. QED
  BY <1>1, <1>3, <1>4


UpdateType == [version : Versions4, platform_min : [1..2 -> Nat]]
Searching == [status : Nat, over : BOOLEAN, found : BOOLEAN, reg : Registries, update : UpdateType]

\* The least system that an update is for, of which at most two numbers are given.
LEMMA LeastIs ==
  ASSUME NEW m \in Seq(Nat), Len(m) <= 2
  PROVE  LET least == [i \in 1..2 |-> IF i \in DOMAIN m THEN m[i] ELSE <<5, 2>>[i]] IN
         least \in [1..2 -> Nat] /\ least = m \o SubSeq(<<5, 2>>, Len(m) + 1, 2)
<1>. DEFINE c == <<5, 2>>
            z == Len(m)
            a == z + 1
            two == 2
            least == [i \in 1..2 |-> IF i \in DOMAIN m THEN m[i] ELSE c[i]]
            rest == SubSeq(c, a, two)
            whole == m \o rest
<1>1. DOMAIN m = 1..z /\ (\A i \in 1..z : m[i] \in Nat) /\ z \in Nat /\ z <= 2
  BY LenProperties, ElementOfSeq
<1>2. c \in Seq(Nat) /\ Len(c) = 2 /\ c[1] = 5 /\ c[2] = 2
  OBVIOUS
<1>3. least \in [1..2 -> Nat]
  BY <1>1
<1>. HIDE DEF c, z
<1>4. z \in 0..2
  BY <1>1
<1>5. a \in 1..(Len(c) + 1) /\ two \in (a - 1)..Len(c) /\ a = z + 1 /\ two = 2
  BY <1>2, <1>4
<1>. HIDE DEF a, two
<1>6. /\ rest \in Seq(Nat) /\ Len(rest) = two - a + 1
      /\ \A i \in 1..(two - a + 1) : rest[i] = c[a + i - 1]
  <2>. DEFINE N == Nat
  <2>1. c \in Seq(N)
    BY <1>2
  <2>2. a \in 1..(Len(c) + 1) /\ two \in (a - 1)..Len(c)
    BY <1>5
  <2>. HIDE DEF N
  <2>3. /\ rest \in Seq(N) /\ Len(rest) = two - a + 1
        /\ \A i \in 1..(two - a + 1) : rest[i] = c[a + i - 1]
    BY <2>1, <2>2, PartIs
  <2>. QED
    BY <2>3 DEF N
<1>. HIDE DEF rest
<1>7. /\ whole \in Seq(Nat) /\ Len(whole) = z + Len(rest)
      /\ \A i \in 1..z : whole[i] = m[i]
      /\ \A i \in 1..Len(rest) : whole[z + i] = rest[i]
  BY <1>6, JoinIs DEF z
<1>. HIDE DEF whole
<1>8. \A i \in 1..2 : whole[i] = least[i]
  <2>. SUFFICES ASSUME NEW i \in 1..2 PROVE whole[i] = least[i]
    OBVIOUS
  <2>1. CASE i \in 1..z
    BY <1>1, <1>7, <2>1
  <2>2. CASE i \notin 1..z
    <3>1. i - z \in 1..Len(rest) /\ i - z \in 1..(two - a + 1) /\ z + (i - z) = i /\ a + (i - z) - 1 = i
      BY <1>4, <1>5, <1>6, <2>2
    <3>2. whole[i] = c[i]
      BY <1>6, <1>7, <3>1, SMTT(30)
    <3>. QED
      BY <1>1, <2>2, <3>2
  <2>. QED
    BY <2>1, <2>2
<1>9. DOMAIN whole = 1..2 /\ whole = [i \in 1..2 |-> whole[i]]
  <2>1. Len(whole) = 2
    BY <1>4, <1>5, <1>6, <1>7
  <2>. QED
    BY <1>7, <2>1, LenProperties
<1>10. whole = least
  BY <1>8, <1>9
<1>. QED
  BY <1>3, <1>10 DEF whole, rest, a, two, z, c

\* The version of an update, and its fields.
LEMMA NumbersAre ==
  ASSUME NEW t \in Seq(Numbers)
  PROVE  LET read == [i \in 1..4 |-> IF i \in DOMAIN t THEN t[i] ELSE 0] IN
         ParseVersion(t) = read /\ read \in Versions4
<1>. DEFINE S == Numbers
            read == [i \in 1..4 |-> IF i \in DOMAIN t THEN t[i] ELSE 0]
<1>1. S \subseteq Nat /\ S \subseteq Fields /\ (\A f \in S : f % Wide = f) /\ 0 \in Fields
  BY DeviceListAssumption DEF Numbers, Fields, Wide
<1>. HIDE DEF S
<1>2. t \in Seq(Nat) /\ \A i \in DOMAIN t : t[i] \in S
  BY <1>1, SeqMonotonic, LenProperties, ElementOfSeq DEF S
<1>3. \A i \in 1..4 : DOMAIN ParseVersion(t) = 1..4 /\ ParseVersion(t)[i] = IF i \in DOMAIN t THEN t[i] % Wide ELSE 0
  BY <1>2, VersionIs
<1>4. \A i \in 1..4 : ParseVersion(t)[i] = read[i] /\ read[i] \in Fields
  BY <1>1, <1>2, <1>3
<1>5. ParseVersion(t) = [i \in 1..4 |-> ParseVersion(t)[i]]
  BY DEF ParseVersion
<1>. QED
  BY <1>4, <1>5 DEF Versions4

\* What parse_update makes of an answer, and that a file it refuses changes nothing.
LEMMA ReadIs ==
  ASSUME NEW u \in UpdateType, NEW r \in ReplyType
  PROVE  /\ ParseUpdate(u, r) \in UpdateType
         /\ r.form = "refused" => ParseUpdate(u, r) = u
         /\ r.form # "refused" =>
              /\ ParseUpdate(u, r).version = [i \in 1..4 |-> IF i \in DOMAIN r.version THEN r.version[i] ELSE 0]
              /\ ParseUpdate(u, r).platform_min = r.min \o SubSeq(<<5, 2>>, Len(r.min) + 1, 2)
<1>. DEFINE read == [i \in 1..4 |-> IF i \in DOMAIN r.version THEN r.version[i] ELSE 0]
            least == [i \in 1..2 |-> IF i \in DOMAIN r.min THEN r.min[i] ELSE <<5, 2>>[i]]
            whole == r.min \o SubSeq(<<5, 2>>, Len(r.min) + 1, 2)
<1>1. r.version \in Seq(Numbers) /\ r.min \in Seq(Nat) /\ Len(r.min) <= 2
  BY DEF ReplyType
<1>2. ParseVersion(r.version) = read /\ read \in Versions4
  BY <1>1, NumbersAre
<1>3. least \in [1..2 -> Nat] /\ least = whole
  BY <1>1, LeastIs
<1>4. ParseUpdate(u, r) = IF r.form = "refused" THEN u ELSE [version |-> ParseVersion(r.version), platform_min |-> least]
  BY DEF ParseUpdate
<1>. HIDE DEF read, least, whole
<1>5. [version |-> read, platform_min |-> least] \in UpdateType
  BY <1>2, <1>3 DEF UpdateType
<1>6. /\ ParseUpdate(u, r) \in UpdateType
      /\ r.form = "refused" => ParseUpdate(u, r) = u
      /\ r.form # "refused" => ParseUpdate(u, r).version = read /\ ParseUpdate(u, r).platform_min = whole
  BY <1>2, <1>3, <1>4, <1>5
<1>. QED
  BY <1>6 DEF read, whole

\* A version of two fields is older by the first, or by the second where the first is the same.
LEMMA LessTwo ==
  ASSUME NEW a \in [1..2 -> Nat], NEW b \in [1..2 -> Nat]
  PROVE  Less(a, b) <=> a[1] < b[1] \/ (a[1] = b[1] /\ a[2] < b[2])
<1>1. 1..(1 - 1) = {} /\ 1..(2 - 1) = {1} /\ DOMAIN a = {1, 2}
  OBVIOUS
<1>2. Less(a, b) <=> \E i \in {1, 2} : a[i] < b[i] /\ \A k \in 1..(i - 1) : a[k] = b[k]
  BY <1>1 DEF Less
<1>3. (\E i \in {1, 2} : a[i] < b[i] /\ \A k \in 1..(i - 1) : a[k] = b[k])
      <=> (a[1] < b[1] /\ \A k \in 1..(1 - 1) : a[k] = b[k]) \/ (a[2] < b[2] /\ \A k \in 1..(2 - 1) : a[k] = b[k])
  OBVIOUS
<1>. QED
  BY <1>1, <1>2, <1>3

\* An update is new when the version of the application is less, and this system is not.
LEMMA NewIs ==
  ASSUME NEW u \in UpdateType, NEW application \in Versions4, NEW os \in [1..2 -> Nat]
  PROVE  IsNewVersion(u, application, os) <=> Less(application, u.version) /\ ~ Less(os, u.platform_min)
<1>1. \A v \in Versions4 : v \in Seq(Fields) /\ Len(v) = 4
  <2>1. 4 \in Nat /\ Versions4 = [1..4 -> Fields]
    BY DEF Versions4
  <2>. DEFINE four == 4
  <2>2. four \in Nat /\ Versions4 = [1..four -> Fields]
    BY <2>1
  <2>. HIDE DEF four
  <2>3. \A v \in Versions4 : v \in Seq(Fields)
    BY <2>2, SeqDef
  <2>4. \A v \in Versions4 : DOMAIN v = 1..four
    BY <2>2
  <2>5. ASSUME NEW v \in Versions4 PROVE Len(v) = four
    <3>1. Len(v) \in Nat /\ DOMAIN v = 1..Len(v)
      BY <2>3, LenProperties
    <3>. QED
      BY <2>2, <2>4, <3>1
  <2>. QED
    BY <2>3, <2>5 DEF four
<1>2. u.version \in Versions4 /\ u.platform_min \in [1..2 -> Nat]
  BY DEF UpdateType
<1>3. PackVersion(application) < PackVersion(u.version) <=> Less(application, u.version)
  BY <1>1, <1>2, PackMeant
<1>4. PackVersion(application) \in Int /\ PackVersion(u.version) \in Int
  <2>1. \A a \in Seq(Fields) : PackVersion(a) \in Nat
    <3>. SUFFICES ASSUME NEW a \in Seq(Fields) PROVE PackVersion(a) \in Nat
      OBVIOUS
    <3>1. PICK L \in [0..Len(a) -> Packed] : PackVersion(a) = L[Len(a)]
      BY PackFollows
    <3>2. Len(a) \in 0..Len(a)
      BY LenProperties
    <3>. QED
      BY <3>1, <3>2 DEF Packed
  <2>. QED
    BY <1>1, <1>2, <2>1
<1>5. Less(os, u.platform_min) <=> os[1] < u.platform_min[1] \/ (os[1] = u.platform_min[1] /\ os[2] < u.platform_min[2])
  BY <1>2, LessTwo
<1>6. os[1] \in Nat /\ os[2] \in Nat /\ u.platform_min[1] \in Nat /\ u.platform_min[2] \in Nat
  BY <1>2
<1>7. IsNewVersion(u, application, os) <=>
        /\ PackVersion(application) < PackVersion(u.version)
        /\ \/ os[1] > u.platform_min[1]
           \/ os[1] = u.platform_min[1] /\ os[2] >= u.platform_min[2]
  BY <1>4 DEF IsNewVersion, ToUint64
<1>. QED
  BY <1>3, <1>5, <1>6, <1>7

(* What the check of a channel has to find.                                     *)
Most(j, c) == {n \in 1..4 : /\ j.channels[c][n].form # "absent"
                            /\ \A m \in (n + 1)..4 : j.channels[c][m].form = "absent"}
Answers(j, c, forms) == \E n \in Most(j, c) : j.channels[c][n].form \in forms
IsNew(j, f) ==
  /\ f.form = "file"
  /\ Less(j.application, [i \in 1..4 |-> IF i \in DOMAIN f.version THEN f.version[i] ELSE 0])
  /\ ~Less(j.os, f.min \o SubSeq(<<5, 2>>, Len(f.min) + 1, 2))
NewIn(j, c) == \E n \in Most(j, c) : IsNew(j, j.channels[c][n])

\* The file of a channel that is read is the first one that answers.
LEMMA MostIs ==
  ASSUME NEW j, SearchInput(j), NEW c \in 1..2
  PROVE  /\ FirstAnswered(j.channels[c]) = 0 => Most(j, c) = {}
         /\ FirstAnswered(j.channels[c]) # 0 => Most(j, c) = {FirstAnswered(j.channels[c])}
                                                /\ FirstAnswered(j.channels[c]) \in 1..4
<1>. DEFINE has == {n \in 1..4 : j.channels[c][n].form # "absent"}
            s == {0} \cup has
            m == FirstAnswered(j.channels[c])
            z == 0
<1>1. has \subseteq 1..4 /\ s = {z} \cup has /\ z = 0
  OBVIOUS
<1>2. m = Max(s)
  BY DEF FirstAnswered
<1>3. \A n : n \in Most(j, c) <=> n \in has /\ \A k \in (n + 1)..4 : k \notin has
  BY DEF Most
<1>. HIDE DEF has, s, m, z
<1>4. CASE has = {}
  <2>1. s \in SUBSET Nat /\ z \in s /\ \A x \in s : x <= z
    BY <1>1, <1>4
  <2>2. m = z
    BY <1>2, <2>1, MaxIs
  <2>. QED
    BY <1>1, <1>3, <1>4, <2>2 DEF m
<1>5. CASE has # {}
  <2>. DEFINE four == 4
              top == Max(has)
  <2>1. four \in Nat /\ has \in SUBSET (1..four) /\ four = 4
    BY <1>1
  <2>. HIDE DEF four
  <2>2. top \in has /\ \A x \in has : x <= top
    BY <1>5, <2>1, MaxIn
  <2>. HIDE DEF top
  <2>3. s \in SUBSET Nat /\ top \in s /\ \A x \in s : x <= top
    BY <1>1, <2>2
  <2>4. m = top
    BY <1>2, <2>3, MaxIs
  <2>5. m \in 1..4 /\ m # 0
    BY <1>1, <2>2, <2>4
  <2>6. Most(j, c) = {m}
    <3>1. m \in Most(j, c)
      <4>1. \A k \in (m + 1)..4 : k \notin has
        BY <2>2, <2>4, <2>5
      <4>. QED
        BY <1>3, <2>2, <2>4, <4>1
    <3>2. ASSUME NEW n \in Most(j, c) PROVE n = m
      <4>1. n \in has /\ m \notin (n + 1)..4
        BY <1>3, <2>2, <2>4
      <4>2. n \in 1..4 /\ n <= m
        BY <1>1, <2>2, <2>4, <4>1
      <4>. QED
        BY <2>5, <4>1, <4>2
    <3>. QED
      BY <3>1, <3>2
  <2>. QED
    BY <2>5, <2>6 DEF m
<1>. QED
  BY <1>4, <1>5

\* A channel is typed, and one after the end of the search changes nothing.
LEMMA CheckTyped ==
  ASSUME NEW j, SearchInput(j), NEW s \in Searching, NEW c \in 1..2
  PROVE  /\ CheckChannel(s, j.channels[c], j) \in Searching
         /\ s.over \/ s.found => CheckChannel(s, j.channels[c], j) = s
<1>. DEFINE r == j.channels[c]
            n == FirstAnswered(r)
            reg == WriteRegistryKey(s.reg, "last", r[n].date)
            dated == [s EXCEPT !.reg = reg]
            read == ParseUpdate(s.update, r[n])
            new == IsNewVersion(read, j.application, j.os)
            t == CheckChannel(s, r, j)
<1>1. t = IF s.over \/ s.found \/ n = 0 THEN s
          ELSE IF r[n].form \in {"fails", "undated"} THEN [s EXCEPT !.over = TRUE]
          ELSE IF r[n].form = "cut" THEN [dated EXCEPT !.over = TRUE]
          ELSE [dated EXCEPT !.status = @ + 1, !.update = read, !.found = new]
  BY DEF CheckChannel
<1>2. /\ s.status \in Nat /\ s.over \in BOOLEAN /\ s.found \in BOOLEAN /\ s.reg \in Registries
      /\ s.update \in UpdateType
  BY DEF Searching
<1>7. s = [status |-> s.status, over |-> s.over, found |-> s.found, reg |-> s.reg, update |-> s.update]
  BY DEF Searching
<1>3. ASSUME n # 0 PROVE reg \in Registries /\ read \in UpdateType /\ new \in BOOLEAN
  <2>1. n \in 1..4
    BY <1>3, MostIs
  <2>2. r[n] \in ReplyType
    BY <2>1 DEF SearchInput, ChannelType
  <2>3. r[n].date \in Int /\ "last" \in Keys
    BY <2>2 DEF ReplyType, Keys
  <2>4. reg \in Registries
    BY <1>2, <2>3, WriteIs
  <2>. QED
    BY <1>2, <2>2, <2>4, ReadIs DEF IsNewVersion
<1>. HIDE DEF reg, read, new, r, n
<1>4. dated = [status |-> s.status, over |-> s.over, found |-> s.found, reg |-> reg, update |-> s.update]
  BY <1>7
<1>. HIDE DEF dated
<1>5. ASSUME n # 0 PROVE /\ [s EXCEPT !.over = TRUE] \in Searching /\ [dated EXCEPT !.over = TRUE] \in Searching
                         /\ [dated EXCEPT !.status = @ + 1, !.update = read, !.found = new] \in Searching
  <2>1. dated \in Searching
    BY <1>2, <1>3, <1>4, <1>5 DEF Searching
  <2>2. \A x \in Searching : [x EXCEPT !.over = TRUE] \in Searching
    BY DEF Searching
  <2>3. \A x \in Searching, u \in UpdateType, b \in BOOLEAN :
          [x EXCEPT !.status = @ + 1, !.update = u, !.found = b] \in Searching
    <3>1. \A x \in Searching : x.status \in Nat /\ \A m \in Nat : [x EXCEPT !.status = m] \in Searching
      BY DEF Searching
    <3>2. \A x \in Searching : [x EXCEPT !.status = @ + 1] \in Searching
      BY <3>1
    <3>3. \A x \in Searching, u \in UpdateType : [x EXCEPT !.update = u] \in Searching
      BY DEF Searching
    <3>4. \A x \in Searching, b \in BOOLEAN : [x EXCEPT !.found = b] \in Searching
      BY DEF Searching
    <3>. QED
      BY <3>2, <3>3, <3>4
  <2>. QED
    BY <1>3, <1>5, <2>1, <2>2, <2>3
<1>. HIDE DEF t
<1>6. t \in Searching /\ (s.over \/ s.found => t = s)
  BY <1>1, <1>5
<1>. QED
  BY <1>6 DEF t, r

\* A channel before the end of the search.
LEMMA ChannelIs ==
  ASSUME NEW j, SearchInput(j), NEW s \in Searching, NEW c \in 1..2, ~ s.over, ~ s.found,
         ~ IsNewVersion(s.update, j.application, j.os)
  PROVE  LET t == CheckChannel(s, j.channels[c], j) IN
         /\ t.found <=> NewIn(j, c)
         /\ t.over <=> Answers(j, c, {"fails", "undated", "cut"})
         /\ t.found \/ ~ IsNewVersion(t.update, j.application, j.os)
         /\ t.status = IF Answers(j, c, {"refused", "file"}) THEN s.status + 1 ELSE s.status
         /\ \/ Answers(j, c, {"cut", "refused", "file"})
               /\ \E n \in Most(j, c) : t.reg = WriteRegistryKey(s.reg, "last", j.channels[c][n].date)
            \/ ~ Answers(j, c, {"cut", "refused", "file"}) /\ t.reg = s.reg
<1>. DEFINE r == j.channels[c]
            n == FirstAnswered(r)
            reg == WriteRegistryKey(s.reg, "last", r[n].date)
            read == ParseUpdate(s.update, r[n])
            new == IsNewVersion(read, j.application, j.os)
            t == CheckChannel(s, r, j)
<1>1. t = IF n = 0 THEN s
          ELSE IF r[n].form \in {"fails", "undated"} THEN [s EXCEPT !.over = TRUE]
          ELSE IF r[n].form = "cut" THEN [[s EXCEPT !.reg = reg] EXCEPT !.over = TRUE]
          ELSE [[s EXCEPT !.reg = reg] EXCEPT !.status = @ + 1, !.update = read, !.found = new]
  BY DEF CheckChannel
<1>2. /\ s.over = FALSE /\ s.found = FALSE
      /\ s = [status |-> s.status, over |-> s.over, found |-> s.found, reg |-> s.reg, update |-> s.update]
      /\ s.update \in UpdateType
  BY DEF Searching
<1>3. CASE n = 0
  <2>1. Most(j, c) = {} /\ t = s
    BY <1>1, <1>3, MostIs
  <2>. HIDE DEF t
  <2>2. ~ NewIn(j, c) /\ \A forms : ~ Answers(j, c, forms)
    BY <2>1 DEF NewIn, Answers
  <2>3. /\ t.found <=> NewIn(j, c)
        /\ t.over <=> Answers(j, c, {"fails", "undated", "cut"})
        /\ t.found \/ ~ IsNewVersion(t.update, j.application, j.os)
        /\ t.status = IF Answers(j, c, {"refused", "file"}) THEN s.status + 1 ELSE s.status
        /\ ~ Answers(j, c, {"cut", "refused", "file"}) /\ t.reg = s.reg
    BY <2>1, <2>2
  <2>. QED
    BY <2>3 DEF t
<1>4. CASE n # 0
  <2>1. Most(j, c) = {n} /\ n \in 1..4
    BY <1>4, MostIs
  <2>. DEFINE f == r[n]
  <2>2. f \in ReplyType
    BY <2>1 DEF SearchInput, ChannelType
  <2>3. j.application \in Versions4 /\ j.os \in [1..2 -> Nat]
    BY SMTT(30) DEF SearchInput
  <2>4. /\ read \in UpdateType /\ (f.form = "refused" => read = s.update)
        /\ f.form # "refused" =>
             /\ read.version = [i \in 1..4 |-> IF i \in DOMAIN f.version THEN f.version[i] ELSE 0]
             /\ read.platform_min = f.min \o SubSeq(<<5, 2>>, Len(f.min) + 1, 2)
    BY <1>2, <2>2, ReadIs
  <2>5. NewIn(j, c) <=> IsNew(j, f)
    BY <2>1 DEF NewIn
  <2>6. \A forms : Answers(j, c, forms) <=> f.form \in forms
    BY <2>1 DEF Answers
  <2>7. f.form \in {"absent", "fails", "undated", "cut", "refused", "file"} /\ f.form # "absent"
    <3>1. f.form # "absent"
      BY <2>1 DEF Most
    <3>. QED
      BY <2>2, <3>1 DEF ReplyType
  <2>. HIDE DEF read
  <2>8. new <=> Less(j.application, read.version) /\ ~ Less(j.os, read.platform_min)
    BY <2>3, <2>4, NewIs
  <2>9. f.form = "refused" => ~ new
    BY <2>4
  <2>10. f.form # "refused" => (IsNew(j, f) <=> f.form = "file" /\ new)
    BY <2>4, <2>8 DEF IsNew
  <2>11. f.form = "refused" => ~ IsNew(j, f)
    BY DEF IsNew
  <2>12. reg = WriteRegistryKey(s.reg, "last", f.date)
    OBVIOUS
  <2>13. new \in BOOLEAN
    BY DEF IsNewVersion
  <2>. HIDE DEF t, reg, new, f, r, n
  <2>14. t = IF f.form \in {"fails", "undated"} THEN [s EXCEPT !.over = TRUE]
             ELSE IF f.form = "cut" THEN [[s EXCEPT !.reg = reg] EXCEPT !.over = TRUE]
             ELSE [[s EXCEPT !.reg = reg] EXCEPT !.status = @ + 1, !.update = read, !.found = new]
    BY <1>1, <1>4 DEF f
  <2>. DEFINE app == j.application
              os == j.os
  <2>15. ~ IsNewVersion(s.update, app, os) /\ (IsNewVersion(read, app, os) <=> new)
    BY DEF new
  <2>. HIDE DEF app, os
  <2>16. /\ t.found <=> f.form = "file" /\ new
         /\ t.over <=> f.form \in {"fails", "undated", "cut"}
         /\ t.found \/ ~ IsNewVersion(t.update, app, os)
         /\ t.status = IF f.form \in {"refused", "file"} THEN s.status + 1 ELSE s.status
         /\ t.reg = IF f.form \in {"cut", "refused", "file"} THEN reg ELSE s.reg
    <3>1. CASE f.form \in {"fails", "undated"}
      <4>1. t = [status |-> s.status, over |-> TRUE, found |-> FALSE, reg |-> s.reg, update |-> s.update]
        BY <1>2, <2>14, <3>1
      <4>. QED
        BY <2>15, <3>1, <4>1
    <3>2. CASE f.form = "cut"
      <4>1. t = [status |-> s.status, over |-> TRUE, found |-> FALSE, reg |-> reg, update |-> s.update]
        BY <1>2, <2>14, <3>2
      <4>. QED
        BY <2>15, <3>2, <4>1
    <3>3. CASE f.form \in {"refused", "file"}
      <4>1. t = [status |-> s.status + 1, over |-> FALSE, found |-> new, reg |-> reg, update |-> read]
        BY <1>2, <2>14, <3>3
      <4>. QED
        BY <2>9, <2>15, <3>3, <4>1
    <3>. QED
      BY <2>7, <3>1, <3>2, <3>3
  <2>17. t.found <=> NewIn(j, c)
    BY <2>5, <2>7, <2>10, <2>11, <2>16
  <2>18. /\ t.over <=> Answers(j, c, {"fails", "undated", "cut"})
         /\ t.status = IF Answers(j, c, {"refused", "file"}) THEN s.status + 1 ELSE s.status
         /\ t.reg = IF Answers(j, c, {"cut", "refused", "file"}) THEN reg ELSE s.reg
    BY <2>6, <2>16
  <2>19. \E m \in Most(j, c) : reg = WriteRegistryKey(s.reg, "last", j.channels[c][m].date)
    BY <2>1, <2>12 DEF f, r
  <2>. QED
    BY <2>16, <2>17, <2>18, <2>19 DEF t, r, app, os
<1>. QED
  BY <1>3, <1>4

\* The search in channels, and its states after each of the first n.
SearchIn(j, b, asked) == FoldLeft(LAMBDA s, c : CheckChannel(s, c, j), b, asked)
AreAsked(asked, j, n) ==
  asked \in Seq(ChannelType) /\ Len(asked) = n /\ \A k \in 1..n : asked[k] = j.channels[k]
States(L, j, b, n, asked) ==
  /\ SearchIn(j, b, asked) = L[n]
  /\ L \in [0..n -> Searching] /\ L[0] = b
  /\ \A k \in 1..n : L[k] = CheckChannel(L[k - 1], j.channels[k], j)

\* The search, channel by channel.
LEMMA SearchFollows ==
  ASSUME NEW j, SearchInput(j), NEW b \in Searching, NEW n \in 1..2,
         NEW asked, AreAsked(asked, j, n)
  PROVE  \E L : States(L, j, b, n, asked)
<1>. DEFINE R(f) == [s \in SUBSET (1..n) |-> IF s = {} THEN b ELSE CheckChannel(f[s \ {Max(s)}], asked[Max(s)], j)]
            M == CHOOSE f : f = R(f)
            F == [p \in (1..n) \X Searching |-> CheckChannel(p[2], asked[p[1]], j)]
<1>1. n \in Nat /\ DOMAIN asked = 1..n
  BY LenProperties DEF AreAsked
<1>2. SearchIn(j, b, asked) = M[1..n]
  BY <1>1 DEF SearchIn, FoldLeft, MapThenFoldSet
<1>3. ASSUME NEW k \in 1..n, NEW x \in Searching PROVE CheckChannel(x, asked[k], j) \in Searching
  <2>1. k \in 1..2 /\ asked[k] = j.channels[k]
    BY DEF AreAsked
  <2>2. CheckChannel(x, j.channels[k], j) \in Searching
    BY <2>1, CheckTyped
  <2>. QED
    BY <2>1, <2>2
<1>4. F \in Steps(n, Searching)
  BY <1>3 DEF Steps
<1>5. \A k \in 1..n, x \in Searching : F[<<k, x>>] = CheckChannel(x, asked[k], j)
  OBVIOUS
<1>. HIDE DEF F
<1>6. PICK f : IsFold(f, Searching, b, n, F)
  BY <1>1, <1>4, FoldExists
<1>7. f = R(f)
  <2>1. ASSUME NEW s \in SUBSET (1..n), s # {}
        PROVE  f[s] = CheckChannel(f[s \ {Max(s)}], asked[Max(s)], j)
    <3>1. Max(s) \in 1..n /\ f[s \ {Max(s)}] \in Searching
      BY <1>1, <1>6, <2>1, MaxIn DEF IsFold
    <3>. QED
      BY <1>5, <1>6, <2>1, <3>1 DEF IsFold
  <2>. QED
    BY <1>6, <2>1 DEF IsFold
<1>8. M = R(M)
  BY <1>7
<1>. HIDE DEF M
<1>9. M[{}] = b
  BY <1>8
<1>10. ASSUME NEW k \in 1..n, M[1..(k - 1)] \in Searching
       PROVE  M[1..k] = F[<<k, M[1..(k - 1)]>>]
  <2>1. 1..k \in SUBSET (1..n) /\ 1..k # {} /\ Max(1..k) = k /\ (1..k) \ {k} = 1..(k - 1)
    BY <1>1, FirstOnes
  <2>2. M[1..k] = CheckChannel(M[1..(k - 1)], asked[k], j)
    BY <1>8, <2>1
  <2>. QED
    BY <1>5, <1>10, <2>2
<1>a. PICK L : Goes(L, M, Searching, b, n, F)
  <2>1. Folded(M, Searching, b, n, F)
    BY <1>9, <1>10 DEF Folded
  <2>. QED
    BY <1>1, <1>4, <2>1, FoldedSteps
<1>11. /\ L \in [0..n -> Searching]
       /\ L[0] = b /\ L[n] = M[1..n] /\ \A k \in 1..n : L[k] = F[<<k, L[k - 1]>>]
  BY <1>a DEF Goes
<1>12. \A k \in 1..n : L[k - 1] \in Searching
  BY <1>1, <1>11
<1>13. \A k \in 1..n : L[k] = CheckChannel(L[k - 1], j.channels[k], j)
  BY <1>5, <1>11, <1>12, ZenonT(60) DEF AreAsked
<1>14. States(L, j, b, n, asked)
  BY <1>2, <1>11, <1>13 DEF States
<1>. QED
  BY <1>14

\* What is meant, channel by channel.
Online(j) == j.net.reached /\ j.net.opens /\ j.net.manager /\
             \E i \in DOMAIN j.net.answers : j.net.answers[i] \in
               {"connected"} \cup (IF j.net.connected THEN {"depends"} ELSE {})
Betas(j) == "betas" \in DOMAIN j.reg.values /\ j.reg.opens /\ j.reg.values["betas"] = 1
Channels(j) == IF ~ Online(j) THEN {} ELSE IF Betas(j) THEN 1..2 ELSE {1}
Reached(j) == {c \in Channels(j) : \A b \in 1..(c - 1) : ~ Answers(j, b, {"fails", "undated", "cut"}) /\ ~ NewIn(j, b)}
Dated(j) == {c \in Reached(j) : Answers(j, c, {"cut", "refused", "file"})}

\* What is meant of a search, its first guards resolved.
LEMMA MeantIs ==
  ASSUME NEW m, NEW j
  PROVE  SearchIsMeant(m, j) <=>
           /\ m.found <=> \E c \in Reached(j) : NewIn(j, c)
           /\ m.conclusion = IF m.found THEN "new version"
                             ELSE IF ~ Online(j) THEN "no connection"
                             ELSE IF \E c \in Reached(j) : Answers(j, c, {"refused", "file"}) THEN "no new version"
                             ELSE "no data"
           /\ IF Dated(j) = {} \/ ~ j.reg.writable \/ ~ j.reg.opens THEN m.reg = j.reg
              ELSE \A n \in Most(j, Max(Dated(j))) : m.reg.values["last"] = j.channels[Max(Dated(j))][n].date
  BY DEF SearchIsMeant, Reached, Dated, Online, Betas, Channels, Answers, NewIn, IsNew, Most

\* The first k channels that are reached, and the state s of the search after them.
Last1(j, c) == Answers(j, c, {"fails", "undated", "cut"}) \/ NewIn(j, c)
Reach(j, k) == {c \in 1..k : \A b \in 1..(c - 1) : ~ Last1(j, b)}
DatedOf(j, k) == {c \in Reach(j, k) : Answers(j, c, {"cut", "refused", "file"})}
Kept(j, k, reg) ==
  /\ reg.opens = j.reg.opens /\ reg.writable = j.reg.writable
  /\ DatedOf(j, k) = {} \/ ~ j.reg.writable \/ ~ j.reg.opens => reg = j.reg
  /\ j.reg.writable /\ j.reg.opens =>
       \A c \in DatedOf(j, k) : (\A d \in DatedOf(j, k) : d <= c) =>
         \E n \in Most(j, c) : reg.values["last"] = j.channels[c][n].date
After(j, k, s) ==
  /\ s.found <=> \E c \in Reach(j, k) : NewIn(j, c)
  /\ s.over <=> \E c \in Reach(j, k) : Answers(j, c, {"fails", "undated", "cut"})
  /\ s.found \/ ~ IsNewVersion(s.update, j.application, j.os)
  /\ s.status >= 2 /\ (s.status > 2 <=> \E c \in Reach(j, k) : Answers(j, c, {"refused", "file"}))
  /\ Kept(j, k, s.reg)

\* The channels reached by the k-th turn: one more, where no earlier one ends the search.
LEMMA ReachIs ==
  ASSUME NEW j, NEW k \in 1..2
  PROVE  /\ Reach(j, 0) = {} /\ \A c \in Reach(j, k - 1) : c \in 1..2 /\ c < k
         /\ Reach(j, k) = Reach(j, k - 1) \cup {c \in {k} : \A b \in Reach(j, k - 1) : ~ Last1(j, b)}
<1>1. Reach(j, 0) = {}
  BY DEF Reach
<1>2. \A c : c \in Reach(j, 1) <=> c = 1
  BY DEF Reach
<1>3. \A c : c \in Reach(j, 2) <=> c = 1 \/ (c = 2 /\ ~ Last1(j, 1))
  <2>1. 1..2 = {1, 2} /\ 1..(1 - 1) = {} /\ 1..(2 - 1) = {1}
    OBVIOUS
  <2>. QED
    BY <2>1 DEF Reach
<1>4. k = 1 \/ k = 2
  OBVIOUS
<1>5. CASE k = 1
  <2>1. Reach(j, k - 1) = {} /\ Reach(j, k) = {k}
    BY <1>1, <1>2, <1>5
  <2>. QED
    BY <1>1, <2>1
<1>6. CASE k = 2
  <2>1. Reach(j, k - 1) = {1} /\ \A c : c \in Reach(j, k) <=> c = 1 \/ (c = k /\ ~ Last1(j, 1))
    BY <1>2, <1>3, <1>6
  <2>. QED
    BY <1>1, <1>6, <2>1
<1>. QED
  BY <1>4, <1>5, <1>6

\* The date of the last check, once it is written.
LEMMA WrittenIs ==
  ASSUME NEW r \in Registries, NEW d \in Int
  PROVE  LET w == WriteRegistryKey(r, "last", d) IN
         /\ w.opens = r.opens /\ w.writable = r.writable
         /\ IF r.opens /\ r.writable THEN w.values["last"] = d ELSE w = r
<1>1. r.opens \in BOOLEAN /\ r.writable \in BOOLEAN
  BY DEF Registries
<1>. DEFINE f == [k \in DOMAIN r.values \cup {"last"} |-> IF k = "last" THEN d ELSE r.values[k]]
            w == WriteRegistryKey(r, "last", d)
<1>2. f["last"] = d
  OBVIOUS
<1>. HIDE DEF f
<1>3. CASE r.opens /\ r.writable
  <2>1. w = [r EXCEPT !.values = f]
    BY <1>3 DEF WriteRegistryKey, f
  <2>2. w.values = f /\ w.opens = r.opens /\ w.writable = r.writable
    BY <2>1 DEF Registries
  <2>. QED
    BY <1>2, <1>3, <2>2
<1>4. CASE ~ (r.opens /\ r.writable)
  BY <1>4 DEF WriteRegistryKey
<1>. QED
  BY <1>3, <1>4

\* The next channel leaves what is meant of the channels so far.
LEMMA AfterSteps ==
  ASSUME NEW j, SearchInput(j), NEW k \in 1..2, NEW s \in Searching, After(j, k - 1, s)
  PROVE  After(j, k, CheckChannel(s, j.channels[k], j))
<1>. DEFINE t == CheckChannel(s, j.channels[k], j)
            A == Reach(j, k - 1)
            B == Reach(j, k)
<1>. SUFFICES After(j, k, t)
  OBVIOUS
<1>1. /\ \A c \in A : c \in 1..2 /\ c < k
      /\ \A c : c \in B <=> c \in A \/ (c = k /\ \A b \in A : ~ Last1(j, b))
  BY ReachIs
<1>2. /\ s.found <=> \E c \in A : NewIn(j, c)
      /\ s.over <=> \E c \in A : Answers(j, c, {"fails", "undated", "cut"})
      /\ s.found \/ ~ IsNewVersion(s.update, j.application, j.os)
      /\ s.status >= 2 /\ (s.status > 2 <=> \E c \in A : Answers(j, c, {"refused", "file"}))
      /\ Kept(j, k - 1, s.reg)
  BY DEF After
<1>3. t \in Searching /\ (s.over \/ s.found => t = s)
  BY CheckTyped
<1>4. s.over \in BOOLEAN /\ s.found \in BOOLEAN /\ s.status \in Nat /\ s.reg \in Registries
  BY DEF Searching
<1>5. (s.over \/ s.found) <=> \E b \in A : Last1(j, b)
  BY <1>2 DEF Last1
<1>6. CASE s.over \/ s.found
  <2>1. A = B
    BY <1>1, <1>5, <1>6
  <2>2. Kept(j, k, s.reg)
    BY <1>2, <2>1 DEF Kept, DatedOf
  <2>. HIDE DEF t
  <2>3. t = s
    BY <1>3, <1>6
  <2>. HIDE DEF A, B
  <2>. QED
    BY <1>2, <2>1, <2>2, <2>3 DEF After, A, B
<1>7. CASE ~ s.over /\ ~ s.found
  <2>1. \A c : c \in B <=> c \in A \/ c = k
    BY <1>1, <1>5, <1>7
  <2>2. /\ t.found <=> NewIn(j, k)
        /\ t.over <=> Answers(j, k, {"fails", "undated", "cut"})
        /\ t.found \/ ~ IsNewVersion(t.update, j.application, j.os)
        /\ t.status = IF Answers(j, k, {"refused", "file"}) THEN s.status + 1 ELSE s.status
        /\ \/ Answers(j, k, {"cut", "refused", "file"})
              /\ \E n \in Most(j, k) : t.reg = WriteRegistryKey(s.reg, "last", j.channels[k][n].date)
           \/ ~ Answers(j, k, {"cut", "refused", "file"}) /\ t.reg = s.reg
    BY <1>2, <1>7, ChannelIs
  <2>3. \A n \in Most(j, k) : j.channels[k][n].date \in Int
    BY DEF Most, SearchInput, ChannelType, ReplyType
  <2>. HIDE DEF t, A, B
  <2>4. Kept(j, k, t.reg)
    <3>1. s.reg.opens = j.reg.opens /\ s.reg.writable = j.reg.writable
          /\ (DatedOf(j, k - 1) = {} \/ ~ j.reg.writable \/ ~ j.reg.opens => s.reg = j.reg)
          /\ (j.reg.writable /\ j.reg.opens =>
                \A c \in DatedOf(j, k - 1) : (\A d \in DatedOf(j, k - 1) : d <= c) =>
                  \E n \in Most(j, c) : s.reg.values["last"] = j.channels[c][n].date)
      BY <1>2 DEF Kept
    <3>2. CASE ~ Answers(j, k, {"cut", "refused", "file"})
      <4>1. DatedOf(j, k) = DatedOf(j, k - 1) /\ t.reg = s.reg
        BY <2>1, <2>2, <3>2 DEF DatedOf, A, B
      <4>. QED
        BY <3>1, <4>1 DEF Kept
    <3>3. CASE Answers(j, k, {"cut", "refused", "file"})
      <4>1. /\ k \in DatedOf(j, k)
            /\ \A c \in DatedOf(j, k) : c = k \/ ~ (\A d \in DatedOf(j, k) : d <= c)
        BY <1>1, <2>1, <3>3 DEF DatedOf, A, B
      <4>2. PICK n \in Most(j, k) : t.reg = WriteRegistryKey(s.reg, "last", j.channels[k][n].date)
        BY <2>2, <3>3
      <4>3. /\ t.reg.opens = s.reg.opens /\ t.reg.writable = s.reg.writable
            /\ IF s.reg.opens /\ s.reg.writable THEN t.reg.values["last"] = j.channels[k][n].date
               ELSE t.reg = s.reg
        BY <1>4, <2>3, <4>2, WrittenIs
      <4>4. j.reg.opens \in BOOLEAN /\ j.reg.writable \in BOOLEAN
        BY RegistryIs DEF SearchInput, Registries
      <4>. QED
        BY <3>1, <4>1, <4>3, <4>4 DEF Kept
    <3>. QED
      BY <3>2, <3>3
  <2>5. t.found <=> \E c \in B : NewIn(j, c)
    BY <1>2, <1>7, <2>1, <2>2
  <2>6. t.over <=> \E c \in B : Answers(j, c, {"fails", "undated", "cut"})
    BY <1>2, <1>7, <2>1, <2>2
  <2>7. t.status >= 2 /\ (t.status > 2 <=> \E c \in B : Answers(j, c, {"refused", "file"}))
    BY <1>2, <1>4, <2>1, <2>2
  <2>. QED
    BY <2>2, <2>4, <2>5, <2>6, <2>7 DEF After, B
<1>. QED
  BY <1>4, <1>6, <1>7

\* The search goes on where a session is had and the server is reached.
LEMMA OnlineIs ==
  ASSUME NEW j, SearchInput(j)
  PROVE  Online(j) <=> GetInternetSession(j.net) /\ j.net.reached
<1>1. DOMAIN j.net.answers = 1..(Retries + 1) /\ j.net.connected \in BOOLEAN
  BY DEF SearchInput
<1>. QED
  BY <1>1 DEF Online, GetInternetSession

\* The search starts with no channel tried.
LEMMA SearchStarts ==
  ASSUME NEW j, SearchInput(j)
  PROVE  LET u == [version |-> <<0, 0, 0, 0>>, platform_min |-> <<0, 0>>] IN
         /\ [status |-> 1, over |-> FALSE, found |-> FALSE, reg |-> j.reg, update |-> u] \in Searching
         /\ \A b : b.status = 2 /\ b.over = FALSE /\ b.found = FALSE /\ b.reg = j.reg /\ b.update = u => After(j, 0, b)
<1>. DEFINE v == <<0, 0, 0, 0>>
            u == [version |-> v, platform_min |-> <<0, 0>>]
<1>1. v \in Versions4 /\ \A i \in 1..4 : v[i] = 0
  <2>1. 0 \in Fields
    BY DeviceListAssumption DEF Fields
  <2>. QED
    BY <2>1 DEF Versions4
<1>2. u \in UpdateType /\ u.version = v
  BY <1>1 DEF UpdateType
<1>3. j.application \in Versions4 /\ j.os \in [1..2 -> Nat] /\ j.reg \in Registries
  BY RegistryIs DEF SearchInput
<1>4. ~ IsNewVersion(u, j.application, j.os)
  <2>1. DOMAIN j.application = 1..4 /\ \A i \in 1..4 : j.application[i] \in Nat
    BY <1>3, DeviceListAssumption DEF Versions4, Fields
  <2>. HIDE DEF v, u
  <2>2. ~ Less(j.application, v)
    BY <1>1, <2>1 DEF Less
  <2>. QED
    BY <1>2, <1>3, <2>2, NewIs
<1>. HIDE DEF u
<1>5. [status |-> 1, over |-> FALSE, found |-> FALSE, reg |-> j.reg, update |-> u] \in Searching
  BY <1>2, <1>3 DEF Searching
<1>6. Reach(j, 0) = {}
  BY DEF Reach
<1>7. DatedOf(j, 0) = {}
  BY <1>6 DEF DatedOf
<1>8. ASSUME NEW b, b.status = 2, b.over = FALSE, b.found = FALSE, b.reg = j.reg, b.update = u
      PROVE  After(j, 0, b)
  <2>1. Kept(j, 0, b.reg)
    BY <1>7, <1>8 DEF Kept
  <2>. QED
    BY <1>4, <1>6, <1>8, <2>1 DEF After
<1>. QED
  BY <1>5, <1>8 DEF u

\* The search finds what is meant.
LEMMA SearchMeant ==
  ASSUME NEW j, SearchInput(j)
  PROVE  SearchIsMeant(SearchUpdate(j), j)
<1>. DEFINE u == [version |-> <<0, 0, 0, 0>>, platform_min |-> <<0, 0>>]
            first == [status |-> 1, over |-> FALSE, found |-> FALSE, reg |-> j.reg, update |-> u]
            b == [first EXCEPT !.status = 2]
            asked == IF ReadRegistryKey(j.reg, "betas") # 0 THEN j.channels ELSE SubSeq(j.channels, 1, 1)
            n == IF ReadRegistryKey(j.reg, "betas") # 0 THEN 2 ELSE 1
            ended == IF ~GetInternetSession(j.net) \/ ~j.net.reached THEN first ELSE SearchIn(j, b, asked)
            m == SearchUpdate(j)
<1>1. m = [found |-> ended.found, reg |-> ended.reg, conclusion |-> Conclusion(ended)]
  BY DEF SearchUpdate, SearchIn
<1>2. first \in Searching
  BY SearchStarts
<1>3. b \in Searching /\ After(j, 0, b)
  <2>1. b \in Searching
    <3>1. \A x \in Searching : [x EXCEPT !.status = 2] \in Searching
      BY DEF Searching
    <3>. HIDE DEF first
    <3>. QED
      BY <1>2, <3>1
  <2>2. b.status = 2 /\ b.over = FALSE /\ b.found = FALSE /\ b.reg = j.reg /\ b.update = u
    <3>. HIDE DEF u
    <3>. QED
      OBVIOUS
  <2>. HIDE DEF b
  <2>. QED
    BY <2>1, <2>2, SearchStarts
<1>4. first.status = 1 /\ first.found = FALSE /\ first.reg = j.reg
  OBVIOUS
<1>. HIDE DEF first, b
<1>5. n \in 1..2 /\ asked \in Seq(ChannelType) /\ Len(asked) = n /\ \A k \in 1..n : asked[k] = j.channels[k]
  <2>1. j.channels \in [1..2 -> ChannelType]
    BY DEF SearchInput
  <2>. DEFINE cs == j.channels
              C == ChannelType
  <2>2. cs \in Seq(C) /\ Len(cs) = 2
    <3>. DEFINE two == 2
    <3>1. two \in Nat /\ cs \in [1..two -> C]
      BY <2>1
    <3>. HIDE DEF two, cs, C
    <3>2. cs \in Seq(C)
      BY <3>1, SeqDef
    <3>3. Len(cs) \in Nat /\ DOMAIN cs = 1..Len(cs) /\ DOMAIN cs = 1..two
      BY <3>1, <3>2, LenProperties
    <3>4. Len(cs) = two
      BY <3>1, <3>3
    <3>. QED
      BY <3>2, <3>4 DEF two
  <2>. HIDE DEF cs, C
  <2>3. SubSeq(cs, 1, 1) \in Seq(C) /\ Len(SubSeq(cs, 1, 1)) = 1 /\ SubSeq(cs, 1, 1)[1] = cs[1]
    <3>. DEFINE a == 1
    <3>1. a \in 1..(Len(cs) + 1) /\ a \in (a - 1)..Len(cs) /\ a - a + 1 = 1 /\ a + 1 - 1 = 1 /\ 1 \in 1..(a - a + 1)
      BY <2>2
    <3>. HIDE DEF a
    <3>2. /\ SubSeq(cs, a, a) \in Seq(C) /\ Len(SubSeq(cs, a, a)) = a - a + 1
          /\ \A i \in 1..(a - a + 1) : SubSeq(cs, a, a)[i] = cs[a + i - 1]
      BY <2>2, <3>1, PartIs
    <3>3. SubSeq(cs, a, a) \in Seq(C) /\ Len(SubSeq(cs, a, a)) = 1 /\ SubSeq(cs, a, a)[1] = cs[1]
      BY <3>1, <3>2
    <3>. QED
      BY <3>3 DEF a
  <2>4. CASE ReadRegistryKey(j.reg, "betas") # 0
    BY <2>2, <2>4 DEF cs, C
  <2>5. CASE ReadRegistryKey(j.reg, "betas") = 0
    <3>1. n = 1 /\ asked = SubSeq(cs, 1, 1)
      BY <2>5 DEF cs
    <3>. HIDE DEF n, asked
    <3>2. \A k \in 1..n : k = 1
      BY <3>1
    <3>. QED
      BY <2>3, <3>1, <3>2 DEF cs, C
  <2>. QED
    BY <2>4, <2>5
<1>6. Betas(j) <=> n = 2
  <2>1. ReadRegistryKey(j.reg, "betas") \in {0, 1}
    BY DEF SearchInput
  <2>. QED
    BY <2>1 DEF Betas, ReadRegistryKey
<1>7. Online(j) <=> ~ (~ GetInternetSession(j.net) \/ ~ j.net.reached)
  BY OnlineIs
<1>. HIDE DEF n, asked, m
<1>8. CASE ~ Online(j)
  <2>1. ended = first
    BY <1>7, <1>8
  <2>2. Channels(j) = {}
    BY <1>8 DEF Channels
  <2>3. Reached(j) = {} /\ Dated(j) = {}
    BY <2>2 DEF Reached, Dated
  <2>. HIDE DEF ended
  <2>4. Conclusion(ended) = "no connection"
    BY <1>4, <2>1 DEF Conclusion
  <2>5. m.found = FALSE /\ m.reg = j.reg /\ m.conclusion = "no connection"
    BY <1>1, <1>4, <2>1, <2>4
  <2>. QED
    BY <1>8, <2>3, <2>5, MeantIs DEF m
<1>9. CASE Online(j)
  <2>1. ended = SearchIn(j, b, asked)
    BY <1>7, <1>9
  <2>2. PICK L : States(L, j, b, n, asked)
    <3>1. b \in Searching /\ n \in 1..2 /\ AreAsked(asked, j, n)
      BY <1>3, <1>5 DEF AreAsked
    <3>. HIDE DEF ended
    <3>. QED
      BY <3>1, SearchFollows
  <2>3. /\ L \in [0..n -> Searching] /\ L[0] = b /\ SearchIn(j, b, asked) = L[n]
        /\ \A k \in 1..n : L[k] = CheckChannel(L[k - 1], j.channels[k], j)
    BY <2>2 DEF States
  <2>4. ASSUME NEW k \in 1..n, After(j, k - 1, L[k - 1]) PROVE After(j, k, L[k])
    <3>1. k \in 1..2 /\ L[k - 1] \in Searching
      BY <1>5, <2>3
    <3>2. After(j, k, CheckChannel(L[k - 1], j.channels[k], j))
      BY <2>4, <3>1, AfterSteps
    <3>. QED
      BY <2>3, <3>2
  <2>5. After(j, n, L[n])
    <3>1. After(j, 1, L[1])
      <4>1. After(j, 0, L[0]) /\ 1 \in 1..n /\ 1 - 1 = 0
        BY <1>3, <1>5, <2>3
      <4>. QED
        BY <2>4, <4>1
    <3>2. ASSUME n = 2 PROVE After(j, 2, L[2])
      <4>1. 2 \in 1..n /\ 2 - 1 = 1
        BY <3>2
      <4>. QED
        BY <2>4, <3>1, <4>1
    <3>. QED
      BY <1>5, <3>1, <3>2
  <2>. HIDE DEF ended
  <2>6. ended = L[n] /\ ended \in Searching
    <3>1. n \in 0..n
      BY <1>5
    <3>2. L[n] \in Searching
      BY <2>3, <3>1
    <3>3. ended = L[n]
      BY <2>1, <2>3
    <3>. QED
      BY <3>2, <3>3
  <2>7. Reached(j) = Reach(j, n) /\ Dated(j) = DatedOf(j, n)
    <3>1. Channels(j) = 1..n
      <4>1. Channels(j) = IF Betas(j) THEN 1..2 ELSE {1}
        BY <1>9 DEF Channels
      <4>2. CASE n = 1
        <5>1. 1..n = {1}
          BY <4>2
        <5>. QED
          BY <1>6, <4>1, <4>2, <5>1
      <4>3. CASE n = 2
        BY <1>6, <4>1, <4>3
      <4>. QED
        BY <1>5, <4>2, <4>3
    <3>2. Reached(j) = Reach(j, n)
      BY <3>1 DEF Reached, Reach, Last1
    <3>. QED
      BY <3>2 DEF Dated, DatedOf
  <2>8. /\ ended.found <=> \E c \in Reached(j) : NewIn(j, c)
        /\ ended.status >= 2 /\ (ended.status > 2 <=> \E c \in Reached(j) : Answers(j, c, {"refused", "file"}))
        /\ Kept(j, n, ended.reg)
    BY <2>5, <2>6, <2>7 DEF After
  <2>9. \A c : NewIn(j, c) => Answers(j, c, {"refused", "file"})
    BY DEF NewIn, IsNew, Answers
  <2>10. ended.found \in BOOLEAN /\ ended.status \in Nat
    BY <2>6 DEF Searching
  <2>11. Conclusion(ended) = IF ended.status = 2 THEN "no data" ELSE IF ended.found THEN "new version" ELSE "no new version"
    <3>1. ended.status # 1
      BY <2>8, <2>10
    <3>2. CASE ended.status = 2
      BY <3>2 DEF Conclusion
    <3>3. CASE ended.status # 2
      BY <3>1, <3>3 DEF Conclusion
    <3>. QED
      BY <3>2, <3>3
  <2>12. m.found = ended.found /\ m.reg = ended.reg /\ m.conclusion = Conclusion(ended)
    BY <1>1
  <2>13. m.conclusion = IF m.found THEN "new version"
                        ELSE IF \E c \in Reached(j) : Answers(j, c, {"refused", "file"}) THEN "no new version"
                        ELSE "no data"
    <3>1. ended.found => \E c \in Reached(j) : Answers(j, c, {"refused", "file"})
      BY <2>8, <2>9
    <3>2. ended.status > 2 <=> ended.status # 2
      BY <2>8, <2>10
    <3>3. ended.status = 2 <=> ~ \E c \in Reached(j) : Answers(j, c, {"refused", "file"})
      BY <2>8, <3>2
    <3>. DEFINE any == \E c \in Reached(j) : Answers(j, c, {"refused", "file"})
    <3>4. (ended.status = 2 <=> ~ any) /\ (ended.found => any) /\ (m.found <=> ended.found)
      BY <2>12, <3>1, <3>3
    <3>. HIDE DEF any
    <3>5. m.conclusion = IF m.found THEN "new version" ELSE IF any THEN "no new version" ELSE "no data"
      BY <2>11, <2>12, <3>4
    <3>. QED
      BY <3>5 DEF any
  <2>14. IF Dated(j) = {} \/ ~ j.reg.writable \/ ~ j.reg.opens THEN m.reg = j.reg
         ELSE \A k \in Most(j, Max(Dated(j))) : m.reg.values["last"] = j.channels[Max(Dated(j))][k].date
    <3>1. Dated(j) = {} \/ ~ j.reg.writable \/ ~ j.reg.opens => m.reg = j.reg
      BY <2>7, <2>8, <2>12 DEF Kept
    <3>2. ASSUME Dated(j) # {}, j.reg.writable, j.reg.opens
          PROVE  \A k \in Most(j, Max(Dated(j))) : m.reg.values["last"] = j.channels[Max(Dated(j))][k].date
      <4>. DEFINE c == Max(Dated(j))
      <4>1. Dated(j) \in SUBSET (1..n) /\ n \in Nat
        BY <1>5, <2>7 DEF DatedOf, Reach
      <4>2. c \in Dated(j) /\ \A d \in Dated(j) : d <= c
        BY <3>2, <4>1, MaxIn
      <4>. HIDE DEF c
      <4>3. \E k \in Most(j, c) : m.reg.values["last"] = j.channels[c][k].date
        BY <2>7, <2>8, <2>12, <3>2, <4>2 DEF Kept
      <4>4. \A k, l \in Most(j, c) : k = l
        <5>1. c \in 1..2
          BY <1>5, <4>1, <4>2
        <5>. QED
          BY <5>1, MostIs
      <4>. QED
        BY <4>3, <4>4 DEF c
    <3>. QED
      BY <3>1, <3>2
  <2>. QED
    BY <1>9, <2>8, <2>12, <2>13, <2>14, MeantIs DEF m
<1>. QED
  BY <1>8, <1>9 DEF m

--------------------------------------------------------------------------------
(* The name of the inf of a device.                                             *)
Bad == Unauthorized \cup Blanks
Letters == STRING \cup {Underscore}
Named1(s, c) == IF c \in Unauthorized THEN s ELSE Append(s, IF c \in Blanks THEN Underscore ELSE c)
Namings(L, w) ==
  /\ L \in [0..Len(w) -> Seq(Letters)] /\ L[0] = <<>>
  /\ \A k \in 1..Len(w) : L[k] = Named1(L[k - 1], w[k])
  /\ FoldLeft(Named1, <<>>, w) = L[Len(w)]

\* The name of the inf file, character by character.
LEMMA NameFollows ==
  ASSUME NEW w \in Seq(STRING)
  PROVE  \E L : Namings(L, w)
<1>. DEFINE n == Len(w)
            S == Seq(Letters)
            none == <<>>
            R(f) == [s \in SUBSET (1..n) |-> IF s = {} THEN none ELSE Named1(f[s \ {Max(s)}], w[Max(s)])]
            M == CHOOSE f : f = R(f)
            F == [p \in (1..n) \X S |-> Named1(p[2], w[p[1]])]
            all == FoldLeft(Named1, <<>>, w)
<1>1. n \in Nat /\ DOMAIN w = 1..n /\ \A i \in 1..n : w[i] \in STRING
  BY LenProperties, ElementOfSeq
<1>2. all = M[1..n]
  BY <1>1 DEF FoldLeft, MapThenFoldSet
<1>. HIDE DEF all
<1>3. ASSUME NEW k \in 1..n, NEW s \in S PROVE Named1(s, w[k]) \in S
  <2>1. Underscore \in Letters /\ w[k] \in Letters
    BY <1>1 DEF Letters
  <2>2. \A c \in Letters : Append(s, c) \in S
    BY AppendProperties
  <2>. QED
    BY <2>1, <2>2 DEF Named1
<1>4. F \in Steps(n, S)
  <2>. HIDE DEF S
  <2>. QED
    BY <1>3 DEF Steps
<1>5. \A k \in 1..n, x \in S : F[<<k, x>>] = Named1(x, w[k])
  OBVIOUS
<1>6. none \in S
  BY EmptySeq
<1>. HIDE DEF F, S, none, n
<1>7. PICK f : IsFold(f, S, none, n, F)
  <2>1. n \in Nat
    BY <1>1
  <2>. QED
    BY <1>4, <1>6, <2>1, FoldExists
<1>8. f = R(f)
  <2>1. ASSUME NEW s \in SUBSET (1..n), s # {}
        PROVE  f[s] = Named1(f[s \ {Max(s)}], w[Max(s)])
    <3>1. Max(s) \in 1..n /\ f[s \ {Max(s)}] \in S
      BY <1>1, <1>7, <2>1, MaxIn DEF IsFold
    <3>. QED
      BY <1>5, <1>7, <2>1, <3>1 DEF IsFold
  <2>. QED
    BY <1>7, <2>1 DEF IsFold
<1>9. M = R(M)
  BY <1>8
<1>. HIDE DEF M
<1>10. M[{}] = none
  BY <1>9
<1>11. ASSUME NEW k \in 1..n, M[1..(k - 1)] \in S
       PROVE  M[1..k] = F[<<k, M[1..(k - 1)]>>]
  <2>1. 1..k \in SUBSET (1..n) /\ 1..k # {} /\ Max(1..k) = k /\ (1..k) \ {k} = 1..(k - 1)
    BY <1>1, FirstOnes
  <2>2. M[1..k] = Named1(M[1..(k - 1)], w[k])
    BY <1>9, <2>1
  <2>. QED
    BY <1>5, <1>11, <2>2
<1>12. PICK L \in [0..n -> S] :
         L[0] = none /\ L[n] = M[1..n] /\ \A k \in 1..n : L[k] = F[<<k, L[k - 1]>>]
  <2>1. n \in Nat
    BY <1>1
  <2>. QED
    BY <1>4, <1>6, <1>10, <1>11, <2>1, FoldSteps
<1>13. \A k \in 1..n : L[k - 1] \in S
  BY <1>1
<1>14. \A k \in 1..n : L[k] = Named1(L[k - 1], w[k])
  BY <1>5, <1>12, <1>13
<1>15. Namings(L, w)
  BY <1>2, <1>12, <1>14 DEF Namings, n, S, none, all
<1>. QED
  BY <1>15

\* What the name is after k characters, of which the first z are of the description.
NameAfter(w, z, s, k) ==
  /\ Len(s) <= k /\ \A i \in 1..Len(s) : s[i] \notin Bad
  /\ k >= z => Len(s) >= k - z /\ \A i \in 1..(k - z) : s[Len(s) - (k - z) + i] = w[z + i]
  /\ (\A i \in 1..k : w[i] \notin Bad) => Len(s) = k /\ \A i \in 1..k : s[i] = w[i]

\* The next character leaves what is meant of the characters so far.
LEMMA NameSteps ==
  ASSUME Underscore \notin Bad, NEW w \in Seq(STRING), NEW z \in 0..Len(w),
         \A i \in (z + 1)..Len(w) : w[i] \notin Bad,
         NEW k \in 1..Len(w), NEW s \in Seq(Letters), NameAfter(w, z, s, k - 1)
  PROVE  NameAfter(w, z, Named1(s, w[k]), k)
<1>1. Len(w) \in Nat /\ Len(s) \in Nat /\ z \in Nat /\ k \in Nat /\ k >= 1
  BY LenProperties
<1>2. /\ Len(s) <= k - 1 /\ \A i \in 1..Len(s) : s[i] \notin Bad
      /\ k - 1 >= z => Len(s) >= k - 1 - z /\ \A i \in 1..(k - 1 - z) : s[Len(s) - (k - 1 - z) + i] = w[z + i]
      /\ (\A i \in 1..(k - 1) : w[i] \notin Bad) => Len(s) = k - 1 /\ \A i \in 1..(k - 1) : s[i] = w[i]
  BY DEF NameAfter
<1>3. k > z => w[k] \notin Bad
  BY <1>1
<1>4. CASE w[k] \in Unauthorized
  <2>1. w[k] \in Bad /\ Named1(s, w[k]) = s /\ k <= z
    BY <1>1, <1>3, <1>4 DEF Bad, Named1
  <2>2. k >= z => k = z
    BY <1>1, <2>1
  <2>3. 1..(k - z) = {} \/ k > z
    BY <1>1
  <2>. QED
    BY <1>1, <1>2, <2>1, <2>2, <2>3 DEF NameAfter
<1>5. CASE w[k] \notin Unauthorized
  <2>. DEFINE c == IF w[k] \in Blanks THEN Underscore ELSE w[k]
              t == Append(s, c)
  <2>1. c \notin Bad /\ (w[k] \notin Bad => c = w[k])
    BY <1>5 DEF Bad
  <2>2. c \in Letters
    BY ElementOfSeq DEF Letters
  <2>. HIDE DEF c
  <2>3. Len(t) = Len(s) + 1 /\ t[Len(s) + 1] = c /\ \A i \in 1..Len(s) : t[i] = s[i]
    BY <2>2, AppendProperties
  <2>4. Named1(s, w[k]) = t
    BY <1>5 DEF Named1, c
  <2>. HIDE DEF t
  <2>5. Len(t) <= k /\ \A i \in 1..Len(t) : t[i] \notin Bad
    <3>1. \A i \in 1..Len(t) : i \in 1..Len(s) \/ i = Len(s) + 1
      BY <1>1, <2>3
    <3>. QED
      BY <1>1, <1>2, <2>1, <2>3, <3>1
  <2>6. ASSUME k >= z PROVE Len(t) >= k - z /\ \A i \in 1..(k - z) : t[Len(t) - (k - z) + i] = w[z + i]
    <3>1. CASE k = z
      BY <1>1, <2>3, <3>1
    <3>2. CASE k > z
      <4>1. Len(s) >= k - 1 - z /\ \A i \in 1..(k - 1 - z) : s[Len(s) - (k - 1 - z) + i] = w[z + i]
        BY <1>1, <1>2, <3>2
      <4>2. w[k] \notin Bad
        BY <1>3, <3>2
      <4>3. ASSUME NEW i \in 1..(k - z) PROVE t[Len(t) - (k - z) + i] = w[z + i]
        <5>1. CASE i = k - z
          <6>1. Len(t) - (k - z) + i = Len(s) + 1 /\ z + i = k
            BY <1>1, <2>3, <5>1
          <6>. QED
            BY <2>1, <2>3, <4>2, <6>1
        <5>2. CASE i # k - z
          <6>1. i \in 1..(k - 1 - z) /\ Len(t) - (k - z) + i = Len(s) - (k - 1 - z) + i
                /\ Len(s) - (k - 1 - z) + i \in 1..Len(s)
            BY <1>1, <2>3, <4>1, <5>2
          <6>2. s[Len(s) - (k - 1 - z) + i] = w[z + i]
            BY <4>1, <6>1
          <6>. QED
            BY <2>3, <6>1, <6>2
        <5>. QED
          BY <5>1, <5>2
      <4>. QED
        BY <1>1, <2>3, <4>1, <4>3
    <3>. QED
      BY <1>1, <2>6, <3>1, <3>2
  <2>7. ASSUME \A i \in 1..k : w[i] \notin Bad PROVE Len(t) = k /\ \A i \in 1..k : t[i] = w[i]
    <3>1. (\A i \in 1..(k - 1) : i \in 1..k) /\ k \in 1..k
      BY <1>1
    <3>2. Len(s) = k - 1 /\ \A i \in 1..(k - 1) : s[i] = w[i]
      BY <1>2, <2>7, <3>1
    <3>3. \A i \in 1..k : i \in 1..(k - 1) \/ i = k
      BY <1>1
    <3>4. w[k] \notin Bad /\ Len(t) = k /\ t[k] = c
      BY <1>1, <2>3, <2>7, <3>1, <3>2
    <3>. QED
      BY <2>1, <2>3, <3>2, <3>3, <3>4
  <2>. QED
    BY <2>4, <2>5, <2>6, <2>7 DEF NameAfter
<1>. QED
  BY <1>4, <1>5

\* A sequence whose last members are another one has it as a suffix.
LEMMA SuffixHolds ==
  ASSUME NEW S, NEW s \in Seq(S), NEW T, NEW t \in Seq(T), Len(s) <= Len(t),
         \A i \in 1..Len(s) : t[Len(t) - Len(s) + i] = s[i]
  PROVE  IsSuffix(s, t)
<1>. DEFINE a == Len(s)
            b == Len(t)
            r == Reverse(s)
            q == Reverse(t)
            one == 1
<1>1. a \in Nat /\ b \in Nat /\ a <= b
  BY LenProperties
<1>2. /\ r = [i \in 1..a |-> s[(a - i) + 1]] /\ r \in Seq(S) /\ Len(r) = a
      /\ q = [i \in 1..b |-> t[(b - i) + 1]] /\ q \in Seq(T) /\ Len(q) = b
  <2>1. r = [i \in 1..a |-> s[(a - i) + 1]] /\ q = [i \in 1..b |-> t[(b - i) + 1]]
    BY DEF Reverse
  <2>2. (\A i \in 1..a : s[(a - i) + 1] \in S) /\ \A i \in 1..b : t[(b - i) + 1] \in T
    <3>1. \A i \in 1..a : (a - i) + 1 \in 1..a
      BY <1>1
    <3>2. \A i \in 1..b : (b - i) + 1 \in 1..b
      BY <1>1
    <3>. QED
      BY <3>1, <3>2, ElementOfSeq
  <2>. HIDE DEF a, b
  <2>3. r \in [1..a -> S] /\ q \in [1..b -> T]
    BY <2>1, <2>2
  <2>. HIDE DEF r, q
  <2>4. r \in Seq(S) /\ q \in Seq(T)
    BY <1>1, <2>3, SeqDef
  <2>5. DOMAIN r = 1..a /\ DOMAIN q = 1..b
    BY <2>3
  <2>6. Len(r) = a
    <3>1. Len(r) \in Nat /\ DOMAIN r = 1..Len(r)
      BY <2>4, LenProperties
    <3>. QED
      BY <1>1, <2>5, <3>1
  <2>7. Len(q) = b
    <3>1. Len(q) \in Nat /\ DOMAIN q = 1..Len(q)
      BY <2>4, LenProperties
    <3>. QED
      BY <1>1, <2>5, <3>1
  <2>. QED
    BY <2>1, <2>4, <2>6, <2>7
<1>3. \A i \in 1..a : r[i] = q[i]
  <2>. SUFFICES ASSUME NEW i \in 1..a PROVE r[i] = q[i]
    OBVIOUS
  <2>1. (a - i) + 1 \in 1..a /\ b - a + ((a - i) + 1) = (b - i) + 1 /\ i \in 1..b
    BY <1>1
  <2>. DEFINE k == (a - i) + 1
  <2>2. t[b - a + k] = s[k]
    BY <2>1
  <2>. HIDE DEF r, q
  <2>3. r[i] = s[k] /\ q[i] = t[(b - i) + 1]
    BY <1>2, <2>1
  <2>. HIDE DEF a, b
  <2>. QED
    BY <2>1, <2>2, <2>3
<1>. HIDE DEF r, q, a, b
<1>4. SubSeq(r, 1, a) = SubSeq(q, 1, a)
  <2>. DEFINE x == SubSeq(r, one, a)
              y == SubSeq(q, one, a)
  <2>1. one \in 1..(Len(r) + 1) /\ a \in (one - 1)..Len(r) /\ one \in 1..(Len(q) + 1) /\ a \in (one - 1)..Len(q)
        /\ a - one + 1 = a /\ one = 1
    BY <1>1, <1>2
  <2>. HIDE DEF one
  <2>2. x \in Seq(S) /\ Len(x) = a - one + 1 /\ \A i \in 1..(a - one + 1) : x[i] = r[one + i - 1]
    BY <1>2, <2>1, PartIs
  <2>3. y \in Seq(T) /\ Len(y) = a - one + 1 /\ \A i \in 1..(a - one + 1) : y[i] = q[one + i - 1]
    <3>1. q \in Seq(T)
      BY <1>2
    <3>2. one \in 1..(Len(q) + 1) /\ a \in (one - 1)..Len(q)
      BY <2>1
    <3>. QED
      BY <3>1, <3>2, PartIs
  <2>. HIDE DEF x, y
  <2>4. \A i \in 1..a : one + i - 1 = i
    BY <2>1
  <2>5. \A i \in 1..a : x[i] = y[i]
    BY <1>3, <2>1, <2>2, <2>3, <2>4
  <2>6. x = [i \in 1..a |-> x[i]]
    BY <2>1, <2>2, LenProperties
  <2>7. y = [i \in 1..a |-> y[i]]
    BY <2>1, <2>3, LenProperties
  <2>8. x = y
    BY <2>5, <2>6, <2>7
  <2>. QED
    BY <2>1, <2>8 DEF x, y
<1>5. IsPrefix(r, q)
  BY <1>1, <1>2, <1>4 DEF IsPrefix
<1>. QED
  BY <1>5 DEF IsSuffix, r, q

\* The name of an inf is one that a file can have.
LEMMA NameMeant ==
  ASSUME NEW name \in Seq(STRING), NEW ext \in Seq(STRING), Underscore \notin Bad, ToSet(ext) \cap Bad = {}
  PROVE  NameIsMeant(ToValidFilename(name, ext), name, ext)
<1>. DEFINE w == name \o ext
            z == Len(name)
            n == Len(w)
            text == ToValidFilename(name, ext)
            all == FoldLeft(Named1, <<>>, w)
<1>1. text = <<"none">> \/ text = all
  BY DEF ToValidFilename, Named1
<1>2. /\ w \in Seq(STRING) /\ n = z + Len(ext) /\ z \in Nat /\ Len(ext) \in Nat
      /\ \A i \in 1..z : w[i] = name[i]
      /\ \A i \in 1..Len(ext) : w[z + i] = ext[i]
  BY JoinIs
<1>3. DOMAIN ext = 1..Len(ext) /\ DOMAIN name = 1..z
  BY LenProperties
<1>. HIDE DEF w, z, all, text
<1>4. \A i \in (z + 1)..n : w[i] \notin Bad
  <2>. SUFFICES ASSUME NEW i \in (z + 1)..n PROVE w[i] \notin Bad
    OBVIOUS
  <2>1. i - z \in 1..Len(ext) /\ z + (i - z) = i
    BY <1>2
  <2>2. w[i] = ext[i - z]
    BY <1>2, <2>1
  <2>. QED
    BY <1>3, <2>1, <2>2 DEF ToSet
<1>5. PICK L : Namings(L, w)
  BY <1>2, NameFollows
<1>6. /\ L \in [0..n -> Seq(Letters)] /\ L[0] = <<>> /\ all = L[n]
      /\ \A k \in 1..n : L[k] = Named1(L[k - 1], w[k])
  BY <1>5 DEF Namings, all
<1>7. n \in Nat /\ z \in 0..n
  BY <1>2
<1>. DEFINE T == {k \in 0..n : NameAfter(w, z, L[k], k)}
<1>8. 0 \in T
  <2>1. Len(L[0]) = 0 /\ 1..0 = {}
    BY <1>6
  <2>2. 0 >= z => 0 - z = 0
    BY <1>7
  <2>. HIDE DEF n
  <2>. QED
    BY <1>7, <2>1, <2>2 DEF NameAfter
<1>9. ASSUME NEW k \in 1..n, k - 1 \in T PROVE k \in T
  <2>1. L[k - 1] \in Seq(Letters) /\ NameAfter(w, z, L[k - 1], k - 1) /\ k \in 0..n
    BY <1>6, <1>7, <1>9, SMTT(30)
  <2>2. NameAfter(w, z, Named1(L[k - 1], w[k]), k)
    BY <1>2, <1>4, <1>7, <2>1, NameSteps
  <2>. QED
    BY <1>6, <2>1, <2>2
<1>10. NameAfter(w, z, all, n) /\ all \in Seq(Letters)
  <2>. HIDE DEF T, n
  <2>1. 0..n \subseteq T
    BY <1>7, <1>8, <1>9, UpTo
  <2>2. n \in 0..n
    BY <1>7
  <2>. QED
    BY <1>6, <2>1, <2>2 DEF T
<1>11. /\ Len(all) <= n /\ (\A i \in 1..Len(all) : all[i] \notin Bad) /\ Len(all) \in Nat /\ DOMAIN all = 1..Len(all)
       /\ Len(all) >= n - z /\ \A i \in 1..(n - z) : all[Len(all) - (n - z) + i] = w[z + i]
  BY <1>7, <1>10, LenProperties DEF NameAfter
<1>12. (\A i \in 1..n : w[i] \notin Bad) => Len(all) = n /\ \A i \in 1..n : all[i] = w[i]
  BY <1>10 DEF NameAfter
<1>13. ToSet(all) \cap Bad = {}
  BY <1>11 DEF ToSet
<1>14. IsSuffix(ext, all)
  <2>1. n - z = Len(ext)
    BY <1>2
  <2>2. Len(ext) <= Len(all) /\ \A i \in 1..Len(ext) : all[Len(all) - Len(ext) + i] = ext[i]
    BY <1>2, <1>11, <2>1
  <2>. QED
    BY <1>10, <2>2, SuffixHolds
<1>15. ASSUME ToSet(name) \cap Bad = {} PROVE all = w
  <2>1. \A i \in 1..n : i \in 1..z \/ i \in (z + 1)..n
    BY <1>7
  <2>2. \A i \in 1..z : w[i] \notin Bad
    BY <1>2, <1>3, <1>15 DEF ToSet
  <2>3. Len(all) = n /\ \A i \in 1..n : all[i] = w[i]
    BY <1>4, <1>12, <2>1, <2>2
  <2>4. DOMAIN w = 1..n
    BY <1>2, LenProperties
  <2>. QED
    BY <1>2, <1>11, <2>3, <2>4, <1>10, LenProperties
<1>. QED
  BY <1>1, <1>11, <1>13, <1>14, <1>15 DEF NameIsMeant, Bad, text, w

--------------------------------------------------------------------------------
(* The header of the files that an application carries.                         *)
ArrayType == [name : Nat, data : Nat]
Writes1(files, arrays, i) == IF files[i].reuse THEN arrays ELSE Append(arrays, Array(files, i))
Writings(L, files) ==
  /\ L \in [0..Len(files) -> Seq(ArrayType)] /\ L[0] = <<>>
  /\ \A k \in 1..Len(files) : L[k] = Writes1(files, L[k - 1], k)
  /\ \A now : MakeHeader(files, now) =
       IF \E i \in DOMAIN files : ~files[i].reuse /\ ~(files[i].opens /\ files[i].readable)
       THEN [code |-> 1, header |-> NoHeader]
       ELSE [code |-> 0,
             header |-> [there |-> TRUE, time |-> now, arrays |-> L[Len(files)],
                         entries |-> [i \in DOMAIN files |-> Entry(files, i)]]]

\* The array the embedder writes for a file.
LEMMA ArrayIs ==
  ASSUME NEW files \in Seq(FileType), NEW i \in 1..Len(files)
  PROVE  /\ Array(files, i) \in ArrayType /\ Array(files, i).data = files[i].data
         /\ Len(files) <= ArrayNames => Array(files, i).name = i - 1
<1>1. files[i] \in FileType
  BY ElementOfSeq
<1>2. files[i].data \in Nat
  BY <1>1 DEF FileType
<1>3. ArrayNames \in Nat \ {0} /\ Len(files) \in Nat
  BY EmbedderAssumption, LenProperties
<1>4. ArrayName(i) \in Nat /\ (Len(files) <= ArrayNames => ArrayName(i) = i - 1)
  BY <1>3 DEF ArrayName
<1>. QED
  BY <1>2, <1>4 DEF Array, ArrayType

\* The header, file by file.
LEMMA HeaderFollows ==
  ASSUME NEW files \in Seq(FileType)
  PROVE  \E L : Writings(L, files)
<1>. DEFINE n == Len(files)
            S == Seq(ArrayType)
            none == <<>>
            places == [i \in DOMAIN files |-> i]
            R(f) == [s \in SUBSET (1..n) |->
                       IF s = {} THEN none ELSE Writes1(files, f[s \ {Max(s)}], places[Max(s)])]
            M == CHOOSE f : f = R(f)
            F == [p \in (1..n) \X S |-> Writes1(files, p[2], p[1])]
            all == FoldLeft(LAMBDA a, i : Writes1(files, a, i), <<>>, places)
<1>1. n \in Nat /\ DOMAIN files = 1..n
  BY LenProperties
<1>2. DOMAIN places = 1..n /\ \A i \in 1..n : places[i] = i
  BY <1>1
<1>3. all = M[1..n]
  BY <1>2 DEF FoldLeft, MapThenFoldSet
<1>4. none \in S
  BY EmptySeq
<1>5. ASSUME NEW x \in S, NEW k \in 1..n PROVE Writes1(files, x, k) \in S
  <2>1. Array(files, k) \in ArrayType
    BY ArrayIs
  <2>2. Append(x, Array(files, k)) \in S
    BY <2>1, AppendProperties
  <2>. QED
    BY <2>2 DEF Writes1
<1>13. \A now : MakeHeader(files, now) =
       IF \E i \in DOMAIN files : ~files[i].reuse /\ ~(files[i].opens /\ files[i].readable)
       THEN [code |-> 1, header |-> NoHeader]
       ELSE [code |-> 0,
             header |-> [there |-> TRUE, time |-> now, arrays |-> all,
                         entries |-> [i \in DOMAIN files |-> Entry(files, i)]]]
  BY DEF MakeHeader, Writes1
<1>. HIDE DEF all, S
<1>6. F \in Steps(n, S)
  BY <1>5 DEF Steps
<1>7. \A k \in 1..n, x \in S : F[<<k, x>>] = Writes1(files, x, k)
  OBVIOUS
<1>. HIDE DEF n, F, places, none
<1>8. PICK f : IsFold(f, S, none, n, F)
  <2>1. n \in Nat
    BY <1>1
  <2>. QED
    BY <2>1, <1>4, <1>6, FoldExists
<1>9. f = R(f)
  <2>1. ASSUME NEW s \in SUBSET (1..n), s # {}
        PROVE  f[s] = Writes1(files, f[s \ {Max(s)}], places[Max(s)])
    <3>1. Max(s) \in 1..n /\ f[s \ {Max(s)}] \in S
      BY <1>1, <1>8, <2>1, MaxIn DEF IsFold
    <3>. QED
      BY <1>2, <1>7, <1>8, <2>1, <3>1 DEF IsFold
  <2>. QED
    BY <1>8, <2>1 DEF IsFold
<1>10. M = R(M)
  BY <1>9
<1>. HIDE DEF M
<1>11. M[{}] = none
  BY <1>10
<1>12. ASSUME NEW k \in 1..n, M[1..(k - 1)] \in S
       PROVE  M[1..k] = F[<<k, M[1..(k - 1)]>>]
  <2>1. 1..k \in SUBSET (1..n) /\ 1..k # {} /\ Max(1..k) = k /\ (1..k) \ {k} = 1..(k - 1)
    BY <1>1, FirstOnes
  <2>2. M[1..k] = Writes1(files, M[1..(k - 1)], places[k])
    BY <1>10, <2>1
  <2>. QED
    BY <1>2, <1>7, <1>12, <2>2
<1>14. PICK L \in [0..n -> S] :
         L[0] = none /\ L[n] = M[1..n] /\ \A k \in 1..n : L[k] = F[<<k, L[k - 1]>>]
  BY <1>1, <1>4, <1>6, <1>11, <1>12, FoldSteps
<1>15. \A k \in 1..n : L[k - 1] \in S
  BY <1>1
<1>16. \A k \in 1..n : L[k] = Writes1(files, L[k - 1], k)
  BY <1>7, <1>14, <1>15
<1>17. Writings(L, files)
  <2>1. L[n] = all
    BY <1>3, <1>14
  <2>. QED
    BY <1>13, <1>14, <1>16, <2>1 DEF Writings, n, S, none
<1>. QED
  BY <1>17

\* The arrays of the first k files.
Written1(files, a, k) ==
  /\ \A x \in DOMAIN a : \E i \in 1..k : ~ files[i].reuse /\ a[x] = Array(files, i)
  /\ \A x, y \in DOMAIN a : x < y => a[x].name < a[y].name
  /\ \A i \in 1..k : ~ files[i].reuse => \E x \in DOMAIN a : a[x] = Array(files, i)

\* The next file leaves what is meant of the files so far.
LEMMA WrittenSteps ==
  ASSUME NEW files \in Seq(FileType), Len(files) <= ArrayNames, NEW k \in 1..Len(files),
         NEW a \in Seq(ArrayType), Written1(files, a, k - 1)
  PROVE  Written1(files, Writes1(files, a, k), k)
<1>1. /\ \A x \in DOMAIN a : \E i \in 1..(k - 1) : ~ files[i].reuse /\ a[x] = Array(files, i)
      /\ \A x, y \in DOMAIN a : x < y => a[x].name < a[y].name
      /\ \A i \in 1..(k - 1) : ~ files[i].reuse => \E x \in DOMAIN a : a[x] = Array(files, i)
  BY DEF Written1
<1>2. Len(files) \in Nat /\ Len(a) \in Nat /\ DOMAIN a = 1..Len(a)
  BY LenProperties
<1>3. \A i : i \in 1..k <=> i \in 1..(k - 1) \/ i = k
  BY <1>2
<1>4. CASE files[k].reuse
  <2>1. Writes1(files, a, k) = a
    BY <1>4 DEF Writes1
  <2>. QED
    BY <1>1, <1>3, <1>4, <2>1, SMTT(30) DEF Written1
<1>5. CASE ~ files[k].reuse
  <2>. DEFINE e == Array(files, k)
              t == Append(a, e)
              m == Len(a) + 1
  <2>1. e \in ArrayType /\ e.name = k - 1
    BY ArrayIs
  <2>. HIDE DEF e
  <2>2. Len(t) = m /\ t[m] = e /\ (\A x \in 1..Len(a) : t[x] = a[x]) /\ DOMAIN t = 1..m
    BY <2>1, <1>2, AppendProperties, LenProperties
  <2>3. (\A x : x \in 1..m <=> x \in DOMAIN a \/ x = m) /\ (\A x \in DOMAIN a : x < m) /\ m \in Nat
    BY <1>2
  <2>4. \A x \in DOMAIN a : a[x].name < e.name
    <3>. SUFFICES ASSUME NEW x \in DOMAIN a PROVE a[x].name < e.name
      OBVIOUS
    <3>1. PICK i \in 1..(k - 1) : a[x] = Array(files, i)
      BY <1>1
    <3>2. i \in 1..Len(files) /\ i < k
      BY <1>2
    <3>3. a[x].name = i - 1
      BY <3>1, <3>2, ArrayIs
    <3>. QED
      BY <1>2, <2>1, <3>2, <3>3
  <2>5. Writes1(files, a, k) = t
    BY <1>5 DEF Writes1, e
  <2>. HIDE DEF t, m
  <2>6. \A x \in 1..m : \E i \in 1..k : ~ files[i].reuse /\ t[x] = Array(files, i)
    BY <1>1, <1>2, <1>3, <1>5, <2>2, <2>3, ZenonT(60) DEF e
  <2>7. \A x, y \in 1..m : x < y => t[x].name < t[y].name
    <3>. SUFFICES ASSUME NEW x \in 1..m, NEW y \in 1..m, x < y PROVE t[x].name < t[y].name
      OBVIOUS
    <3>1. x \in DOMAIN a
      <4>1. x # m
        BY <2>3
      <4>. QED
        BY <2>3, <4>1
    <3>2. CASE y \in DOMAIN a
      BY <1>1, <1>2, <2>2, <3>1, <3>2
    <3>3. CASE y = m
      BY <1>2, <2>2, <2>4, <3>1, <3>3
    <3>. QED
      BY <2>3, <3>2, <3>3
  <2>8. \A i \in 1..k : ~ files[i].reuse => \E x \in 1..m : t[x] = Array(files, i)
    <3>. SUFFICES ASSUME NEW i \in 1..k, ~ files[i].reuse PROVE \E x \in 1..m : t[x] = Array(files, i)
      OBVIOUS
    <3>1. CASE i = k
      BY <2>2, <2>3, <3>1 DEF e
    <3>2. CASE i \in 1..(k - 1)
      BY <1>1, <1>2, <2>2, <2>3, <3>2
    <3>. QED
      BY <1>3, <3>1, <3>2
  <2>. QED
    BY <2>2, <2>5, <2>6, <2>7, <2>8 DEF Written1
<1>. QED
  BY <1>4, <1>5

\* A header that is made holds the files.
LEMMA HeaderHolds ==
  ASSUME NEW files \in Seq(FileType), Len(files) <= ArrayNames, files = <<>> \/ ~ files[1].reuse,
         NEW a \in Seq(ArrayType), Written1(files, a, Len(files)), NEW now
  PROVE  HoldsFiles([there |-> TRUE, time |-> now, arrays |-> a,
                     entries |-> [i \in DOMAIN files |-> Entry(files, i)]], files)
<1>. DEFINE n == Len(files)
            es == [i \in DOMAIN files |-> Entry(files, i)]
            h == [there |-> TRUE, time |-> now, arrays |-> a, entries |-> es]
            named(i) == {k \in DOMAIN a : a[k].name = es[i].array}
            meant(i) == files[Max({j \in 1..i : ~files[j].reuse})].data
<1>1. n \in Nat /\ DOMAIN files = 1..n /\ (\A i \in 1..n : files[i] \in FileType) /\ Len(a) \in Nat /\ DOMAIN a = 1..Len(a)
      /\ ArrayNames \in Nat
  BY LenProperties, ElementOfSeq, EmbedderAssumption
<1>2. /\ \A x \in DOMAIN a : \E i \in 1..n : ~ files[i].reuse /\ a[x] = Array(files, i)
      /\ \A x, y \in DOMAIN a : x < y => a[x].name < a[y].name
      /\ \A i \in 1..n : ~ files[i].reuse => \E x \in DOMAIN a : a[x] = Array(files, i)
  BY DEF Written1
<1>3. ASSUME NEW i \in 1..n
      PROVE  /\ Cardinality(named(i)) = 1
             /\ \A k \in named(i) : a[k].data = meant(i)
             /\ es[i].size = meant(i)
  <2>. DEFINE s == {j \in 1..i : ~files[j].reuse}
              m == Max(s)
  <2>1. 1 \in s /\ s \in SUBSET (1..i) /\ i \in Nat
    <3>1. files # <<>> /\ 1 \in 1..i
      BY <1>1
    <3>. QED
      BY <1>1, <3>1
  <2>2. \A x \in s : ~ files[x].reuse /\ x \in 1..n
    BY <1>1
  <2>3. {1} \cup s = s
    BY <2>1
  <2>4. LastRead(files, i) = Max({1} \cup s)
    BY DEF LastRead
  <2>. HIDE DEF s
  <2>5. m \in s
    BY <2>1, MaxIn
  <2>6. LastRead(files, i) = m /\ m \in 1..n /\ ~ files[m].reuse
    BY <2>2, <2>3, <2>4, <2>5
  <2>. HIDE DEF m
  <2>7. ArrayName(m) = m - 1 /\ Array(files, m).name = m - 1 /\ Array(files, m).data = files[m].data
    <3>1. Array(files, m).name = m - 1 /\ Array(files, m).data = files[m].data
      BY <2>6, ArrayIs
    <3>. QED
      BY <3>1 DEF Array
  <2>8. es[i] = [array |-> m - 1, size |-> files[m].data]
    <3>1. es[i] = Entry(files, i)
      BY <1>1
    <3>2. (m - 1) + 1 = m
      BY <1>1, <2>6
    <3>. HIDE DEF es
    <3>3. Entry(files, i) = [array |-> m - 1, size |-> files[(m - 1) + 1].data]
      BY <2>6, <2>7 DEF Entry
    <3>. QED
      BY <3>1, <3>2, <3>3
  <2>9. es[i].array = m - 1 /\ es[i].size = files[m].data
    BY <2>8
  <2>. HIDE DEF es
  <2>10. PICK x \in DOMAIN a : a[x] = Array(files, m)
    BY <1>2, <2>6
  <2>11. \A k \in DOMAIN a : a[k].name = m - 1 => k = x
    <3>. SUFFICES ASSUME NEW k \in DOMAIN a, a[k].name = m - 1, k # x PROVE FALSE
      OBVIOUS
    <3>1. a[x].name = m - 1
      BY <2>7, <2>10
    <3>2. k < x \/ x < k
      BY <1>1
    <3>3. m - 1 < m - 1
      BY <1>2, <3>1, <3>2
    <3>. QED
      BY <1>1, <2>6, <3>3
  <2>12. named(i) = {x}
    BY <2>7, <2>9, <2>10, <2>11
  <2>13. Cardinality(named(i)) = 1
    <3>1. Cardinality({x}) = 1
      BY FS_Singleton
    <3>. HIDE DEF named
    <3>. QED
      BY <2>12, <3>1
  <2>14. a[x].data = files[m].data /\ meant(i) = files[m].data
    BY <2>7, <2>10 DEF m, s
  <2>. HIDE DEF named, meant
  <2>. QED
    BY <2>9, <2>12, <2>13, <2>14
<1>4. Len(es) = n
  <2>. DEFINE C == {Entry(files, i) : i \in 1..n}
  <2>1. es \in [1..n -> C]
    BY <1>1
  <2>. HIDE DEF es, n, C
  <2>2. es \in Seq(C) /\ DOMAIN es = 1..n
    BY <1>1, <2>1, SeqDef
  <2>3. Len(es) \in Nat /\ DOMAIN es = 1..Len(es)
    BY <2>2, LenProperties
  <2>. QED
    BY <1>1, <2>2, <2>3
<1>5. h.there = TRUE /\ h.arrays = a /\ h.entries = es
  <2>. HIDE DEF es
  <2>. QED
    OBVIOUS
<1>. HIDE DEF h, es
<1>6. HoldsFiles(h, files)
  BY <1>1, <1>3, <1>4, <1>5, ZenonT(60) DEF HoldsFiles
<1>. QED
  BY <1>6 DEF h, es

\* What is there after two builds is what is meant.
LEMMA EmbedMeant ==
  ASSUME NEW before, NEW files \in Seq(FileType), files = <<>> \/ ~ files[1].reuse, NEW writable \in BOOLEAN,
         NEW now, before.time \in Int
  PROVE  EmbedIsMeant([before |-> before, after |-> Embed(before, writable, files, now)], files)
<1>. DEFINE e == Embed(before, writable, files, now)
            m == [before |-> before, after |-> e]
            wrong == \E i \in DOMAIN files : ~files[i].reuse /\ ~(files[i].opens /\ files[i].readable)
<1>1. m.before = before /\ m.after = e
  OBVIOUS
<1>2. CASE ~ IsOutdated(before, files)
  <2>1. e = [code |-> 0, header |-> before]
    BY <1>2 DEF Embed
  <2>2. e.code = 0 /\ e.header = before
    BY <2>1
  <2>3. \A i \in DOMAIN files : files[i].reuse \/ files[i].time <= before.time
    <3>. SUFFICES ASSUME NEW i \in DOMAIN files, ~ files[i].reuse PROVE files[i].time <= before.time
      OBVIOUS
    <3>1. ~ (files[i].time > before.time)
      BY <1>2 DEF IsOutdated
    <3>2. i \in 1..Len(files)
      BY LenProperties
    <3>3. files[i] \in FileType
      BY <3>2, ElementOfSeq
    <3>4. files[i].time \in Int
      BY <3>3 DEF FileType
    <3>. QED
      BY <3>1, <3>4
  <2>. HIDE DEF e, m
  <2>. QED
    BY <1>1, <2>2, <2>3 DEF EmbedIsMeant, m, e
<1>3. CASE IsOutdated(before, files) /\ ~ writable
  <2>1. e = [code |-> 1, header |-> before]
    BY <1>3 DEF Embed
  <2>2. e.code = 1 /\ e.header = before
    BY <2>1
  <2>. HIDE DEF e, m
  <2>. QED
    BY <1>1, <2>2 DEF EmbedIsMeant, m, e
<1>4. CASE IsOutdated(before, files) /\ writable
  <2>1. e = MakeHeader(files, now)
    BY <1>4 DEF Embed
  <2>2. PICK L : Writings(L, files)
    BY HeaderFollows
  <2>3. /\ L \in [0..Len(files) -> Seq(ArrayType)] /\ L[0] = <<>>
        /\ \A k \in 1..Len(files) : L[k] = Writes1(files, L[k - 1], k)
        /\ MakeHeader(files, now) =
             IF wrong THEN [code |-> 1, header |-> NoHeader]
             ELSE [code |-> 0, header |-> [there |-> TRUE, time |-> now, arrays |-> L[Len(files)],
                                           entries |-> [i \in DOMAIN files |-> Entry(files, i)]]]
    BY <2>2 DEF Writings
  <2>. HIDE DEF wrong
  <2>4. CASE wrong
    <3>1. e = [code |-> 1, header |-> NoHeader]
      BY <2>1, <2>3, <2>4
    <3>2. e.code = 1 /\ e.header = NoHeader
      BY <3>1
    <3>. HIDE DEF e, m
    <3>. QED
      BY <1>1, <3>2 DEF EmbedIsMeant, m, e
  <2>5. CASE ~ wrong
    <3>. DEFINE n == Len(files)
                h == [there |-> TRUE, time |-> now, arrays |-> L[n], entries |-> [i \in DOMAIN files |-> Entry(files, i)]]
    <3>1. e = [code |-> 0, header |-> h]
      BY <2>1, <2>3, <2>5
    <3>. HIDE DEF h
    <3>2. e.code = 0 /\ e.header = h
      BY <3>1
    <3>3. ASSUME n <= ArrayNames PROVE HoldsFiles(h, files)
      <4>1. n \in Nat
        BY LenProperties
      <4>. DEFINE T == {k \in 0..n : Written1(files, L[k], k)}
      <4>2. 0 \in T
        <5>1. DOMAIN L[0] = {} /\ 1..0 = {} /\ 0 \in 0..n
          BY <2>3, <4>1
        <5>. QED
          BY <5>1 DEF Written1
      <4>3. ASSUME NEW k \in 1..n, k - 1 \in T PROVE k \in T
        <5>1. L[k - 1] \in Seq(ArrayType) /\ Written1(files, L[k - 1], k - 1) /\ k \in 0..n
          BY <2>3, <4>1, <4>3
        <5>2. Written1(files, Writes1(files, L[k - 1], k), k)
          BY <3>3, <5>1, WrittenSteps
        <5>. QED
          BY <2>3, <5>1, <5>2
      <4>. HIDE DEF n, T
      <4>6. 0..n \subseteq T
        BY <4>1, <4>2, <4>3, UpTo
      <4>4. 0..n \subseteq T /\ n \in 0..n
        BY <4>1, <4>6
      <4>5. L[n] \in Seq(ArrayType) /\ Written1(files, L[n], n)
        <5>1. L[n] \in Seq(ArrayType)
          BY <2>3, <4>4 DEF n
        <5>. QED
          BY <4>4, <5>1 DEF T
      <4>. QED
        BY <3>3, <4>5, HeaderHolds DEF h, n
    <3>. HIDE DEF e, m
    <3>. QED
      BY <1>1, <3>2, <3>3 DEF EmbedIsMeant, m, e, n
  <2>. QED
    BY <2>4, <2>5
<1>. QED
  BY <1>2, <1>3, <1>4

--------------------------------------------------------------------------------
(* A quoted text.                                                               *)
Glyphs == STRING \cup {"\n", "\t", "n", "t", "\\", "quote"}
Wrote1(s, c) == s \o Escapes(c)
Writtens(L, w) ==
  /\ L \in [0..Len(w) -> Seq(Glyphs)] /\ L[0] = <<>>
  /\ \A k \in 1..Len(w) : L[k] = Wrote1(L[k - 1], w[k])
  /\ FoldLeft(Wrote1, <<>>, w) = L[Len(w)]

\* What a character is escaped as, and what is read of that.
LEMMA EscapesIs ==
  ASSUME NEW c \in Glyphs
  PROVE  /\ Escapes(c) \in Seq(Glyphs)
         /\ \/ Escapes(c) = <<c>> /\ c # "quote" /\ c # "\\"
            \/ \E x \in Glyphs : Escapes(c) = <<"\\", x>> /\ Escaped(x) = c
<1>1. "quote" # "\\" /\ "\n" # "\t" /\ "n" # "t" /\ "\n" # "\\" /\ "\t" # "\\" /\ "\n" # "quote" /\ "\t" # "quote"
      /\ "\\" # "n" /\ "\\" # "t" /\ "quote" # "n" /\ "quote" # "t"
  OBVIOUS
<1>2. "n" \in Glyphs /\ "t" \in Glyphs
  BY DEF Glyphs
<1>3. "\\" \in Glyphs
  BY DEF Glyphs
<1>4. CASE c = "\n"
  <2>1. Escapes(c) = <<"\\", "n">> /\ Escaped("n") = c
    BY <1>1, <1>4 DEF Escapes, Escaped
  <2>. QED
    BY <1>2, <1>3, <2>1
<1>5. CASE c = "\t"
  <2>1. Escapes(c) = <<"\\", "t">> /\ Escaped("t") = c
    BY <1>1, <1>5 DEF Escapes, Escaped
  <2>. QED
    BY <1>2, <1>3, <2>1
<1>6. CASE c = "\\" \/ c = "quote"
  <2>1. Escapes(c) = <<"\\", c>> /\ Escaped(c) = c
    BY <1>1, <1>6 DEF Escapes, Escaped
  <2>. QED
    BY <1>3, <2>1
<1>7. CASE c # "\n" /\ c # "\t" /\ c # "\\" /\ c # "quote"
  <2>1. Escapes(c) = <<c>>
    BY <1>7 DEF Escapes
  <2>. QED
    BY <1>7, <2>1
<1>. QED
  BY <1>4, <1>5, <1>6, <1>7

\* A value that is written, character by character.
LEMMA WroteFollows ==
  ASSUME NEW w \in Seq(Glyphs)
  PROVE  \E L : Writtens(L, w)
<1>. DEFINE n == Len(w)
            S == Seq(Glyphs)
            none == <<>>
            R(f) == [s \in SUBSET (1..n) |-> IF s = {} THEN none ELSE Wrote1(f[s \ {Max(s)}], w[Max(s)])]
            M == CHOOSE f : f = R(f)
            F == [p \in (1..n) \X S |-> Wrote1(p[2], w[p[1]])]
            all == FoldLeft(Wrote1, <<>>, w)
<1>1. n \in Nat /\ DOMAIN w = 1..n /\ \A i \in 1..n : w[i] \in Glyphs
  BY LenProperties, ElementOfSeq
<1>2. all = M[1..n]
  BY <1>1 DEF FoldLeft, MapThenFoldSet
<1>. HIDE DEF all
<1>3. ASSUME NEW k \in 1..n, NEW s \in S PROVE Wrote1(s, w[k]) \in S
  <2>1. w[k] \in Glyphs
    BY <1>1
  <2>2. Escapes(w[k]) \in Seq(Glyphs)
    BY <2>1, EscapesIs
  <2>. QED
    BY <2>2, ConcatProperties DEF Wrote1
<1>4. F \in Steps(n, S)
  <2>. HIDE DEF S
  <2>. QED
    BY <1>3 DEF Steps
<1>5. \A k \in 1..n, x \in S : F[<<k, x>>] = Wrote1(x, w[k])
  OBVIOUS
<1>6. none \in S
  BY EmptySeq
<1>. HIDE DEF F, S, none, n
<1>7. PICK f : IsFold(f, S, none, n, F)
  <2>1. n \in Nat
    BY <1>1
  <2>. QED
    BY <1>4, <1>6, <2>1, FoldExists
<1>8. f = R(f)
  <2>1. ASSUME NEW s \in SUBSET (1..n), s # {}
        PROVE  f[s] = Wrote1(f[s \ {Max(s)}], w[Max(s)])
    <3>1. Max(s) \in 1..n /\ f[s \ {Max(s)}] \in S
      BY <1>1, <1>7, <2>1, MaxIn DEF IsFold
    <3>. QED
      BY <1>5, <1>7, <2>1, <3>1 DEF IsFold
  <2>. QED
    BY <1>7, <2>1 DEF IsFold
<1>9. M = R(M)
  BY <1>8
<1>. HIDE DEF M
<1>10. M[{}] = none
  BY <1>9
<1>11. ASSUME NEW k \in 1..n, M[1..(k - 1)] \in S
       PROVE  M[1..k] = F[<<k, M[1..(k - 1)]>>]
  <2>1. 1..k \in SUBSET (1..n) /\ 1..k # {} /\ Max(1..k) = k /\ (1..k) \ {k} = 1..(k - 1)
    BY <1>1, FirstOnes
  <2>2. M[1..k] = Wrote1(M[1..(k - 1)], w[k])
    BY <1>9, <2>1
  <2>. QED
    BY <1>5, <1>11, <2>2
<1>12. PICK L \in [0..n -> S] :
         L[0] = none /\ L[n] = M[1..n] /\ \A k \in 1..n : L[k] = F[<<k, L[k - 1]>>]
  <2>1. n \in Nat
    BY <1>1
  <2>. QED
    BY <1>4, <1>6, <1>10, <1>11, <2>1, FoldSteps
<1>13. \A k \in 1..n : L[k - 1] \in S
  BY <1>1
<1>14. \A k \in 1..n : L[k] = Wrote1(L[k - 1], w[k])
  BY <1>5, <1>12, <1>13
<1>15. Writtens(L, w)
  BY <1>2, <1>12, <1>14 DEF Writtens, n, S, none, all
<1>. QED
  BY <1>15

\* What is read of a text, a character after the other.
ReadingType == [to : Seq(Glyphs), escapes : BOOLEAN, ended : BOOLEAN]
Reading == [to |-> <<>>, escapes |-> FALSE, ended |-> FALSE]
Read1(s, c) ==
  CASE s.ended -> s
    [] ~s.ended /\ s.escapes -> [s EXCEPT !.to = Append(@, Escaped(c)), !.escapes = FALSE]
    [] ~s.ended /\ ~s.escapes /\ c = "quote" -> [s EXCEPT !.ended = TRUE]
    [] ~s.ended /\ ~s.escapes /\ c = "\\" -> [s EXCEPT !.escapes = TRUE]
    [] OTHER -> [s EXCEPT !.to = Append(@, c)]
Reads(L, w) ==
  /\ L \in [0..Len(w) -> ReadingType] /\ L[0] = Reading
  /\ \A k \in 1..Len(w) : L[k] = Read1(L[k - 1], w[k])
  /\ FoldLeft(Read1, Reading, w) = L[Len(w)]

\* The five things that become of a character.
LEMMA ReadOne ==
  ASSUME NEW s \in ReadingType, NEW c \in Glyphs
  PROVE  /\ s.ended => Read1(s, c) = s
         /\ ~s.ended /\ s.escapes => Read1(s, c) = [to |-> Append(s.to, Escaped(c)), escapes |-> FALSE, ended |-> FALSE]
         /\ ~s.ended /\ ~s.escapes /\ c = "quote" => Read1(s, c) = [to |-> s.to, escapes |-> FALSE, ended |-> TRUE]
         /\ ~s.ended /\ ~s.escapes /\ c = "\\" => Read1(s, c) = [to |-> s.to, escapes |-> TRUE, ended |-> FALSE]
         /\ ~s.ended /\ ~s.escapes /\ c # "quote" /\ c # "\\" =>
              Read1(s, c) = [to |-> Append(s.to, c), escapes |-> FALSE, ended |-> FALSE]
         /\ Read1(s, c) \in ReadingType
<1>1. s = [to |-> s.to, escapes |-> s.escapes, ended |-> s.ended] /\ s.to \in Seq(Glyphs)
      /\ s.escapes \in BOOLEAN /\ s.ended \in BOOLEAN
  BY DEF ReadingType
<1>2. "quote" # "\\"
  OBVIOUS
<1>3. Escaped(c) \in Glyphs
  <2>1. "\n" \in Glyphs /\ "\t" \in Glyphs
    BY DEF Glyphs
  <2>. QED
    BY <2>1 DEF Escaped
<1>4. Append(s.to, c) \in Seq(Glyphs) /\ Append(s.to, Escaped(c)) \in Seq(Glyphs)
  BY <1>1, <1>3, AppendProperties
<1>5. s.ended => Read1(s, c) = s
  BY DEF Read1
<1>6. ~s.ended /\ s.escapes => Read1(s, c) = [to |-> Append(s.to, Escaped(c)), escapes |-> FALSE, ended |-> FALSE]
  <2>. SUFFICES ASSUME ~s.ended, s.escapes
                PROVE  Read1(s, c) = [to |-> Append(s.to, Escaped(c)), escapes |-> FALSE, ended |-> FALSE]
    OBVIOUS
  <2>1. Read1(s, c) = [s EXCEPT !.to = Append(@, Escaped(c)), !.escapes = FALSE]
    BY DEF Read1
  <2>. HIDE DEF Read1
  <2>. QED
    BY <1>1, <2>1
<1>7. ~s.ended /\ ~s.escapes /\ c = "quote" => Read1(s, c) = [to |-> s.to, escapes |-> FALSE, ended |-> TRUE]
  <2>. SUFFICES ASSUME ~s.ended, ~s.escapes, c = "quote"
                PROVE  Read1(s, c) = [to |-> s.to, escapes |-> FALSE, ended |-> TRUE]
    OBVIOUS
  <2>1. Read1(s, c) = [s EXCEPT !.ended = TRUE]
    BY <1>2 DEF Read1
  <2>. QED
    BY <1>1, <2>1
<1>8. ~s.ended /\ ~s.escapes /\ c = "\\" => Read1(s, c) = [to |-> s.to, escapes |-> TRUE, ended |-> FALSE]
  <2>. SUFFICES ASSUME ~s.ended, ~s.escapes, c = "\\"
                PROVE  Read1(s, c) = [to |-> s.to, escapes |-> TRUE, ended |-> FALSE]
    OBVIOUS
  <2>1. Read1(s, c) = [s EXCEPT !.escapes = TRUE]
    BY <1>2 DEF Read1
  <2>. QED
    BY <1>1, <2>1
<1>9. ~s.ended /\ ~s.escapes /\ c # "quote" /\ c # "\\" =>
        Read1(s, c) = [to |-> Append(s.to, c), escapes |-> FALSE, ended |-> FALSE]
  <2>. SUFFICES ASSUME ~s.ended, ~s.escapes, c # "quote", c # "\\"
                PROVE  Read1(s, c) = [to |-> Append(s.to, c), escapes |-> FALSE, ended |-> FALSE]
    OBVIOUS
  <2>1. Read1(s, c) = [s EXCEPT !.to = Append(@, c)]
    BY DEF Read1
  <2>. QED
    BY <1>1, <2>1
<1>10. Read1(s, c) \in ReadingType
  <2>. DEFINE K == ReadingType
  <2>1. \A t \in Seq(Glyphs), x, y \in BOOLEAN : [to |-> t, escapes |-> x, ended |-> y] \in ReadingType
    BY DEF ReadingType
  <2>2. /\ [to |-> Append(s.to, Escaped(c)), escapes |-> FALSE, ended |-> FALSE] \in ReadingType
        /\ [to |-> Append(s.to, c), escapes |-> FALSE, ended |-> FALSE] \in ReadingType
        /\ [to |-> s.to, escapes |-> FALSE, ended |-> TRUE] \in ReadingType
        /\ [to |-> s.to, escapes |-> TRUE, ended |-> FALSE] \in ReadingType
    BY <1>1, <1>4, <2>1
  <2>. QED
    BY <1>1, <1>5, <1>6, <1>7, <1>8, <1>9, <2>2
<1>. QED
  BY <1>5, <1>6, <1>7, <1>8, <1>9, <1>10

\* A value that is read back, character by character.
LEMMA ReadFollows ==
  ASSUME NEW w \in Seq(Glyphs)
  PROVE  \E L : Reads(L, w)
<1>. DEFINE n == Len(w)
            S == ReadingType
            none == Reading
            R(f) == [s \in SUBSET (1..n) |-> IF s = {} THEN none ELSE Read1(f[s \ {Max(s)}], w[Max(s)])]
            M == CHOOSE f : f = R(f)
            F == [p \in (1..n) \X S |-> Read1(p[2], w[p[1]])]
            all == FoldLeft(Read1, Reading, w)
<1>1. n \in Nat /\ DOMAIN w = 1..n /\ \A i \in 1..n : w[i] \in Glyphs
  BY LenProperties, ElementOfSeq
<1>2. all = M[1..n]
  BY <1>1 DEF FoldLeft, MapThenFoldSet
<1>. HIDE DEF all
<1>3. ASSUME NEW k \in 1..n, NEW s \in S PROVE Read1(s, w[k]) \in S
  BY <1>1, ReadOne
<1>4. F \in Steps(n, S)
  <2>. HIDE DEF S
  <2>. QED
    BY <1>3 DEF Steps
<1>5. \A k \in 1..n, x \in S : F[<<k, x>>] = Read1(x, w[k])
  OBVIOUS
<1>6. none \in S
  BY EmptySeq DEF Reading, ReadingType
<1>. HIDE DEF F, S, none, n
<1>7. PICK f : IsFold(f, S, none, n, F)
  <2>1. n \in Nat
    BY <1>1
  <2>. QED
    BY <1>4, <1>6, <2>1, FoldExists
<1>8. f = R(f)
  <2>1. ASSUME NEW s \in SUBSET (1..n), s # {}
        PROVE  f[s] = Read1(f[s \ {Max(s)}], w[Max(s)])
    <3>1. Max(s) \in 1..n /\ f[s \ {Max(s)}] \in S
      BY <1>1, <1>7, <2>1, MaxIn DEF IsFold
    <3>. QED
      BY <1>5, <1>7, <2>1, <3>1 DEF IsFold
  <2>. QED
    BY <1>7, <2>1 DEF IsFold
<1>9. M = R(M)
  BY <1>8
<1>. HIDE DEF M
<1>10. M[{}] = none
  BY <1>9
<1>11. ASSUME NEW k \in 1..n, M[1..(k - 1)] \in S
       PROVE  M[1..k] = F[<<k, M[1..(k - 1)]>>]
  <2>1. 1..k \in SUBSET (1..n) /\ 1..k # {} /\ Max(1..k) = k /\ (1..k) \ {k} = 1..(k - 1)
    BY <1>1, FirstOnes
  <2>2. M[1..k] = Read1(M[1..(k - 1)], w[k])
    BY <1>9, <2>1
  <2>. QED
    BY <1>5, <1>11, <2>2
<1>12. PICK L \in [0..n -> S] :
         L[0] = none /\ L[n] = M[1..n] /\ \A k \in 1..n : L[k] = F[<<k, L[k - 1]>>]
  <2>1. n \in Nat
    BY <1>1
  <2>. QED
    BY <1>4, <1>6, <1>10, <1>11, <2>1, FoldSteps
<1>13. \A k \in 1..n : L[k - 1] \in S
  BY <1>1
<1>14. \A k \in 1..n : L[k] = Read1(L[k - 1], w[k])
  BY <1>5, <1>12, <1>13
<1>15. Reads(L, w)
  BY <1>2, <1>12, <1>14 DEF Reads, n, S, none, all
<1>. QED
  BY <1>15

\* w begins with u.
Precedes(u, w) == Len(u) <= Len(w) /\ \A i \in 1..Len(u) : w[i] = u[i]

\* What is written is a beginning of what is written next.
LEMMA WrittenFirst ==
  ASSUME NEW t \in Seq(Glyphs), NEW L, Writtens(L, t), NEW w \in Seq(Glyphs),
         Precedes(L[Len(t)], w)
  PROVE  \A k \in 0..Len(t) : Precedes(L[k], w)
<1>. DEFINE n == Len(t)
            Begins(k) == Len(L[k]) <= Len(w) /\ \A i \in 1..Len(L[k]) : w[i] = L[k][i]
            T == {d \in 0..n : Begins(n - d)}
<1>1. n \in Nat /\ Len(w) \in Nat /\ DOMAIN t = 1..n /\ \A i \in 1..n : t[i] \in Glyphs
  BY LenProperties, ElementOfSeq
<1>2. L \in [0..n -> Seq(Glyphs)] /\ \A k \in 1..n : L[k] = L[k - 1] \o Escapes(t[k])
  BY DEF Writtens, Wrote1
<1>3. 0 \in T
  BY <1>1 DEF Precedes
<1>4. ASSUME NEW d \in 1..n, d - 1 \in T PROVE d \in T
  <2>. DEFINE k == n - (d - 1)
              a == L[k - 1]
              e == Escapes(t[k])
  <2>1. k \in 1..n /\ k - 1 \in 0..n /\ k - 1 = n - d /\ d \in 0..n
    BY <1>1
  <2>2. Begins(k)
    BY <1>4
  <2>. HIDE DEF k
  <2>3. a \in Seq(Glyphs) /\ e \in Seq(Glyphs) /\ L[k] = a \o e
    BY <1>1, <1>2, <2>1, EscapesIs
  <2>. HIDE DEF a, e
  <2>4. /\ Len(a \o e) = Len(a) + Len(e) /\ Len(a) \in Nat /\ Len(e) \in Nat
        /\ \A i \in 1..Len(a) : (a \o e)[i] = a[i]
    BY <2>3, JoinIs
  <2>5. Len(a) <= Len(w)
    BY <1>1, <2>2, <2>3, <2>4
  <2>6. ASSUME NEW i \in 1..Len(a) PROVE w[i] = a[i]
    <3>1. i \in 1..Len(L[k])
      BY <2>3, <2>4
    <3>. QED
      BY <2>2, <2>3, <2>4, <3>1
  <2>7. Begins(k - 1)
    BY <2>5, <2>6 DEF a
  <2>. QED
    BY <2>1, <2>7
<1>5. 0..n \subseteq T
  <2>. HIDE DEF T
  <2>. QED
    BY <1>1, <1>3, <1>4, UpTo
<1>6. ASSUME NEW k \in 0..n PROVE Begins(k)
  <2>1. n - k \in 0..n /\ n - (n - k) = k
    BY <1>1
  <2>2. n - k \in T
    <3>. HIDE DEF T
    <3>. QED
      BY <1>5, <2>1
  <2>. QED
    BY <2>1, <2>2
<1>. QED
  BY <1>6 DEF n, Precedes

\* As a text is read from its escapes, each of its characters comes out.
LEMMA ReadBack ==
  ASSUME NEW t \in Seq(Glyphs), NEW L, Writtens(L, t), NEW w \in Seq(Glyphs), NEW A, Reads(A, w),
         \A k \in 0..Len(t) : Precedes(L[k], w)
  PROVE  A[Len(L[Len(t)])] = [to |-> t, escapes |-> FALSE, ended |-> FALSE]
<1>. DEFINE n == Len(t)
            Back(k, s) == /\ ~s.escapes /\ ~s.ended /\ Len(s.to) = k
                          /\ \A i \in 1..k : s.to[i] = t[i]
            T == {k \in 0..n : Back(k, A[Len(L[k])])}
<1>1. n \in Nat /\ Len(w) \in Nat /\ DOMAIN t = 1..n /\ \A i \in 1..n : t[i] \in Glyphs
  BY LenProperties, ElementOfSeq
<1>2. L \in [0..n -> Seq(Glyphs)] /\ L[0] = <<>> /\ \A k \in 1..n : L[k] = L[k - 1] \o Escapes(t[k])
  BY DEF Writtens, Wrote1
<1>3. /\ A \in [0..Len(w) -> ReadingType] /\ A[0] = Reading
      /\ \A k \in 1..Len(w) : A[k] = Read1(A[k - 1], w[k]) /\ w[k] \in Glyphs
  <2>1. \A k \in 1..Len(w) : w[k] \in Glyphs
    BY ElementOfSeq
  <2>. QED
    BY <2>1 DEF Reads
<1>4. 0 \in T
  <2>1. Len(L[0]) = 0 /\ Reading.to = <<>> /\ Reading.escapes = FALSE /\ Reading.ended = FALSE
    BY <1>2 DEF Reading
  <2>2. Back(0, A[Len(L[0])])
    BY <1>3, <2>1
  <2>. QED
    BY <1>1, <2>2
<1>5. ASSUME NEW k \in 1..n, k - 1 \in T PROVE k \in T
  <2>. DEFINE a == L[k - 1]
              z == Len(a)
              c == t[k]
              e == Escapes(c)
              s == A[z]
  <2>1. Back(k - 1, s) /\ k - 1 \in 0..n /\ k \in 0..n /\ k \in Nat
    <3>1. k - 1 \in T /\ k \in 0..n /\ k \in Nat
      BY <1>1, <1>5
    <3>2. k - 1 \in 0..n /\ Back(k - 1, A[Len(L[k - 1])])
      BY <3>1
    <3>. QED
      BY <3>1, <3>2
  <2>2. a \in Seq(Glyphs) /\ L[k] = a \o e /\ c \in Glyphs
    BY <1>1, <1>2, <2>1
  <2>. HIDE DEF a, c
  <2>3. e \in Seq(Glyphs)
    BY <2>2, EscapesIs
  <2>4. /\ Len(L[k]) = z + Len(e) /\ z \in Nat /\ Len(e) \in Nat
        /\ \A i \in 1..Len(e) : L[k][z + i] = e[i]
    <3>. HIDE DEF e
    <3>1. Len(a \o e) = Len(a) + Len(e) /\ Len(a) \in Nat /\ Len(e) \in Nat
          /\ \A i \in 1..Len(e) : (a \o e)[Len(a) + i] = e[i]
      BY <2>2, <2>3, JoinIs
    <3>. QED
      BY <2>2, <3>1
  <2>5. Len(L[k]) <= Len(w) /\ \A i \in 1..Len(L[k]) : w[i] = L[k][i]
    BY <2>1 DEF Precedes
  <2>6. ASSUME NEW i \in 1..Len(e) PROVE w[z + i] = e[i] /\ z + i \in 1..Len(w)
    <3>. HIDE DEF e, z
    <3>1. z + i \in 1..Len(L[k]) /\ z + i \in 1..Len(w)
      BY <1>1, <2>4, <2>5
    <3>. QED
      BY <2>4, <2>5, <3>1
  <2>7. z \in 0..Len(w)
    <3>. HIDE DEF e, z
    <3>. QED
      BY <1>1, <2>4, <2>5
  <2>. HIDE DEF z
  <2>8. s \in ReadingType
    BY <1>3, <2>7
  <2>9. s.to \in Seq(Glyphs) /\ s.escapes = FALSE /\ s.ended = FALSE /\ Len(s.to) = k - 1
        /\ \A i \in 1..(k - 1) : s.to[i] = t[i]
    BY <2>1, <2>8 DEF ReadingType
  <2>. HIDE DEF s
  <2>10. ASSUME NEW r, r = [to |-> Append(s.to, c), escapes |-> FALSE, ended |-> FALSE] PROVE Back(k, r)
    <3>1. Len(Append(s.to, c)) = k /\ Append(s.to, c)[k] = c /\ \A i \in 1..(k - 1) : Append(s.to, c)[i] = t[i]
      <4>1. /\ Len(Append(s.to, c)) = Len(s.to) + 1 /\ Append(s.to, c)[Len(s.to) + 1] = c
            /\ \A i \in 1..Len(s.to) : Append(s.to, c)[i] = s.to[i]
        BY <2>2, <2>9, AppendProperties
      <4>2. Len(s.to) + 1 = k
        BY <2>1, <2>9
      <4>. QED
        BY <2>9, <4>1, <4>2
    <3>2. \A i \in 1..k : i \in 1..(k - 1) \/ i = k
      BY <2>1
    <3>3. r.to = Append(s.to, c) /\ r.escapes = FALSE /\ r.ended = FALSE
      BY <2>10
    <3>. QED
      BY <3>1, <3>2, <3>3 DEF c
  <2>11. CASE e = <<c>> /\ c # "quote" /\ c # "\\"
    <3>1. Len(e) = 1 /\ e[1] = c
      BY <2>11
    <3>2. w[z + 1] = c /\ z + 1 \in 1..Len(w) /\ Len(L[k]) = z + 1
      <4>. HIDE DEF e
      <4>. QED
        BY <2>4, <2>6, <3>1
    <3>3. A[z + 1] = Read1(s, c)
      <4>1. A[z + 1] = Read1(A[z + 1 - 1], w[z + 1]) /\ (z + 1) - 1 = z
        BY <1>3, <2>4, <3>2
      <4>. QED
        BY <3>2, <4>1 DEF s
    <3>4. A[z + 1] = [to |-> Append(s.to, c), escapes |-> FALSE, ended |-> FALSE]
      BY <2>2, <2>8, <2>9, <2>11, <3>3, ReadOne
    <3>5. Back(k, A[Len(L[k])])
      BY <2>10, <3>2, <3>4
    <3>. QED
      BY <2>1, <3>5
  <2>12. CASE \E x \in Glyphs : e = <<"\\", x>> /\ Escaped(x) = c
    <3>1. PICK x \in Glyphs : e = <<"\\", x>> /\ Escaped(x) = c
      BY <2>12
    <3>2. Len(e) = 2 /\ e[1] = "\\" /\ e[2] = x
      BY <3>1
    <3>3. w[z + 1] = "\\" /\ w[z + 2] = x /\ z + 1 \in 1..Len(w) /\ z + 2 \in 1..Len(w) /\ Len(L[k]) = z + 2
      <4>. HIDE DEF e
      <4>. QED
        BY <2>4, <2>6, <3>2
    <3>. DEFINE u == [to |-> s.to, escapes |-> TRUE, ended |-> FALSE]
    <3>4. A[z + 1] = u
      <4>1. z + 1 \in 1..Len(w) /\ (z + 1) - 1 = z
        BY <2>4, <3>3
      <4>2. A[z + 1] = Read1(A[z], w[z + 1])
        <5>. DEFINE i == z + 1
        <5>1. i \in 1..Len(w) /\ i - 1 = z
          BY <4>1
        <5>. HIDE DEF i
        <5>2. A[i] = Read1(A[i - 1], w[i])
          BY <1>3, <5>1
        <5>. QED
          BY <5>1, <5>2 DEF i
      <4>3. A[z + 1] = Read1(s, "\\")
        BY <3>3, <4>2 DEF s
      <4>4. "\\" \in Glyphs
        BY DEF Glyphs
      <4>. QED
        BY <2>8, <2>9, <4>3, <4>4, ReadOne
    <3>5. u \in ReadingType /\ u.escapes = TRUE /\ u.ended = FALSE /\ u.to = s.to
      BY <2>9 DEF ReadingType
    <3>. HIDE DEF u
    <3>6. A[z + 2] = Read1(u, x)
      <4>1. A[z + 2] = Read1(A[z + 2 - 1], w[z + 2]) /\ z + 2 - 1 = z + 1
        BY <1>3, <2>4, <3>3
      <4>. QED
        BY <3>3, <3>4, <4>1
    <3>7. A[z + 2] = [to |-> Append(s.to, c), escapes |-> FALSE, ended |-> FALSE]
      <4>1. Read1(u, x) = [to |-> Append(u.to, Escaped(x)), escapes |-> FALSE, ended |-> FALSE]
        BY <3>5, ReadOne
      <4>. QED
        BY <3>1, <3>5, <3>6, <4>1
    <3>8. Back(k, A[Len(L[k])])
      BY <2>10, <3>3, <3>7
    <3>. QED
      BY <2>1, <3>8
  <2>. QED
    BY <2>2, <2>11, <2>12, EscapesIs
<1>6. Back(n, A[Len(L[n])])
  <2>1. 0..n \subseteq T
    <3>. HIDE DEF T
    <3>. QED
      BY <1>1, <1>4, <1>5, UpTo
  <2>. QED
    BY <1>1, <2>1
<1>. DEFINE r == A[Len(L[n])]
<1>7. r \in ReadingType
  <2>1. n \in 0..n
    BY <1>1
  <2>2. Len(L[n]) <= Len(w) /\ Len(L[n]) \in Nat
    BY <1>2, <2>1, LenProperties DEF Precedes
  <2>. QED
    BY <1>1, <1>3, <2>2
<1>. HIDE DEF r
<1>8. r = [to |-> r.to, escapes |-> r.escapes, ended |-> r.ended] /\ r.to \in Seq(Glyphs)
      /\ r.escapes \in BOOLEAN /\ r.ended \in BOOLEAN
  BY <1>7 DEF ReadingType
<1>9. r.to = t
  <2>1. Len(r.to) = Len(t) /\ \A i \in 1..Len(t) : r.to[i] = t[i]
    BY <1>6 DEF r
  <2>. QED
    BY <1>8, <2>1, SeqEqual
<1>10. r.escapes = FALSE /\ r.ended = FALSE
  BY <1>6, <1>8 DEF r
<1>. QED
  BY <1>8, <1>9, <1>10 DEF r, n

\* A quoted text is read back, whatever comes behind.
LEMMA QuotedMeant ==
  ASSUME NEW text \in Seq(Glyphs), NEW after \in Seq(Glyphs)
  PROVE  ParseQuoted(Quoted(text) \o after) = text
<1>. DEFINE all == FoldLeft(Wrote1, <<>>, text)
            q == <<"quote">>
            w == (all \o q) \o after
            final == FoldLeft(Read1, Reading, w)
            n == Len(text)
<1>1. Quoted(text) \o after = w
  BY DEF Quoted, Wrote1
<1>2. ParseQuoted(w) = final.to
  BY DEF ParseQuoted, Read1, Reading
<1>3. PICK L : Writtens(L, text)
  BY WroteFollows
<1>4. all = L[n] /\ L[n] \in Seq(Glyphs) /\ n \in Nat
  BY <1>3, LenProperties DEF Writtens
<1>. HIDE DEF all
<1>5. q \in Seq(Glyphs) /\ Len(q) = 1 /\ q[1] = "quote"
  <2>1. "quote" \in Glyphs
    BY DEF Glyphs
  <2>. QED
    BY <2>1
<1>. HIDE DEF q
<1>6. /\ all \o q \in Seq(Glyphs) /\ Len(all \o q) = Len(all) + 1
      /\ \A i \in 1..Len(all) : (all \o q)[i] = all[i]
      /\ (all \o q)[Len(all) + 1] = "quote" /\ Len(all) \in Nat
  <2>1. /\ all \o q \in Seq(Glyphs) /\ Len(all \o q) = Len(all) + Len(q) /\ Len(all) \in Nat
        /\ \A i \in 1..Len(all) : (all \o q)[i] = all[i]
        /\ \A i \in 1..Len(q) : (all \o q)[Len(all) + i] = q[i]
    <3>1. all \in Seq(Glyphs)
      BY <1>4
    <3>2. q \in Seq(Glyphs)
      BY <1>5
    <3>. QED
      BY <3>1, <3>2, JoinIs
  <2>2. 1 \in 1..Len(q)
    BY <1>5
  <2>. QED
    BY <1>5, <2>1, <2>2
<1>. DEFINE x == all \o q
<1>7. /\ w \in Seq(Glyphs) /\ Len(w) = Len(x) + Len(after) /\ Len(after) \in Nat
      /\ \A i \in 1..Len(x) : w[i] = x[i]
  <2>1. x \in Seq(Glyphs)
    BY <1>6
  <2>. HIDE DEF x
  <2>. QED
    BY <2>1, JoinIs DEF x
<1>8. /\ Len(all) + 1 \in 1..Len(w) /\ w[Len(all) + 1] = "quote" /\ Len(w) \in Nat
      /\ Len(all) <= Len(w) /\ \A i \in 1..Len(all) : w[i] = all[i]
  <2>1. Len(all) + 1 \in 1..Len(x) /\ \A i \in 1..Len(all) : i \in 1..Len(x)
    BY <1>6
  <2>2. Len(w) = Len(all) + 1 + Len(after)
    BY <1>6, <1>7
  <2>. HIDE DEF w
  <2>. QED
    BY <1>6, <1>7, <2>1, <2>2
<1>. HIDE DEF w, final
<1>9. \A k \in 0..n : Precedes(L[k], w)
  <2>1. Precedes(L[n], w)
    BY <1>4, <1>8 DEF Precedes
  <2>. QED
    BY <1>3, <1>7, <2>1, WrittenFirst
<1>10. PICK A : Reads(A, w)
  BY <1>7, ReadFollows
<1>11. /\ A \in [0..Len(w) -> ReadingType] /\ final = A[Len(w)]
       /\ \A k \in 1..Len(w) : A[k] = Read1(A[k - 1], w[k]) /\ w[k] \in Glyphs
  <2>1. \A k \in 1..Len(w) : w[k] \in Glyphs
    BY <1>7, ElementOfSeq
  <2>. QED
    BY <1>10, <2>1 DEF Reads, final
<1>. DEFINE z == Len(all)
            end == [to |-> text, escapes |-> FALSE, ended |-> TRUE]
            T == {d \in 0..(Len(w) - (z + 1)) : A[z + 1 + d] = end}
<1>12. A[z] = [to |-> text, escapes |-> FALSE, ended |-> FALSE]
  BY <1>3, <1>4, <1>7, <1>9, <1>10, ReadBack
<1>13. z \in Nat /\ z + 1 <= Len(w) /\ Len(w) - (z + 1) \in Nat /\ z \in 0..Len(w)
  BY <1>6, <1>8
<1>14. A[z + 1] = end
  <2>1. A[z + 1] = Read1(A[z], "quote") /\ "quote" \in Glyphs
    <3>1. (z + 1) - 1 = z
      BY <1>13
    <3>2. "quote" \in Glyphs
      BY DEF Glyphs
    <3>3. z + 1 \in 1..Len(w) /\ w[z + 1] = "quote"
      BY <1>8
    <3>. HIDE DEF z
    <3>. DEFINE i == z + 1
    <3>4. i \in 1..Len(w) /\ i - 1 = z /\ w[i] = "quote"
      BY <3>1, <3>3
    <3>. HIDE DEF i
    <3>5. A[i] = Read1(A[i - 1], w[i])
      BY <1>11, <3>4
    <3>. QED
      BY <3>2, <3>4, <3>5 DEF i
  <2>2. A[z] \in ReadingType
    <3>. HIDE DEF z
    <3>. QED
      BY <1>11, <1>13
  <2>3. A[z].to = text /\ A[z].escapes = FALSE /\ A[z].ended = FALSE
    BY <1>12
  <2>4. Read1(A[z], "quote") = [to |-> A[z].to, escapes |-> FALSE, ended |-> TRUE]
    <3>. DEFINE s == A[z]
    <3>1. s \in ReadingType /\ ~s.escapes /\ ~s.ended
      BY <2>2, <2>3
    <3>. HIDE DEF s
    <3>2. Read1(s, "quote") = [to |-> s.to, escapes |-> FALSE, ended |-> TRUE]
      BY <2>1, <3>1, ReadOne
    <3>. QED
      BY <3>2 DEF s
  <2>. QED
    BY <2>1, <2>3, <2>4
<1>. HIDE DEF z
<1>15. end.ended = TRUE /\ end \in ReadingType
  BY DEF ReadingType
<1>. HIDE DEF end
<1>16. 0 \in T
  BY <1>13, <1>14
<1>17. ASSUME NEW d \in 1..(Len(w) - (z + 1)), d - 1 \in T PROVE d \in T
  <2>1. A[z + 1 + (d - 1)] = end /\ z + 1 + d \in 1..Len(w) /\ (z + 1 + d) - 1 = z + 1 + (d - 1)
        /\ d \in 0..(Len(w) - (z + 1))
    BY <1>13, <1>17
  <2>2. A[z + 1 + d] = Read1(A[(z + 1 + d) - 1], w[z + 1 + d]) /\ w[z + 1 + d] \in Glyphs
    <3>. DEFINE i == z + 1 + d
    <3>1. i \in 1..Len(w)
      BY <2>1
    <3>. HIDE DEF i
    <3>2. A[i] = Read1(A[i - 1], w[i])
      BY <1>11, <3>1
    <3>3. w[i] \in Glyphs
      BY <1>11, <3>1
    <3>. QED
      BY <3>2, <3>3 DEF i
  <2>3. A[z + 1 + d] = end
    BY <1>15, <2>1, <2>2, ReadOne
  <2>. QED
    BY <2>1, <2>3
<1>18. final = end
  <2>. DEFINE m == Len(w) - (z + 1)
  <2>1. m \in Nat
    BY <1>13
  <2>2. 0..m \subseteq T
    <3>. HIDE DEF T
    <3>1. \A d \in 1..m : d - 1 \in T => d \in T
      BY <1>17
    <3>. HIDE DEF m
    <3>. QED
      BY <1>16, <2>1, <3>1, UpTo
  <2>3. z + 1 + m = Len(w) /\ m \in 0..m
    BY <1>13
  <2>4. A[z + 1 + m] = end
    <3>. HIDE DEF m
    <3>. QED
      BY <2>2, <2>3
  <2>. QED
    BY <1>11, <2>3, <2>4
<1>. QED
  BY <1>1, <1>2, <1>18 DEF end

--------------------------------------------------------------------------------
(* The jobs. *)

\* What was made of a job that was worked on, for the kinds that are proved about.
Worked(j, m) ==
  /\ j.kind = "resource" => m = TokenizeString(j.src).text
  /\ j.kind = "file" => m = TokenizeFile(j.src).text
  /\ j.kind = "version" => m = ParseVersion(j.fields)
  /\ j.kind = "list" => m = CreateList(j.devices, j.o)
  /\ j.kind = "simple" => m = Simple(j.prepared, CreateList(j.devices, j.o), j.dev, j.results)
  /\ j.kind = "drivers" => m = <<PackVersion(j.a), PackVersion(j.b)>>
  /\ j.kind = "windows" => m = GetWindowsVersion(j.told, j.verified, j.build)
  /\ j.kind = "arch" => m = GetPlatformArch(j.native, j.app, j.asks)
  /\ j.kind = "install" => m = InstallDriver(j.update, j.copy, j.known)
  /\ j.kind = "quoted" => m = ParseQuoted(Quoted(j.text) \o j.after)
  /\ j.kind = "policy" =>
       LET set == SetUpdateCheck(j.reg, j.ticks, j.short, j.allows, j.picked) IN
       m = [reg |-> set.reg, result |-> set.result, due |-> CheckIsDue(set.reg, j.now)]
  /\ j.kind = "search" => m = SearchUpdate(j)
  /\ j.kind = "embed" =>
       LET before == Embed(NoHeader, TRUE, j.before, j.at).header IN
       m = [before |-> before,
               after |-> Embed(before, j.writable, AddUserFiles(j.fixed, j.found), j.at + 2)]
  /\ j.kind = "menu" => m = FoldLeft(SetFilterMenu, Menu, j.calls)
  /\ j.kind = "inf name" => m = ToValidFilename(j.name, j.ext)

WorkedOn == Worked(job, made)

JobsInv == job \in Jobs /\ (done => WorkedOn)

\* A job is worked on as its kind wants.
LEMMA JobStep == JobsInv /\ [JobNext]_jobvars => JobsInv'
<1>. SUFFICES ASSUME JobsInv, [JobNext]_jobvars PROVE JobsInv'
  OBVIOUS
<1>1. CASE UNCHANGED jobvars
  <2>1. job' = job /\ done' = done /\ made' = made
    BY <1>1 DEF jobvars
  <2>2. ASSUME WorkedOn PROVE WorkedOn'
    BY <2>1, <2>2, SMTT(30) DEF WorkedOn
  <2>. QED
    BY <2>1, <2>2 DEF JobsInv
<1>2. CASE JobNext
  <2>1. job' = job /\ job \in Jobs /\ job' \in Jobs
    BY <1>2 DEF JobNext, JobsInv
  <2>. USE <2>1 DEF WorkedOn, Worked
  <2>2. ASSUME TokenizeResource PROVE WorkedOn'
    BY <2>2 DEF TokenizeResource
  <2>3. ASSUME TokenizeExternal PROVE WorkedOn'
    BY <2>3 DEF TokenizeExternal
  <2>4. ASSUME ReadSetting PROVE WorkedOn'
    BY <2>4 DEF ReadSetting
  <2>5. ASSUME ReadVersion PROVE WorkedOn'
    BY <2>5 DEF ReadVersion
  <2>6. ASSUME ListDevices PROVE WorkedOn'
    BY <2>6 DEF ListDevices
  <2>7. ASSUME RunSimple PROVE WorkedOn'
    BY <2>7 DEF RunSimple
  <2>8. ASSUME PackTwo PROVE WorkedOn'
    BY <2>8 DEF PackTwo
  <2>9. ASSUME DetectVersion PROVE WorkedOn'
    BY <2>9 DEF DetectVersion
  <2>10. ASSUME DetectArch PROVE WorkedOn'
    BY <2>10 DEF DetectArch
  <2>11. ASSUME FinishInstall PROVE WorkedOn'
    BY <2>11 DEF FinishInstall
  <2>12. ASSUME ReadProfile PROVE WorkedOn'
    BY <2>12 DEF ReadProfile
  <2>13. ASSUME ReadQuoted PROVE WorkedOn'
    BY <2>13 DEF ReadQuoted
  <2>14. ASSUME ReadIni PROVE WorkedOn'
    BY <2>14 DEF ReadIni
  <2>15. ASSUME OpenPresets PROVE WorkedOn'
    BY <2>15 DEF OpenPresets
  <2>16. ASSUME AskPolicy PROVE WorkedOn'
    BY <2>16 DEF AskPolicy
  <2>17. ASSUME SearchServer PROVE WorkedOn'
    BY <2>17 DEF SearchServer
  <2>18. ASSUME EmbedFiles PROVE WorkedOn'
    BY <2>18 DEF EmbedFiles
  <2>19. ASSUME ShowFilter PROVE WorkedOn'
    BY <2>19 DEF ShowFilter
  <2>20. ASSUME NameInf PROVE WorkedOn'
    BY <2>20 DEF NameInf
  <2>. QED
    BY <1>2, <2>2, <2>3, <2>4, <2>5, <2>6, <2>7, <2>8, <2>9, <2>10, <2>11, <2>12, <2>13, <2>14, <2>15,
       <2>16, <2>17, <2>18, <2>19, <2>20 DEF JobNext, JobsInv
<1>. QED
  BY <1>1, <1>2

\* What is made is a text that is meant.
LEMMA TextsAre == JobsInv /\ done /\ job.kind # "setting" => TextIsMeant
<1>. SUFFICES ASSUME JobsInv, done, job.kind # "setting" PROVE TextIsMeant
  OBVIOUS
<1>1. IsJob(job) /\ WorkedOn
  BY JobsAssumption DEF JobsInv
<1>2. CASE job.kind = "resource"
  <2>1. job.src \in Texts /\ made = TokenizeString(job.src).text
    BY <1>1, <1>2 DEF IsJob, WorkedOn, Worked, Texts
  <2>2. made = Meant(job.src)
    BY <2>1, TokenizeMeant
  <2>. QED
    BY <1>2, <2>2 DEF TextIsMeant
<1>3. CASE job.kind = "file"
  <2>1. job.src \in Texts /\ made = TokenizeFile(job.src).text
    BY <1>1, <1>3 DEF IsJob, WorkedOn, Worked, Texts
  <2>2. CASE \E i \in 1..(Len(job.src) - 1) : job.src[i] = "\r" /\ job.src[i + 1] = "\n"
    <3>1. made = <<>>
      BY <2>1, <2>2 DEF TokenizeFile, Refused
    <3>2. Len(job.src) \in Nat
      BY <2>1, LenProperties DEF Texts
    <3>3. Contains(job.src, "\r")
      BY <2>2, <3>2 DEF Contains
    <3>. QED
      BY <1>3, <3>1, <3>3 DEF TextIsMeant
  <2>3. CASE ~ \E i \in 1..(Len(job.src) - 1) : job.src[i] = "\r" /\ job.src[i + 1] = "\n"
    <3>1. made = TokenizeString(job.src).text
      BY <2>1, <2>3 DEF TokenizeFile
    <3>2. made = Meant(job.src)
      BY <2>1, <3>1, TokenizeMeant
    <3>. QED
      BY <1>3, <3>2 DEF TextIsMeant
  <2>. QED
    BY <2>2, <2>3
<1>4. CASE job.kind = "quoted"
  <2>1. job.text \in Seq(STRING) /\ job.after \in Seq(STRING) /\ made = ParseQuoted(Quoted(job.text) \o job.after)
    BY <1>1, <1>4 DEF IsJob, WorkedOn, Worked
  <2>2. \A s \in Seq(STRING) : s \in Seq(Glyphs)
    <3>1. STRING \subseteq Glyphs
      BY DEF Glyphs
    <3>. HIDE DEF Glyphs
    <3>2. ASSUME NEW s \in Seq(STRING) PROVE s \in Seq(Glyphs)
      <4>1. s = [i \in 1..Len(s) |-> s[i]] /\ Len(s) \in Nat /\ \A i \in 1..Len(s) : s[i] \in STRING
        BY LenProperties, ElementOfSeq
      <4>2. \A i \in 1..Len(s) : s[i] \in Glyphs
        BY <3>1, <4>1
      <4>. QED
        BY <4>1, <4>2, IsASeq
    <3>. QED
      BY <3>2
  <2>3. made = job.text
    BY <2>1, <2>2, QuotedMeant
  <2>. QED
    BY <1>4, <2>3 DEF TextIsMeant
<1>5. CASE job.kind = "version"
  <2>1. job.fields \in Seq(0..(Wide - 1)) /\ made = ParseVersion(job.fields)
    BY <1>1, <1>5 DEF IsJob, WorkedOn, Worked
  <2>2. \A i \in 1..4 : i \in DOMAIN job.fields => made[i] = job.fields[i]
    BY <2>1, VersionMeant
  <2>. QED
    BY <1>5, <2>2 DEF TextIsMeant
<1>6. CASE job.kind = "drivers"
  <2>1. job.a \in Seq(Fields) /\ job.b \in Seq(Fields) /\ made = <<PackVersion(job.a), PackVersion(job.b)>>
    BY <1>1, <1>6 DEF IsJob, WorkedOn, Worked
  <2>2. Len(job.a) = Len(job.b) => (made[1] < made[2] <=> Less(job.a, job.b))
    <3>1. made[1] = PackVersion(job.a) /\ made[2] = PackVersion(job.b)
      BY <2>1
    <3>. QED
      BY <2>1, <3>1, PackMeant
  <2>. QED
    BY <1>6, <2>2 DEF TextIsMeant
<1>7. CASE job.kind \notin {"resource", "file", "quoted", "version", "drivers"}
  BY <1>7 DEF TextIsMeant
<1>. QED
  BY <1>2, <1>3, <1>4, <1>5, <1>6, <1>7

\* What is made of the system and its devices is what is meant.
LEMMA SystemsAre == JobsInv /\ done => SystemIsMeant
<1>. SUFFICES ASSUME JobsInv, done PROVE SystemIsMeant
  OBVIOUS
<1>1. IsJob(job) /\ WorkedOn
  BY JobsAssumption DEF JobsInv
<1>2. CASE job.kind = "list"
  <2>1. job.devices \in Seq(DeviceType) /\ made = CreateList(job.devices, job.o)
    BY <1>1, <1>2 DEF IsJob, WorkedOn, Worked
  <2>2. ListIsMeant(made, job.devices, job.o)
    BY <2>1, ListMeant
  <2>. QED
    BY <1>2, <2>2 DEF SystemIsMeant
<1>3. CASE job.kind = "simple"
  <2>. DEFINE list == CreateList(job.devices, job.o)
  <2>1. /\ job.devices \in Seq(DeviceType) /\ job.prepared \in BOOLEAN /\ job.results \in Seq(BOOLEAN)
        /\ Len(job.devices) <= Len(job.results) /\ made = Simple(job.prepared, list, job.dev, job.results)
    BY <1>1, <1>3 DEF IsJob, WorkedOn, Worked
  <2>2. InOrder(list, Len(job.devices), job.results)
    BY <2>1, ListInOrder
  <2>. HIDE DEF list
  <2>3. SimpleIsMeant(made, job.prepared, list, job.dev, job.results)
    BY <2>1, <2>2, SimpleMeant
  <2>. QED
    BY <1>3, <2>3 DEF SystemIsMeant, list
<1>4. CASE job.kind = "windows"
  <2>1. /\ job.real \in Pairs /\ job.told \in Pairs /\ job.verified \in Pairs /\ job.build \in Nat
        /\ Told(job.real, job.told, job.verified) /\ made = GetWindowsVersion(job.told, job.verified, job.build)
    BY <1>1, <1>4 DEF IsJob, WorkedOn, Worked
  <2>2. /\ made < Code(<<6, 1>>) <=> Less(job.real, <<6, 1>>)
        /\ job.verified = job.real =>
             made = IF Less(job.real, XP) THEN WINDOWS_UNSUPPORTED
                    ELSE IF job.real = Windows10 /\ job.build >= FirstBuildOf11
                    THEN Code(Windows11) ELSE Code(job.real)
    BY <2>1, WindowsMeant
  <2>. QED
    BY <1>4, <2>2 DEF SystemIsMeant
<1>5. CASE job.kind = "arch"
  <2>1. <<job.app, job.native>> \in Runs /\ job.asks \in BOOLEAN /\ made = GetPlatformArch(job.native, job.app, job.asks)
    BY <1>1, <1>5 DEF IsJob, WorkedOn, Worked
  <2>2. made # job.native => <<job.app, job.native>> \in Emulated /\ ~job.asks
    BY <2>1, ArchMeant
  <2>. QED
    BY <1>5, <2>2 DEF SystemIsMeant
<1>6. CASE job.kind \notin {"list", "simple", "windows", "arch"}
  BY <1>6 DEF SystemIsMeant
<1>. QED
  BY <1>2, <1>3, <1>4, <1>5, <1>6

\* The header from before has a time, and the files begin with one that has data.
LEMMA EmbedsAre ==
  ASSUME NEW j, j.kind = "embed", IsJob(j)
  PROVE  LET before == Embed(NoHeader, TRUE, j.before, j.at).header
             files == AddUserFiles(j.fixed, j.found) IN
         EmbedIsMeant([before |-> before, after |-> Embed(before, j.writable, files, j.at + 2)], files)
<1>. DEFINE before == Embed(NoHeader, TRUE, j.before, j.at).header
            files == AddUserFiles(j.fixed, j.found)
<1>1. /\ j.fixed \in Seq(FileType) /\ j.found \in Seq(FileType) /\ j.at \in Int /\ j.writable \in BOOLEAN
      /\ j.fixed # <<>> /\ ~j.fixed[1].reuse
  BY DEF IsJob
<1>2. before.time \in Int
  <2>1. IsOutdated(NoHeader, j.before) /\ NoHeader.time = 0
    BY DEF IsOutdated, NoHeader
  <2>2. Embed(NoHeader, TRUE, j.before, j.at) = MakeHeader(j.before, j.at)
    BY <2>1 DEF Embed
  <2>3. MakeHeader(j.before, j.at).header.time \in {0, j.at}
    <3>1. CASE \E i \in DOMAIN j.before : ~j.before[i].reuse /\ ~(j.before[i].opens /\ j.before[i].readable)
      BY <2>1, <3>1 DEF MakeHeader
    <3>2. CASE ~ \E i \in DOMAIN j.before : ~j.before[i].reuse /\ ~(j.before[i].opens /\ j.before[i].readable)
      BY <3>2 DEF MakeHeader
    <3>. QED
      BY <3>1, <3>2
  <2>4. before.time \in {0, j.at}
    BY <2>2, <2>3
  <2>. HIDE DEF before
  <2>. QED
    BY <1>1, <2>4
<1>3. files \in Seq(FileType) /\ ~files[1].reuse
  <2>1. files = j.fixed \o j.found
    BY DEF AddUserFiles
  <2>2. files \in Seq(FileType) /\ \A i \in 1..Len(j.fixed) : files[i] = j.fixed[i]
    <3>. DEFINE a == j.fixed
                b == j.found
    <3>1. a \in Seq(FileType) /\ b \in Seq(FileType)
      BY <1>1
    <3>. HIDE DEF a, b
    <3>2. a \o b \in Seq(FileType) /\ \A i \in 1..Len(a) : (a \o b)[i] = a[i]
      BY <3>1, JoinIs
    <3>. QED
      BY <2>1, <3>2 DEF a, b
  <2>3. Len(j.fixed) \in Nat /\ Len(j.fixed) # 0
    BY <1>1, LenProperties, EmptySeq
  <2>4. 1 \in 1..Len(j.fixed)
    BY <2>3
  <2>. QED
    BY <1>1, <2>2, <2>4
<1>. HIDE DEF before, files
<1>4. EmbedIsMeant([before |-> before, after |-> Embed(before, j.writable, files, j.at + 2)], files)
  BY <1>1, <1>2, <1>3, EmbedMeant
<1>. QED
  BY <1>4 DEF before, files

\* The kinds of jobs that are proved about.
Kinds == {"resource", "file", "quoted", "version", "drivers", "list", "simple", "windows", "arch", "install",
          "policy", "search", "embed", "menu", "inf name"}

\* What is made of a job of these kinds is what is meant, whatever its size ...
LEMMA MadeAsMeant == JobsInv /\ job.kind \in Kinds => AsMeant
<1>. SUFFICES ASSUME JobsInv, job.kind \in Kinds, done PROVE AsMeant
  BY DEF AsMeant
<1>1. IsJob(job) /\ WorkedOn /\ Underscore \notin Bad
  BY JobsAssumption DEF JobsInv, Bad
<1>2. TextIsMeant
  BY TextsAre DEF Kinds
<1>3. SystemIsMeant
  BY SystemsAre
<1>4. job.kind = "install" => InstallIsMeant
  BY <1>1, InstallMeant DEF WorkedOn, Worked
<1>5. ~ (job.kind \in {"profile", "ini", "presets"})
  BY DEF Kinds
<1>6. ASSUME job.kind = "policy" PROVE PolicyIsMeant(made, job)
  <2>1. /\ IsRegistry(job.reg) /\ job.ticks \in Int /\ job.now \in Int /\ job.short \in BOOLEAN
        /\ job.allows \in BOOLEAN /\ job.picked \in Nat \cup {Disabled}
    BY <1>1, <1>6 DEF IsJob
  <2>2. LET set == SetUpdateCheck(job.reg, job.ticks, job.short, job.allows, job.picked) IN
        made = [reg |-> set.reg, result |-> set.result, due |-> CheckIsDue(set.reg, job.now)]
    BY <1>1, <1>6 DEF WorkedOn, Worked
  <2>. QED
    BY <2>1, <2>2, RegistryIs, PolicyMeant
<1>7. ASSUME job.kind = "search" PROVE SearchIsMeant(made, job)
  <2>1. SearchInput(job) /\ made = SearchUpdate(job)
    BY <1>1, <1>7 DEF IsJob, WorkedOn, Worked
  <2>. QED
    BY <2>1, SearchMeant
<1>8. ASSUME job.kind = "menu" PROVE MenuIsMeant(made, job.calls)
  <2>1. job.calls \in Seq(Calls) /\ job.calls # <<>> /\ made = FoldLeft(SetFilterMenu, Menu, job.calls)
    BY <1>1, <1>8 DEF IsJob, WorkedOn, Worked
  <2>. QED
    BY <2>1, MenuMeant
<1>9. ASSUME job.kind = "inf name" PROVE NameIsMeant(made, job.name, job.ext)
  <2>1. /\ job.name \in Seq(STRING) /\ job.ext \in Seq(STRING) /\ ToSet(job.ext) \cap Bad = {}
        /\ made = ToValidFilename(job.name, job.ext)
    BY <1>1, <1>9 DEF IsJob, WorkedOn, Worked, Bad
  <2>. QED
    BY <1>1, <2>1, NameMeant
<1>10. ASSUME job.kind = "embed" PROVE EmbedIsMeant(made, AddUserFiles(job.fixed, job.found))
  <2>1. LET before == Embed(NoHeader, TRUE, job.before, job.at).header IN
        made = [before |-> before,
                after |-> Embed(before, job.writable, AddUserFiles(job.fixed, job.found), job.at + 2)]
    BY <1>1, <1>10 DEF WorkedOn, Worked
  <2>. QED
    BY <1>1, <1>10, <2>1, EmbedsAre
<1>. QED
  BY <1>2, <1>3, <1>4, <1>5, <1>6, <1>7, <1>8, <1>9, <1>10 DEF AsMeant

\* ... in every run: texts of any length come out of the tokenizer with each token replaced and
\* nothing else changed (tokenizer.c), a quoted text is read back (profile.c), versions are read and
\* compare as they are meant to (zadig_parser.c, zadig_net.c), the list of devices holds the wanted
\* ones, told apart (wdi_create_list), wdi-simple installs on each that matches, Windows and its
\* architecture are taken for what they are (libwdi.c), an installation that did something succeeds
\* (installer.c), who is asked decides whether updates are looked for, and a new version is announced
\* when there is one (zadig_net.c, zadig_stdlg.c), the header of the embedded files has the data of
\* each (embedder.c), and the filter menu and the inf names are right (zadig.c, zadig_stdlg.c).
THEOREM JobsAreMeant == JobInit /\ [][JobNext]_jobvars => [](job.kind \in Kinds => AsMeant)
<1>1. JobInit => JobsInv
  BY DEF JobInit, JobsInv
<1>. QED
  BY <1>1, JobStep, MadeAsMeant, PTL
=============================================================================
