----------------------------- MODULE SyslogProofs -----------------------------
(***************************************************************************)
(* Proofs about Syslog, for any number of processes, sizes of chunks and of *)
(* the pipe, and messages of any length: as long as reads take one chunk    *)
(* each, nothing is lost between a process and the log, and a line is a     *)
(* message.                                                                 *)
(***************************************************************************)
EXTENDS Syslog, FiniteSetTheorems, SequenceTheorems, WellFoundedInduction, TLAPS

-----------------------------------------------------------------------------
(* Induction and recursion over numbers and sequences, as facts about sets  *)
(* and functions.                                                           *)

\* A set of numbers has a least element.
LEMMA LeastNumber ==
  ASSUME NEW T \in SUBSET Nat, T # {}
  PROVE  \E n \in T : \A m \in T : n <= m
  <1>1. \E R : /\ \E n \in T : \A m \in T : ~(<<m, n>> \in R)
               /\ \A m, n \in Nat : m < n => <<m, n>> \in R
    <2>1. \E n \in T : \A m \in T : ~(<<m, n>> \in OpToRel(<, Nat))
      BY NatLessThanWellFounded, WFMin
    <2>2. ASSUME NEW m \in Nat, NEW n \in Nat, m < n
          PROVE  <<m, n>> \in OpToRel(<, Nat)
      <3>1. <<m, n>> \in Nat \X Nat /\ <<m, n>>[1] = m /\ <<m, n>>[2] = n
        OBVIOUS
      <3>2. QED
        BY <2>2, <3>1, Zenon DEF OpToRel
    <2>3. QED
      BY <2>1, <2>2, Zenon
  <1>2. PICK R : /\ \E n \in T : \A m \in T : ~(<<m, n>> \in R)
                 /\ \A m, n \in Nat : m < n => <<m, n>> \in R
    BY <1>1
  <1>3. PICK n \in T : \A m \in T : ~(<<m, n>> \in R)
    BY <1>2
  <1>4. \A m \in T : ~(m < n)
    BY <1>2, <1>3, Zenon
  <1>5. \A m \in T : m < n \/ n <= m
    OBVIOUS
  <1>6. QED
    BY <1>4, <1>5, Zenon

\* A set of numbers up to n that is closed under successors.
LEMMA UpTo ==
  ASSUME NEW n \in Nat, NEW T, 0 \in T, \A m \in 1 .. n : m - 1 \in T => m \in T
  PROVE  \A m \in 0 .. n : m \in T
  <1> SUFFICES ASSUME (0 .. n) \ T # {}
               PROVE  FALSE
    OBVIOUS
  <1>0. (0 .. n) \ T \in SUBSET Nat
    OBVIOUS
  <1>1. PICK m \in (0 .. n) \ T : \A k \in (0 .. n) \ T : m <= k
    BY <1>0, LeastNumber
  <1>2. m # 0 /\ m \in 1 .. n /\ m - 1 \in 0 .. n
    BY <1>1
  <1>3. m - 1 \in T
    BY <1>1, <1>2
  <1>4. QED
    BY <1>1, <1>2, <1>3

\* A set of sequences that appending does not leave.
LEMMA AllSequences ==
  ASSUME NEW S, NEW T, <<>> \in T,
         \A s \in Seq(S) : \A e \in S : s \in T => Append(s, e) \in T
  PROVE  Seq(S) \subseteq T
  <1> SUFFICES ASSUME NEW s \in Seq(S)
               PROVE  s \in T
    OBVIOUS
  <1> DEFINE U == {k \in 0 .. Len(s) : SubSeq(s, 1, k) \in T}
  <1>1. Len(s) \in Nat
    BY LenProperties
  <1>2. 0 \in U
    <2>1. SubSeq(s, 1, 0) = <<>>
      BY SubSeqEmpty
    <2>2. SubSeq(s, 1, 0) \in T
      BY <2>1, Zenon
    <2>3. QED
      BY <1>1, <2>2
  <1>3. ASSUME NEW k \in 1 .. Len(s), k - 1 \in U
        PROVE  k \in U
    <2>1. /\ SubSeq(s, 1, k - 1) \in Seq(S) /\ s[k] \in S
          /\ SubSeq(s, 1, k) = Append(SubSeq(s, 1, k - 1), s[k])
      <3>1. s[k] \in S /\ SubSeq(s, 1, k - 1) \in Seq(S)
        BY <1>1
      <3>2. SubSeq(s, 1, k) = SubSeq(s, 1, k - 1) \o <<s[k]>>
        BY <1>1, SubSeqRecursiveSecond
      <3>3. QED
        BY <3>1, <3>2, AppendIsConcat
    <2>2. SubSeq(s, 1, k - 1) \in T
      BY <1>3
    <2>3. SubSeq(s, 1, k) \in T
      BY <2>1, <2>2, Zenon
    <2>4. k \in 0 .. Len(s)
      BY <1>1
    <2>5. QED
      BY <2>3, <2>4
  <1>4. Len(s) \in U
    <2> HIDE DEF U
    <2>1. \A k \in 0 .. Len(s) : k \in U
      BY <1>1, <1>2, <1>3, UpTo
    <2>2. QED
      BY <1>1, <2>1
  <1>5. SubSeq(s, 1, Len(s)) = s
    BY SubSeqFull, Zenon
  <1>6. QED
    BY <1>4, <1>5

Recurs(f, n, S, base, step) ==
  /\ f \in [0 .. n -> S]
  /\ f[0] = base
  /\ \A i \in 1 .. n : f[i] = step[i][f[i - 1]]

\* A function can be defined by recursion over 1 .. n.
LEMMA Recursion ==
  ASSUME NEW n \in Nat, NEW S, NEW base \in S, NEW step \in [1 .. n -> [S -> S]]
  PROVE  \E f : Recurs(f, n, S, base, step)
  <1> DEFINE Good(m, f) ==
               f[0] = base /\ \A i \in 1 .. m : f[i] = step[i][f[i - 1]]
             T == {m \in 0 .. n : \E f \in [0 .. m -> S] : Good(m, f)}
  <1>1. 0 \in T
    <2>1. [i \in 0 .. 0 |-> base] \in [0 .. 0 -> S] /\ Good(0, [i \in 0 .. 0 |-> base])
      OBVIOUS
    <2>2. 0 \in 0 .. n
      OBVIOUS
    <2>3. \E f \in [0 .. 0 -> S] : Good(0, f)
      BY <2>1
    <2> HIDE DEF Good
    <2>4. QED
      BY <2>2, <2>3
  <1>2. ASSUME NEW m \in 1 .. n, m - 1 \in T
        PROVE  m \in T
    <2>1. PICK f \in [0 .. m - 1 -> S] : Good(m - 1, f)
      BY <1>2
    <2> DEFINE g == [i \in 0 .. m |-> IF i = m THEN step[m][f[m - 1]] ELSE f[i]]
    <2>2. step[m][f[m - 1]] \in S
      OBVIOUS
    <2>3. g \in [0 .. m -> S]
      BY <2>2
    <2>4. Good(m, g)
      <3>1. g[0] = base
        BY <2>1
      <3>2. ASSUME NEW i \in 1 .. m
            PROVE  g[i] = step[i][g[i - 1]]
        <4>1. CASE i = m
          BY <4>1
        <4>2. CASE i # m
          <5>1. i \in 1 .. m - 1 /\ g[i] = f[i] /\ g[i - 1] = f[i - 1]
            BY <4>2
          <5>2. f[i] = step[i][f[i - 1]]
            BY <2>1, <5>1
          <5>3. QED
            BY <5>1, <5>2
        <4>3. QED
          BY <4>1, <4>2
      <3>3. QED
        BY <3>1, <3>2
    <2>5. m \in 0 .. n
      OBVIOUS
    <2> HIDE DEF Good, g
    <2>6. QED
      BY <2>3, <2>4, <2>5
  <1>3. n \in T
    <2> HIDE DEF T
    <2>1. \A m \in 0 .. n : m \in T
      BY <1>1, <1>2, UpTo
    <2>2. QED
      BY <2>1
  <1>4. QED
    BY <1>3 DEF Recurs

-----------------------------------------------------------------------------
(* The payload of a process in a sequence of cells.                         *)

PayloadSteps(p, s, S, f) ==
  /\ f \in [0 .. Len(s) -> Seq(S)]
  /\ PayloadOf(p, s) = f[Len(s)]
  /\ f[0] = <<>>
  /\ \A i \in 1 .. Len(s) :
       f[i] = IF IsOf(p, s[i]) THEN Append(f[i - 1], s[i]) ELSE f[i - 1]

\* The recursive function that PayloadOf is defined by exists.
LEMMA PayloadUnfolds ==
  ASSUME NEW p, NEW S, NEW s \in Seq(S)
  PROVE  \E f : PayloadSteps(p, s, S, f)
  <1> DEFINE n == Len(s)
             After(r, e) == IF IsOf(p, e) THEN Append(r, e) ELSE r
             Visits(f) == f = [i \in 0 .. n |->
               IF i = 0 THEN <<>>
               ELSE IF IsOf(p, s[i]) THEN Append(f[i - 1], s[i]) ELSE f[i - 1]]
             step == [i \in 1 .. n |-> [r \in Seq(S) |-> After(r, s[i])]]
  <1>1. n \in Nat /\ \A i \in 1 .. n : s[i] \in S
    OBVIOUS
  <1>2. \E b : PayloadOf(p, s) = b[n] /\ b = CHOOSE f : Visits(f)
    BY DEF PayloadOf
  <1>3. \A r \in Seq(S) : \A e \in S : After(r, e) \in Seq(S)
    OBVIOUS
  <1>4. step \in [1 .. n -> [Seq(S) -> Seq(S)]]
    <2> HIDE DEF After, n
    <2>1. QED
      BY <1>1, <1>3
  <1>5. <<>> \in Seq(S)
    OBVIOUS
  <1>6. PICK f : Recurs(f, n, Seq(S), <<>>, step)
    <2> HIDE DEF step, n
    <2>1. QED
      BY <1>1, <1>4, <1>5, Recursion, Zenon
  <1>7. \A i \in 1 .. n : f[i] = After(f[i - 1], s[i])
    <2> HIDE DEF After, n
    <2>1. \A i \in 1 .. n : f[i - 1] \in Seq(S)
      BY <1>1, <1>6 DEF Recurs
    <2>2. QED
      BY <1>6, <2>1 DEF Recurs
  <1>8. Visits(f)
    <2> DEFINE g == [i \in 0 .. n |->
                 IF i = 0 THEN <<>>
                 ELSE IF IsOf(p, s[i]) THEN Append(f[i - 1], s[i]) ELSE f[i - 1]]
    <2> HIDE DEF n, step
    <2>1. \A i \in 0 .. n : i = 0 \/ i \in 1 .. n
      BY <1>1
    <2>2. f[0] = <<>> /\ f \in [0 .. n -> Seq(S)]
      BY <1>6 DEF Recurs
    <2>3. \A i \in 0 .. n : f[i] = g[i]
      BY <1>7, <2>1, <2>2
    <2>4. f = g
      BY <2>2, <2>3
    <2>5. QED
      BY <2>4
  <1>9. PICK b : PayloadOf(p, s) = b[n] /\ Visits(b)
    <2> HIDE DEF Visits
    <2>1. QED
      BY <1>2, <1>8
  <1>10. b[0] = <<>> /\ \A i \in 1 .. n : b[i] = After(b[i - 1], s[i])
    <2> HIDE DEF n, step
    <2>1. 0 \in 0 .. n /\ \A i \in 1 .. n : i \in 0 .. n /\ i # 0
      BY <1>1
    <2>2. QED
      BY <1>9, <2>1
  <1>11. \A i \in 0 .. n : b[i] \in Seq(S)
    <2> DEFINE T == {i \in 0 .. n : b[i] \in Seq(S)}
    <2> HIDE DEF After, n, step, Visits
    <2>0. 0 \in 0 .. n /\ \A i \in 1 .. n : i \in 0 .. n
      BY <1>1
    <2>1. 0 \in T
      BY <1>5, <1>10, <2>0
    <2>2. \A i \in 1 .. n : i - 1 \in T => i \in T
      BY <1>1, <1>3, <1>10, <2>0
    <2> HIDE DEF T
    <2>3. \A i \in 0 .. n : i \in T
      BY <1>1, <2>1, <2>2, UpTo
    <2>4. QED
      BY <2>3 DEF T
  <1>12. b \in [0 .. n -> Seq(S)]
    BY <1>9, <1>11
  <1>13. QED
    BY <1>9, <1>10, <1>12 DEF PayloadSteps

LEMMA PayloadEmpty ==
  ASSUME NEW p
  PROVE  PayloadOf(p, <<>>) = <<>>
  <1>1. <<>> \in Seq({}) /\ Len(<<>>) = 0
    OBVIOUS
  <1>2. PICK f : PayloadSteps(p, <<>>, {}, f)
    BY <1>1, PayloadUnfolds, Zenon
  <1>3. QED
    BY <1>1, <1>2, Zenon DEF PayloadSteps

LEMMA PayloadTyped ==
  ASSUME NEW p, NEW S, NEW s \in Seq(S)
  PROVE  PayloadOf(p, s) \in Seq(S)
  <1>1. PICK f : PayloadSteps(p, s, S, f)
    BY PayloadUnfolds
  <1>2. Len(s) \in 0 .. Len(s)
    OBVIOUS
  <1>3. QED
    BY <1>1, <1>2 DEF PayloadSteps

LEMMA PayloadAppend ==
  ASSUME NEW p, NEW S, NEW s \in Seq(S), NEW e \in S
  PROVE  PayloadOf(p, Append(s, e)) =
           IF IsOf(p, e) THEN Append(PayloadOf(p, s), e) ELSE PayloadOf(p, s)
  <1> DEFINE t == Append(s, e)
             n == Len(s)
  <1>1. /\ t \in Seq(S) /\ Len(t) = n + 1 /\ t[n + 1] = e /\ n \in Nat
        /\ n = Len(s)
        /\ \A i \in 1 .. n : t[i] = s[i]
    OBVIOUS
  <1>2. PICK f : PayloadSteps(p, s, S, f)
    BY PayloadUnfolds
  <1> HIDE DEF t, n
  <1>3. PICK g : PayloadSteps(p, t, S, g)
    BY <1>1, PayloadUnfolds
  <1> DEFINE T == {i \in 0 .. n : f[i] = g[i]}
  <1>4. 0 \in T
    BY <1>1, <1>2, <1>3 DEF PayloadSteps
  <1>5. ASSUME NEW i \in 1 .. n, i - 1 \in T
        PROVE  i \in T
    <2>1. i \in 1 .. Len(t) /\ t[i] = s[i] /\ f[i - 1] = g[i - 1] /\ i \in 0 .. n
      BY <1>1, <1>5
    <2>2. g[i] = IF IsOf(p, s[i]) THEN Append(f[i - 1], s[i]) ELSE f[i - 1]
      BY <1>3, <2>1 DEF PayloadSteps
    <2>3. f[i] = g[i]
      BY <1>1, <1>2, <2>2 DEF PayloadSteps
    <2>4. QED
      BY <2>1, <2>3
  <1>6. n \in T
    <2> HIDE DEF T
    <2>1. \A i \in 0 .. n : i \in T
      BY <1>1, <1>4, <1>5, UpTo
    <2>2. QED
      BY <1>1, <2>1
  <1>7. n + 1 \in 1 .. Len(t) /\ (n + 1) - 1 = n
    BY <1>1
  <1>8. g[n + 1] = IF IsOf(p, e) THEN Append(g[n], e) ELSE g[n]
    BY <1>1, <1>3, <1>7 DEF PayloadSteps
  <1>9. QED
    BY <1>1, <1>2, <1>3, <1>6, <1>8 DEF t, PayloadSteps

LEMMA PayloadConcat ==
  ASSUME NEW p, NEW S, NEW s \in Seq(S), NEW t \in Seq(S)
  PROVE  PayloadOf(p, s \o t) = PayloadOf(p, s) \o PayloadOf(p, t)
  <1> DEFINE T == {u \in Seq(S) : PayloadOf(p, s \o u) = PayloadOf(p, s) \o PayloadOf(p, u)}
  <1>1. <<>> \in T
    <2>1. <<>> \in Seq(S) /\ s \o <<>> = s
      BY ConcatEmptySeq
    <2>2. PayloadOf(p, s) \o <<>> = PayloadOf(p, s)
      BY PayloadTyped, ConcatEmptySeq
    <2>3. QED
      BY <2>1, <2>2, PayloadEmpty
  <1>2. ASSUME NEW u \in Seq(S), NEW e \in S, u \in T
        PROVE  Append(u, e) \in T
    <2>1. /\ Append(u, e) \in Seq(S) /\ s \o u \in Seq(S)
          /\ s \o Append(u, e) = Append(s \o u, e)
      OBVIOUS
    <2>2. PayloadOf(p, s) \in Seq(S) /\ PayloadOf(p, u) \in Seq(S)
      BY PayloadTyped
    <2>3. PayloadOf(p, s) \o Append(PayloadOf(p, u), e)
            = Append(PayloadOf(p, s) \o PayloadOf(p, u), e)
      BY <2>2
    <2>4. PayloadOf(p, s \o u) = PayloadOf(p, s) \o PayloadOf(p, u)
      BY <1>2
    <2>5. PayloadOf(p, Append(s \o u, e)) =
            IF IsOf(p, e) THEN Append(PayloadOf(p, s \o u), e) ELSE PayloadOf(p, s \o u)
      BY <2>1, PayloadAppend
    <2>6. PayloadOf(p, Append(u, e)) =
            IF IsOf(p, e) THEN Append(PayloadOf(p, u), e) ELSE PayloadOf(p, u)
      BY PayloadAppend
    <2>7. PayloadOf(p, s \o Append(u, e)) = PayloadOf(p, s) \o PayloadOf(p, Append(u, e))
      BY <2>1, <2>3, <2>4, <2>5, <2>6, Zenon
    <2>8. QED
      BY <2>1, <2>7
  <1> HIDE DEF T
  <1>3. Seq(S) \subseteq T
    BY <1>1, <1>2, AllSequences
  <1>4. QED
    BY <1>3 DEF T

\* Of a text of one process it is everything, of that of another one nothing.
LEMMA PayloadOwn ==
  ASSUME NEW p, NEW S, NEW s \in Seq(S), \A i \in DOMAIN s : IsOf(p, s[i])
  PROVE  PayloadOf(p, s) = s
  <1>1. PICK f : PayloadSteps(p, s, S, f)
    BY PayloadUnfolds
  <1> DEFINE T == {i \in 0 .. Len(s) : f[i] = SubSeq(s, 1, i)}
  <1>2. 0 \in T
    <2>1. SubSeq(s, 1, 0) = <<>>
      BY SubSeqEmpty
    <2>2. f[0] = <<>> /\ 0 \in 0 .. Len(s)
      BY <1>1 DEF PayloadSteps
    <2>3. QED
      BY <2>1, <2>2
  <1>3. ASSUME NEW i \in 1 .. Len(s), i - 1 \in T
        PROVE  i \in T
    <2>1. f[i] = Append(SubSeq(s, 1, i - 1), s[i])
      <3>1. IsOf(p, s[i]) /\ f[i - 1] = SubSeq(s, 1, i - 1)
        BY <1>3
      <3>2. f[i] = IF IsOf(p, s[i]) THEN Append(f[i - 1], s[i]) ELSE f[i - 1]
        BY <1>1, Zenon DEF PayloadSteps
      <3>3. QED
        BY <3>1, <3>2
    <2>2. s[i] \in S /\ SubSeq(s, 1, i - 1) \in Seq(S)
      OBVIOUS
    <2>3. SubSeq(s, 1, i) = Append(SubSeq(s, 1, i - 1), s[i])
      BY <2>2, SubSeqRecursiveSecond, AppendIsConcat
    <2>4. i \in 0 .. Len(s)
      OBVIOUS
    <2>5. QED
      BY <2>1, <2>3, <2>4
  <1>4. Len(s) \in Nat
    OBVIOUS
  <1>5. Len(s) \in T
    <2> HIDE DEF T
    <2>1. \A i \in 0 .. Len(s) : i \in T
      BY <1>2, <1>3, <1>4, UpTo
    <2>2. QED
      BY <1>4, <2>1
  <1>6. QED
    BY <1>1, <1>5, SubSeqFull DEF PayloadSteps

LEMMA PayloadForeign ==
  ASSUME NEW p, NEW S, NEW s \in Seq(S), \A i \in DOMAIN s : ~IsOf(p, s[i])
  PROVE  PayloadOf(p, s) = <<>>
  <1>1. PICK f : PayloadSteps(p, s, S, f)
    BY PayloadUnfolds
  <1> DEFINE T == {i \in 0 .. Len(s) : f[i] = <<>>}
  <1>2. 0 \in T
    BY <1>1 DEF PayloadSteps
  <1>3. \A i \in 1 .. Len(s) : i - 1 \in T => i \in T
    BY <1>1 DEF PayloadSteps
  <1>4. Len(s) \in Nat
    OBVIOUS
  <1>5. Len(s) \in T
    <2> HIDE DEF T
    <2>1. \A i \in 0 .. Len(s) : i \in T
      BY <1>2, <1>3, <1>4, UpTo
    <2>2. QED
      BY <1>4, <2>1
  <1>6. QED
    BY <1>1, <1>5 DEF PayloadSteps

-----------------------------------------------------------------------------
(* The texts of the log.                                                    *)

ConcatSteps(s, S, f) ==
  /\ f \in [0 .. Len(s) -> Seq(S)]
  /\ Concat(s) = f[Len(s)]
  /\ f[0] = <<>>
  /\ \A i \in 1 .. Len(s) : f[i] = f[i - 1] \o s[i]

LEMMA ConcatUnfolds ==
  ASSUME NEW S, NEW s \in Seq(Seq(S))
  PROVE  \E f : ConcatSteps(s, S, f)
  <1> DEFINE n == Len(s)
             Visits(f) == f = [i \in 0 .. n |->
               IF i = 0 THEN <<>> ELSE f[i - 1] \o s[i]]
             step == [i \in 1 .. n |-> [r \in Seq(S) |-> r \o s[i]]]
  <1>1. n \in Nat /\ \A i \in 1 .. n : s[i] \in Seq(S)
    OBVIOUS
  <1>2. \E b : Concat(s) = b[n] /\ b = CHOOSE f : Visits(f)
    BY DEF Concat
  <1>3. \A r, t \in Seq(S) : r \o t \in Seq(S)
    OBVIOUS
  <1>4. step \in [1 .. n -> [Seq(S) -> Seq(S)]]
    <2> HIDE DEF n
    <2>1. QED
      BY <1>1, <1>3
  <1>5. <<>> \in Seq(S)
    OBVIOUS
  <1>6. PICK f : Recurs(f, n, Seq(S), <<>>, step)
    <2> HIDE DEF step, n
    <2>1. QED
      BY <1>1, <1>4, <1>5, Recursion, Zenon
  <1>7. \A i \in 1 .. n : f[i] = f[i - 1] \o s[i]
    <2> HIDE DEF n
    <2>1. \A i \in 1 .. n : f[i - 1] \in Seq(S)
      BY <1>1, <1>6 DEF Recurs
    <2>2. QED
      BY <1>6, <2>1 DEF Recurs
  <1>8. Visits(f)
    <2> DEFINE g == [i \in 0 .. n |-> IF i = 0 THEN <<>> ELSE f[i - 1] \o s[i]]
    <2> HIDE DEF n, step
    <2>1. \A i \in 0 .. n : i = 0 \/ i \in 1 .. n
      BY <1>1
    <2>2. f[0] = <<>> /\ f \in [0 .. n -> Seq(S)]
      BY <1>6 DEF Recurs
    <2>3. \A i \in 0 .. n : f[i] = g[i]
      BY <1>7, <2>1, <2>2
    <2>4. f = g
      BY <2>2, <2>3
    <2>5. QED
      BY <2>4
  <1>9. PICK b : Concat(s) = b[n] /\ Visits(b)
    <2> HIDE DEF Visits
    <2>1. QED
      BY <1>2, <1>8
  <1>10. b[0] = <<>> /\ \A i \in 1 .. n : b[i] = b[i - 1] \o s[i]
    <2> HIDE DEF n, step
    <2>1. 0 \in 0 .. n /\ \A i \in 1 .. n : i \in 0 .. n /\ i # 0
      BY <1>1
    <2>2. QED
      BY <1>9, <2>1
  <1>11. \A i \in 0 .. n : b[i] \in Seq(S)
    <2> DEFINE T == {i \in 0 .. n : b[i] \in Seq(S)}
    <2> HIDE DEF n, step, Visits
    <2>0. 0 \in 0 .. n /\ \A i \in 1 .. n : i \in 0 .. n
      BY <1>1
    <2>1. 0 \in T
      BY <1>5, <1>10, <2>0
    <2>2. \A i \in 1 .. n : i - 1 \in T => i \in T
      BY <1>1, <1>3, <1>10, <2>0
    <2> HIDE DEF T
    <2>3. \A i \in 0 .. n : i \in T
      BY <1>1, <2>1, <2>2, UpTo
    <2>4. QED
      BY <2>3 DEF T
  <1>12. b \in [0 .. n -> Seq(S)]
    BY <1>9, <1>11
  <1>13. QED
    BY <1>9, <1>10, <1>12 DEF ConcatSteps

LEMMA ConcatEmpty == Concat(<<>>) = <<>>
  <1>1. <<>> \in Seq(Seq({})) /\ Len(<<>>) = 0
    OBVIOUS
  <1>2. PICK f : ConcatSteps(<<>>, {}, f)
    BY <1>1, ConcatUnfolds, Zenon
  <1>3. QED
    BY <1>1, <1>2, Zenon DEF ConcatSteps

LEMMA ConcatTyped ==
  ASSUME NEW S, NEW s \in Seq(Seq(S))
  PROVE  Concat(s) \in Seq(S)
  <1>1. PICK f : ConcatSteps(s, S, f)
    BY ConcatUnfolds
  <1>2. Len(s) \in 0 .. Len(s)
    OBVIOUS
  <1>3. QED
    BY <1>1, <1>2 DEF ConcatSteps

LEMMA ConcatAppend ==
  ASSUME NEW S, NEW s \in Seq(Seq(S)), NEW e \in Seq(S)
  PROVE  Concat(Append(s, e)) = Concat(s) \o e
  <1> DEFINE t == Append(s, e)
             n == Len(s)
  <1>1. /\ t \in Seq(Seq(S)) /\ Len(t) = n + 1 /\ t[n + 1] = e /\ n \in Nat
        /\ n = Len(s)
        /\ \A i \in 1 .. n : t[i] = s[i]
    OBVIOUS
  <1>2. PICK f : ConcatSteps(s, S, f)
    BY ConcatUnfolds
  <1> HIDE DEF t, n
  <1>3. PICK g : ConcatSteps(t, S, g)
    BY <1>1, ConcatUnfolds
  <1> DEFINE T == {i \in 0 .. n : f[i] = g[i]}
  <1>4. 0 \in T
    BY <1>1, <1>2, <1>3 DEF ConcatSteps
  <1>5. ASSUME NEW i \in 1 .. n, i - 1 \in T
        PROVE  i \in T
    <2>1. i \in 1 .. Len(t) /\ t[i] = s[i] /\ f[i - 1] = g[i - 1] /\ i \in 0 .. n
      BY <1>1, <1>5
    <2>2. g[i] = f[i - 1] \o s[i]
      BY <1>3, <2>1 DEF ConcatSteps
    <2>3. f[i] = g[i]
      BY <1>1, <1>2, <2>2 DEF ConcatSteps
    <2>4. QED
      BY <2>1, <2>3
  <1>6. n \in T
    <2> HIDE DEF T
    <2>1. \A i \in 0 .. n : i \in T
      BY <1>1, <1>4, <1>5, UpTo
    <2>2. QED
      BY <1>1, <2>1
  <1>7. n + 1 \in 1 .. Len(t) /\ (n + 1) - 1 = n
    BY <1>1
  <1>8. g[n + 1] = g[n] \o e
    BY <1>1, <1>3, <1>7 DEF ConcatSteps
  <1>9. QED
    BY <1>1, <1>2, <1>3, <1>6, <1>8 DEF t, ConcatSteps

-----------------------------------------------------------------------------
(* The inductive invariant.                                                 *)

HeadCells ==
  [kind : {"head"}, pid : Procs, len : 1 .. PIPE_MAX_PAYLOAD, last : BOOLEAN]

TailCell == [kind |-> "tail"]

Cells == Parts \cup {TailCell} \cup HeadCells

Typed ==
  /\ TypeOK
  /\ pipe \in Seq(Cells) /\ log \in Seq(Seq(Parts)) /\ IsFiniteSet(slots)

IsHead(i) == pipe[i].kind = "head"

\* The position behind the chunk at i.
Behind(i) == i + HeaderCells + pipe[i].len

IsEnd(cell) == cell.part = cell.of

\* A chunk in the pipe is there to its end, its payload is of its process, and
\* the end of a message is the last cell of a last chunk and nothing else.
Chunks ==
  \A i \in DOMAIN pipe : IsHead(i) =>
    /\ Behind(i) <= Len(pipe) + 1
    /\ pipe[i + 1] = TailCell
    /\ \A k \in 1 .. pipe[i].len :
         LET cell == pipe[i + 1 + k]
         IN  /\ IsOf(pipe[i].pid, cell)
             /\ IsEnd(cell) <=> k = pipe[i].len /\ pipe[i].last

\* Chunks follow one another, and what is read next is the head of one as long
\* as no read has taken more than its chunk.
Aligned ==
  /\ \A i \in DOMAIN pipe :
       IsHead(i) /\ Behind(i) <= Len(pipe) => IsHead(Behind(i))
  /\ ~merged /\ pipe # <<>> => IsHead(1)

\* What a process has left to write is of one message of its own.
Unsent ==
  \A p \in Procs : \A k \in DOMAIN toSend[p] :
    /\ IsOf(p, toSend[p][k])
    /\ IsEnd(toSend[p][k]) <=> k = Len(toSend[p])

\* What is pending is the process's own and of a message that goes on.
Pending ==
  ~merged => \A p \in Procs : \A k \in DOMAIN buffer[p] :
    IsOf(p, buffer[p][k]) /\ ~IsEnd(buffer[p][k])

\* A process that found no slot never finds one.
DroppedForGood ==
  running /\ dropped # {} =>
    /\ dropped \cap slots = {}
    /\ Cardinality(slots) >= MAX_PENDING_CHUNKS

Follows(cell, prior) ==
  IF IsEnd(prior) THEN cell.part = 1
  ELSE cell = Part(prior.pid, prior.msg, prior.part + 1, prior.of)

\* Whole messages, one after the other.
Chained(text) ==
  text # <<>> =>
    /\ text[1].part = 1
    /\ IsEnd(text[Len(text)])
    /\ \A k \in 1 .. Len(text) - 1 : Follows(text[k + 1], text[k])

\* What of a process has not been logged.
Stream(p) == (buffer[p] \o PayloadOf(p, pipe)) \o toSend[p]

Ordered ==
  running /\ ~merged => \A p \in Procs \ (torn \cup dropped) : Chained(Stream(p))

WholeLines ==
  ~merged => \A i \in DOMAIN log :
    log[i][1].pid \in torn \/ IsWhole(log[i])

SInv ==
  /\ Typed
  /\ Chunks /\ Aligned /\ Unsent /\ Pending /\ DroppedForGood
  /\ running /\ ~merged => \A p \in Procs \ dropped : Accounted(p)
  /\ Ordered
  /\ WholeLines

-----------------------------------------------------------------------------
(* Cells and messages.                                                      *)

LEMMA PartFacts ==
  ASSUME NEW c \in Parts
  PROVE  /\ c.kind = "data"
         /\ c = Part(c.pid, c.msg, c.part, c.of)
         /\ c.part \in Nat /\ c.of \in Nat /\ 1 <= c.part /\ c.part <= c.of
         /\ c.pid \in Procs => c.of \in Lengths
  <1>1. CASE c = Junk
    BY <1>1, SyslogAssumption DEF Junk, Part
  <1>2. ASSUME NEW p \in Procs, NEW msg \in 1 .. MaxSent, NEW n \in Lengths,
               NEW i \in 1 .. n, c = Part(p, msg, i, n)
        PROVE  /\ c.kind = "data"
               /\ c = Part(c.pid, c.msg, c.part, c.of)
               /\ c.part \in Nat /\ c.of \in Nat /\ 1 <= c.part /\ c.part <= c.of
               /\ c.pid \in Procs => c.of \in Lengths
    <2>1. n \in Nat
      BY SyslogAssumption
    <2>2. QED
      BY <1>2, <2>1 DEF Part
  <1>3. c = Junk \/ \E p \in Procs, msg \in 1 .. MaxSent, n \in Lengths :
                      \E i \in 1 .. n : c = Part(p, msg, i, n)
    BY DEF Parts
  <1>4. QED
    BY <1>1, <1>2, <1>3

LEMMA PartIsPart ==
  ASSUME NEW p \in Procs, NEW msg \in 1 .. MaxSent, NEW n \in Lengths, NEW i \in 1 .. n
  PROVE  Part(p, msg, i, n) \in Parts
  <1> DEFINE All == {{Part(q, m, j, k) : j \in 1 .. k} :
                       q \in Procs, m \in 1 .. MaxSent, k \in Lengths}
  <1>1. {Part(p, msg, j, n) : j \in 1 .. n} \in All
    OBVIOUS
  <1>2. Part(p, msg, i, n) \in {Part(p, msg, j, n) : j \in 1 .. n}
    OBVIOUS
  <1>3. Parts = {Junk} \cup UNION All
    BY DEF Parts
  <1> HIDE DEF All
  <1>4. QED
    BY <1>1, <1>2, <1>3

LEMMA TextFacts ==
  ASSUME NEW p \in Procs, NEW msg \in 1 .. MaxSent, NEW n \in Lengths
  PROVE  /\ Text(p, msg, n) \in Seq(Parts) /\ Len(Text(p, msg, n)) = n
         /\ n \in Nat /\ n >= 1
         /\ \A i \in 1 .. n : Text(p, msg, n)[i] = Part(p, msg, i, n)
  <1>1. n \in Nat /\ n >= 1
    BY SyslogAssumption
  <1>2. \A i \in 1 .. n : Part(p, msg, i, n) \in Parts
    BY PartIsPart
  <1>3. QED
    BY <1>1, <1>2 DEF Text

LEMMA CellKinds ==
  ASSUME NEW c \in Cells
  PROVE  /\ c.kind = "head" => c \in HeadCells
         /\ c.kind = "data" => c \in Parts
         /\ c \in HeadCells => c.kind = "head"
         /\ c.kind \in {"head", "tail", "data"}
  BY PartFacts DEF Cells, HeadCells, TailCell

-----------------------------------------------------------------------------
(* Chains of messages.                                                      *)

\* Behind the end of a message a new chain begins.
LEMMA ChainedSuffix ==
  ASSUME NEW s \in Seq(Parts), NEW t \in Seq(Parts), s # <<>>,
         IsEnd(s[Len(s)]), Chained(s \o t)
  PROVE  Chained(t)
  <1> SUFFICES ASSUME t # <<>>
               PROVE  /\ t[1].part = 1
                      /\ IsEnd(t[Len(t)])
                      /\ \A k \in 1 .. Len(t) - 1 : Follows(t[k + 1], t[k])
    BY DEF Chained
  <1> DEFINE u == s \o t
             n == Len(s)
             m == Len(t)
  <1>1. /\ n \in Nat /\ n >= 1 /\ m \in Nat /\ m >= 1 /\ Len(u) = n + m
        /\ \A k \in 1 .. n : u[k] = s[k]
        /\ \A k \in 1 .. m : u[n + k] = t[k]
        /\ u # <<>>
    OBVIOUS
  <1>2. /\ IsEnd(u[n + m])
        /\ \A k \in 1 .. (n + m) - 1 : Follows(u[k + 1], u[k])
    BY <1>1 DEF Chained
  <1> HIDE DEF u, n, m
  <1>3. Follows(t[1], s[n])
    <2>1. n \in 1 .. (n + m) - 1 /\ u[n + 1] = t[1] /\ u[n] = s[n]
      BY <1>1
    <2>2. QED
      BY <1>2, <2>1
  <1>4. t[1].part = 1
    BY <1>3 DEF Follows, n
  <1>5. IsEnd(t[m])
    BY <1>1, <1>2
  <1>6. ASSUME NEW k \in 1 .. m - 1
        PROVE  Follows(t[k + 1], t[k])
    <2>1. /\ n + k \in 1 .. (n + m) - 1
          /\ u[n + k] = t[k] /\ u[(n + k) + 1] = t[k + 1]
      <3>1. k \in 1 .. m /\ k + 1 \in 1 .. m /\ (n + k) + 1 = n + (k + 1)
        BY <1>1
      <3>2. QED
        BY <1>1, <3>1
    <2>2. QED
      BY <1>2, <2>1
  <1>7. QED
    BY <1>4, <1>5, <1>6 DEF m

\* A chain can be cut where a message begins.
LEMMA ChainedPrefix ==
  ASSUME NEW s \in Seq(Parts), NEW t \in Seq(Parts), t # <<>>,
         t[1].part = 1, Chained(s \o t)
  PROVE  Chained(s)
  <1> SUFFICES ASSUME s # <<>>
               PROVE  /\ s[1].part = 1
                      /\ IsEnd(s[Len(s)])
                      /\ \A k \in 1 .. Len(s) - 1 : Follows(s[k + 1], s[k])
    BY DEF Chained
  <1> DEFINE u == s \o t
             n == Len(s)
             m == Len(t)
  <1>1. /\ n \in Nat /\ n >= 1 /\ m \in Nat /\ m >= 1 /\ Len(u) = n + m
        /\ \A k \in 1 .. n : u[k] = s[k]
        /\ \A k \in 1 .. m : u[n + k] = t[k]
        /\ u # <<>> /\ s[n] \in Parts
    OBVIOUS
  <1>2. /\ u[1].part = 1
        /\ \A k \in 1 .. (n + m) - 1 : Follows(u[k + 1], u[k])
    BY <1>1 DEF Chained
  <1> HIDE DEF u, n, m
  <1>3. Follows(t[1], s[n])
    <2>1. n \in 1 .. (n + m) - 1 /\ u[n + 1] = t[1] /\ u[n] = s[n]
      BY <1>1
    <2>2. QED
      BY <1>2, <2>1
  <1>4. IsEnd(s[n])
    <2>1. s[n].part \in Nat /\ s[n].part >= 1
      BY <1>1, PartFacts
    <2>2. t[1].part # s[n].part + 1
      BY <2>1
    <2>3. QED
      BY <1>3, <2>2 DEF Follows, Part
  <1>5. ASSUME NEW k \in 1 .. n - 1
        PROVE  Follows(s[k + 1], s[k])
    <2>1. k \in 1 .. (n + m) - 1 /\ u[k] = s[k] /\ u[k + 1] = s[k + 1]
      BY <1>1
    <2>2. QED
      BY <1>2, <2>1
  <1>6. s[1].part = 1
    BY <1>1, <1>2
  <1>7. QED
    BY <1>4, <1>5, <1>6 DEF n

\* A chain goes on with a whole message.
LEMMA ChainedMore ==
  ASSUME NEW s \in Seq(Parts), Chained(s),
         NEW p \in Procs, NEW msg \in 1 .. MaxSent, NEW len \in Lengths
  PROVE  Chained(s \o Text(p, msg, len))
  <1> DEFINE t == Text(p, msg, len)
             u == s \o t
             n == Len(s)
  <1>1. /\ t \in Seq(Parts) /\ Len(t) = len /\ len \in Nat /\ len >= 1
        /\ \A i \in 1 .. len : t[i] = Part(p, msg, i, len)
    BY TextFacts
  <1> HIDE DEF t
  <1>2. /\ n \in Nat /\ Len(u) = n + len
        /\ \A k \in 1 .. n : u[k] = s[k]
        /\ \A k \in 1 .. len : u[n + k] = t[k]
        /\ s # <<>> => n >= 1
        /\ s = <<>> => n = 0
    BY <1>1
  <1> HIDE DEF u
  <1>3. /\ n >= 1 => /\ s[1].part = 1
                     /\ IsEnd(s[n])
                     /\ \A k \in 1 .. n - 1 : Follows(s[k + 1], s[k])
    BY <1>2 DEF Chained
  <1> HIDE DEF n
  <1>4. \A i \in 1 .. len : t[i].part = i /\ t[i].of = len /\ t[i].pid = p /\ t[i].msg = msg
    BY <1>1 DEF Part
  <1>5. u[1].part = 1
    <2>1. CASE n = 0
      BY <1>1, <1>2, <1>4, <2>1
    <2>2. CASE n >= 1
      BY <1>2, <1>3, <2>2
    <2>3. QED
      BY <1>2, <2>1, <2>2
  <1>6. IsEnd(u[n + len])
    BY <1>1, <1>2, <1>4 DEF IsEnd
  <1>7. ASSUME NEW k \in 1 .. (n + len) - 1
        PROVE  Follows(u[k + 1], u[k])
    <2>1. CASE k < n
      <3>1. k \in 1 .. n - 1 /\ u[k] = s[k] /\ u[k + 1] = s[k + 1] /\ n >= 1
        BY <1>2, <2>1
      <3>2. QED
        BY <1>3, <3>1
    <2>2. CASE k = n
      <3>1. u[k] = s[n] /\ u[k + 1] = t[1] /\ n >= 1 /\ t[1].part = 1
        BY <1>1, <1>2, <1>4, <2>2
      <3>2. QED
        BY <1>3, <3>1 DEF Follows
    <2>3. CASE k > n
      <3>1. PICK i \in 1 .. len - 1 : k = n + i
        <4>1. k - n \in 1 .. len - 1 /\ k = n + (k - n)
          BY <1>1, <1>2, <2>3
        <4>2. QED
          BY <4>1
      <3>2. i \in 1 .. len /\ i + 1 \in 1 .. len /\ k + 1 = n + (i + 1)
        BY <1>1, <1>2, <3>1
      <3>3. u[k] = t[i] /\ u[k + 1] = t[i + 1]
        BY <1>2, <3>1, <3>2
      <3>4. t[i + 1] = Part(p, msg, i + 1, len) /\ ~IsEnd(t[i])
        BY <1>1, <1>4, <3>1, <3>2 DEF IsEnd
      <3>5. QED
        BY <1>4, <3>2, <3>3, <3>4 DEF Follows
    <2>4. QED
      BY <1>1, <1>2, <2>1, <2>2, <2>3
  <1>8. QED
    BY <1>2, <1>5, <1>6, <1>7 DEF Chained, u, t

\* What a chain begins with is a whole message if it ends with the first end.
LEMMA ChainedWhole ==
  ASSUME NEW s \in Seq(Parts), NEW t \in Seq(Parts), s # <<>>,
         NEW p \in Procs, \A k \in DOMAIN s : IsOf(p, s[k]),
         \A k \in DOMAIN s : IsEnd(s[k]) <=> k = Len(s),
         Chained(s \o t)
  PROVE  IsWhole(s)
  <1> DEFINE u == s \o t
             n == Len(s)
             msg == s[1].msg
             of == s[1].of
             T == {k \in 0 .. n : k = 0 \/ s[k] = Part(p, msg, k, of)}
  <1>1. /\ n \in Nat /\ n >= 1 /\ Len(u) >= n /\ Len(u) \in Nat
        /\ \A k \in 1 .. n : u[k] = s[k] /\ s[k] \in Parts
        /\ u # <<>>
        /\ DOMAIN s = 1 .. n
    OBVIOUS
  <1>2. /\ u[1].part = 1
        /\ \A k \in 1 .. Len(u) - 1 : Follows(u[k + 1], u[k])
    BY <1>1 DEF Chained
  <1> HIDE DEF u
  <1>3. s[1] = Part(p, msg, 1, of)
    <2>1. s[1] = Part(s[1].pid, s[1].msg, s[1].part, s[1].of)
      BY <1>1, PartFacts
    <2>2. s[1].pid = p /\ s[1].part = 1
      BY <1>1, <1>2 DEF IsOf
    <2>3. QED
      BY <2>1, <2>2
  <1> HIDE DEF n, msg, of
  <1>4. ASSUME NEW k \in 1 .. n, k - 1 \in T
        PROVE  k \in T
    <2>1. CASE k = 1
      BY <1>1, <1>3, <2>1
    <2>2. CASE k # 1
      <3>1. k - 1 \in 1 .. n /\ k - 1 \in 1 .. Len(u) - 1 /\ (k - 1) + 1 = k /\ k - 1 # n
        BY <1>1, <2>2
      <3>2. s[k - 1] = Part(p, msg, k - 1, of) /\ ~IsEnd(s[k - 1])
        BY <1>1, <1>4, <3>1 DEF n
      <3>3. Follows(s[k], s[k - 1])
        BY <1>1, <1>2, <3>1
      <3>4. s[k] = Part(p, msg, (k - 1) + 1, of)
        BY <3>2, <3>3 DEF Follows, Part
      <3>5. k \in 0 .. n
        BY <1>1
      <3>6. QED
        BY <3>1, <3>4, <3>5
    <2>3. QED
      BY <2>1, <2>2
  <1>5. 0 \in T
    BY <1>1
  <1>6. \A k \in 1 .. n : s[k] = Part(p, msg, k, of)
    <2> HIDE DEF T
    <2>1. \A k \in 0 .. n : k \in T
      BY <1>1, <1>4, <1>5, UpTo
    <2>2. \A k \in 1 .. n : k \in 0 .. n /\ k # 0
      BY <1>1
    <2>3. QED
      BY <2>1, <2>2 DEF T
  <1>7. of = n
    <2>1. n \in 1 .. n /\ IsEnd(s[n])
      BY <1>1 DEF n
    <2>2. s[n] = Part(p, msg, n, of)
      BY <1>6, <2>1
    <2>3. QED
      BY <2>1, <2>2 DEF IsEnd, Part
  <1>8. s = [k \in 1 .. n |-> Part(p, msg, k, n)]
    <2>1. s = [k \in 1 .. n |-> s[k]]
      BY DEF n
    <2>2. QED
      BY <1>6, <1>7, <2>1
  <1>9. s[1].pid = p
    BY <1>3 DEF Part
  <1>10. QED
    BY <1>7, <1>8, <1>9 DEF IsWhole, Text, msg, of

-----------------------------------------------------------------------------
(* The invariant holds initially and is kept by every step.                 *)

\* The part of the invariant that holds until a read merges chunks.
Unmerged ==
  ~merged =>
    /\ Pending
    /\ running => \A p \in Procs \ dropped : Accounted(p)
    /\ Ordered
    /\ WholeLines

LEMMA SInvParts ==
  SInv <=> /\ Typed /\ Chunks /\ Aligned /\ Unsent /\ DroppedForGood
           /\ Unmerged
  BY DEF SInv, Unmerged, Pending, Ordered, WholeLines

LEMMA PayloadParts ==
  ASSUME NEW p, NEW s \in Seq(Cells)
  PROVE  PayloadOf(p, s) \in Seq(Parts)
  <1> DEFINE T == {u \in Seq(Cells) : PayloadOf(p, u) \in Seq(Parts)}
  <1>1. <<>> \in T
    <2>1. <<>> \in Seq(Cells) /\ <<>> \in Seq(Parts)
      OBVIOUS
    <2>2. QED
      BY <2>1, PayloadEmpty
  <1>2. ASSUME NEW u \in Seq(Cells), NEW e \in Cells, u \in T
        PROVE  Append(u, e) \in T
    <2>1. PayloadOf(p, u) \in Seq(Parts) /\ Append(u, e) \in Seq(Cells)
      BY <1>2
    <2>2. PayloadOf(p, Append(u, e)) =
            IF IsOf(p, e) THEN Append(PayloadOf(p, u), e) ELSE PayloadOf(p, u)
      BY PayloadAppend
    <2>3. IsOf(p, e) => e \in Parts
      BY CellKinds DEF IsOf
    <2>4. PayloadOf(p, Append(u, e)) \in Seq(Parts)
      BY <2>1, <2>2, <2>3
    <2>5. QED
      BY <2>1, <2>4
  <1> HIDE DEF T
  <1>3. Seq(Cells) \subseteq T
    BY <1>1, <1>2, AllSequences
  <1>4. QED
    BY <1>3 DEF T

LEMMA StreamTyped ==
  ASSUME SInv, NEW p \in Procs
  PROVE  /\ buffer[p] \in Seq(Parts) /\ toSend[p] \in Seq(Parts)
         /\ written[p] \in Seq(Parts)
         /\ PayloadOf(p, pipe) \in Seq(Parts)
         /\ Concat(log) \in Seq(Parts)
         /\ PayloadOf(p, Concat(log)) \in Seq(Parts)
  <1>1. /\ buffer[p] \in Seq(Parts) /\ toSend[p] \in Seq(Parts)
        /\ written[p] \in Seq(Parts)
        /\ pipe \in Seq(Cells) /\ log \in Seq(Seq(Parts))
    BY DEF SInv, Typed, TypeOK, Pids
  <1>2. Concat(log) \in Seq(Parts)
    BY <1>1, ConcatTyped
  <1>3. QED
    BY <1>1, <1>2, PayloadParts, PayloadTyped

LEMMA SInvHoldsInitially == Init => SInv
  <1> SUFFICES ASSUME Init
               PROVE  SInv
    OBVIOUS
  <1>1. \A S : <<>> \in Seq(S)
    OBVIOUS
  <1>2. IsFiniteSet({}) /\ Cardinality({}) = 0
    BY FS_EmptySet
  <1>3. /\ pipe = <<>> /\ log = <<>> /\ slots = {} /\ dropped = {} /\ torn = {}
        /\ running = TRUE /\ merged = FALSE /\ sent = 0
        /\ \A p \in Procs : toSend[p] = <<>> /\ written[p] = <<>>
        /\ \A p \in Pids : buffer[p] = <<>>
        /\ Procs \subseteq Pids
    BY DEF Init, Pids
  <1>4. toSend \in [Procs -> Seq(Parts)] /\ written \in [Procs -> Seq(Parts)]
        /\ buffer \in [Pids -> Seq(Parts)]
    BY <1>1 DEF Init
  <1>5. Typed
    <2>1. Len(<<>>) = 0 /\ DOMAIN <<>> = {}
      OBVIOUS
    <2>2. pipe \in Seq(Cells) /\ log \in Seq(Seq(Parts))
      BY <1>1, <1>3, Zenon
    <2>3. /\ DOMAIN pipe = {} /\ Len(pipe) <= PipeSize /\ DOMAIN log = {}
          /\ sent \in 0 .. MaxSent
          /\ IsFiniteSet(slots) /\ Cardinality(slots) <= MAX_PENDING_CHUNKS
      BY <1>2, <1>3, <2>1, SyslogAssumption
    <2>4. running \in BOOLEAN /\ merged \in BOOLEAN /\ slots \subseteq Pids
          /\ torn \subseteq Procs /\ dropped \subseteq Procs
      BY <1>3
    <2>5. QED
      BY <1>4, <2>2, <2>3, <2>4, Zenon DEF Typed, TypeOK
  <1>6. Chunks /\ Aligned /\ Unsent /\ DroppedForGood
    BY <1>3 DEF Chunks, Aligned, Unsent, DroppedForGood
  <1>7. ASSUME NEW p \in Procs
        PROVE  Accounted(p) /\ Chained(Stream(p))
    <2>1. PayloadOf(p, Concat(log)) = <<>> /\ PayloadOf(p, pipe) = <<>>
      BY <1>3, ConcatEmpty, PayloadEmpty
    <2>2. written[p] = <<>> /\ buffer[p] = <<>> /\ toSend[p] = <<>>
      BY <1>3
    <2>3. (<<>> \o <<>>) \o <<>> = <<>>
      OBVIOUS
    <2>4. QED
      BY <2>1, <2>2, <2>3 DEF Accounted, Stream, Chained
  <1>8. Pending /\ Ordered /\ WholeLines
    BY <1>3, <1>7 DEF Pending, Ordered, WholeLines
  <1>9. QED
    BY <1>5, <1>6, <1>7, <1>8 DEF SInv

LEMMA SendKeepsInv ==
  ASSUME SInv, NEW p \in Procs, SendMessage(p)
  PROVE  SInv'
  <1>1. PICK n \in Lengths : toSend' = [toSend EXCEPT ![p] = Text(p, sent', n)]
    BY DEF SendMessage
  <1>2. /\ sent \in 0 .. MaxSent /\ sent < MaxSent /\ sent' = sent + 1
        /\ toSend \in [Procs -> Seq(Parts)]
        /\ toSend[p] = <<>>
        /\ UNCHANGED <<pipe, written, torn, slots, buffer, log, merged, dropped, running>>
    BY DEF SendMessage, SInv, Typed, TypeOK, reader
  <1>3. sent' \in 1 .. MaxSent /\ sent' \in 0 .. MaxSent
    BY <1>2, SyslogAssumption
  <1>4. /\ Text(p, sent', n) \in Seq(Parts) /\ Len(Text(p, sent', n)) = n
        /\ n \in Nat /\ n >= 1
        /\ \A i \in 1 .. n : Text(p, sent', n)[i] = Part(p, sent', i, n)
    BY <1>3, TextFacts
  <1>5. toSend' \in [Procs -> Seq(Parts)]
    BY <1>1, <1>2, <1>4
  <1>6. /\ toSend'[p] = Text(p, sent', n)
        /\ \A q \in Procs \ {p} : toSend'[q] = toSend[q]
    BY <1>1, <1>2
  <1>7. Typed'
    BY <1>2, <1>3, <1>5 DEF SInv, Typed, TypeOK
  <1>8. Chunks' /\ Aligned' /\ Pending' /\ DroppedForGood' /\ WholeLines'
    BY <1>2 DEF SInv, Chunks, Aligned, Pending, DroppedForGood, WholeLines, IsHead, Behind
  <1>9. Unsent'
    <2>1. ASSUME NEW q \in Procs, NEW k \in DOMAIN toSend'[q]
          PROVE  /\ IsOf(q, toSend'[q][k])
                 /\ IsEnd(toSend'[q][k]) <=> k = Len(toSend'[q])
      <3>1. CASE q = p
        <4>1. k \in 1 .. n /\ toSend'[q][k] = Part(p, sent', k, n) /\ Len(toSend'[q]) = n
          BY <1>4, <1>6, <3>1
        <4>2. QED
          BY <3>1, <4>1 DEF Part, IsOf, IsEnd
      <3>2. CASE q # p
        <4>1. toSend'[q] = toSend[q]
          BY <1>6, <3>2
        <4>2. QED
          BY <4>1 DEF SInv, Unsent
      <3>3. QED
        BY <3>1, <3>2
    <2>2. QED
      BY <2>1 DEF Unsent
  <1>10. running' /\ ~merged' => \A q \in Procs \ dropped' : Accounted(q)'
    BY <1>2 DEF SInv, Accounted
  <1>11. Ordered'
    <2>1. ASSUME running, ~merged, NEW q \in Procs \ (torn \cup dropped)
          PROVE  Chained(Stream(q)')
      <3>1. Chained(Stream(q))
        BY <2>1 DEF SInv, Ordered
      <3> DEFINE u == buffer[q] \o PayloadOf(q, pipe)
      <3>2. Stream(q) = u \o toSend[q] /\ Stream(q)' = u \o toSend'[q]
        BY <1>2 DEF Stream
      <3>3. CASE q = p
        <4>1. buffer[q] \in Seq(Parts) /\ PayloadOf(q, pipe) \in Seq(Parts)
          BY StreamTyped
        <4>2. u \in Seq(Parts)
          BY <4>1
        <4> HIDE DEF u
        <4>3. Stream(q) = u
          BY <1>2, <3>2, <3>3, <4>2
        <4>5. Stream(q)' = u \o Text(p, sent', n)
          BY <1>6, <3>2, <3>3
        <4>6. QED
          BY <1>3, <3>1, <4>2, <4>3, <4>5, ChainedMore
      <3>4. CASE q # p
        BY <1>6, <3>1, <3>2, <3>4
      <3>5. QED
        BY <3>3, <3>4
    <2>2. QED
      BY <1>2, <2>1 DEF Ordered
  <1>12. QED
    BY <1>7, <1>8, <1>9, <1>10, <1>11 DEF SInv

-----------------------------------------------------------------------------
(* Sequences.                                                               *)

\* The cells of s followed by t.
Joins(S, s, t, n, m) ==
  /\ s \o t \in Seq(S) /\ Len(s \o t) = n + m
  /\ \A i \in 1 .. n : (s \o t)[i] = s[i]
  /\ \A k \in 1 .. m : (s \o t)[n + k] = t[k]

LEMMA Joined ==
  ASSUME NEW S, NEW s \in Seq(S), NEW t \in Seq(S), NEW n \in Nat, NEW m \in Nat,
         Len(s) = n, Len(t) = m
  PROVE  Joins(S, s, t, n, m)
  BY DEF Joins

\* Three sequences joined in different orders, and four.
Associates(s, t, u) == (s \o t) \o u = s \o (t \o u)

LEMMA Associated ==
  ASSUME NEW S, NEW s \in Seq(S), NEW t \in Seq(S), NEW u \in Seq(S)
  PROVE  Associates(s, t, u)
  BY ConcatAssociative, SMTT(30) DEF Associates

Regroups(s, t, u, v) ==
  /\ ((s \o t) \o u) \o v = (s \o t) \o (u \o v)
  /\ (s \o (t \o u)) \o v = (s \o t) \o (u \o v)

LEMMA Regrouped ==
  ASSUME NEW S, NEW s \in Seq(S), NEW t \in Seq(S), NEW u \in Seq(S), NEW v \in Seq(S)
  PROVE  Regroups(s, t, u, v)
  <1> DEFINE w == s \o t
  <1>1. w \in Seq(S)
    OBVIOUS
  <1>2. w \o u = s \o (t \o u)
    <2>1. Associates(s, t, u)
      BY Associated
    <2>2. QED
      BY <2>1 DEF Associates
  <1> HIDE DEF w
  <1>3. (w \o u) \o v = w \o (u \o v)
    <2>1. Associates(w, u, v)
      BY <1>1, Associated
    <2>2. QED
      BY <2>1, Zenon DEF Associates
  <1>4. (w \o u) \o v = (s \o (t \o u)) \o v
    BY <1>2
  <1>5. QED
    BY <1>3, <1>4, Zenon DEF w, Regroups

\* What SubSeq leaves of a sequence cut in three.
LEMMA CutOff ==
  ASSUME NEW S, NEW s \in Seq(S), NEW n \in Nat, Len(s) = n,
         NEW i \in 0 .. n, NEW j \in i .. n
  PROVE  /\ SubSeq(s, i + 1, j) \in Seq(S) /\ Len(SubSeq(s, i + 1, j)) = j - i
         /\ \A k \in 1 .. j - i : SubSeq(s, i + 1, j)[k] = s[i + k]
  BY SMTT(30)

ThreeParts(s, i, j, n) ==
  s = SubSeq(s, 1, i) \o (SubSeq(s, i + 1, j) \o SubSeq(s, j + 1, n))

LEMMA Cut ==
  ASSUME NEW S, NEW s \in Seq(S), NEW n \in Nat, Len(s) = n,
         NEW i \in 0 .. n, NEW j \in i .. n
  PROVE  ThreeParts(s, i, j, n)
  <1>1. 1 \in 1 .. n + 1 /\ i \in 1 - 1 .. n /\ n \in i .. n /\ i + 1 \in 1 .. n + 1
        /\ j \in (i + 1) - 1 .. n /\ n \in j .. n
    BY SMTT(30)
  <1>2. SubSeq(s, i + 1, j) \o SubSeq(s, j + 1, n) = SubSeq(s, i + 1, n)
    BY <1>1, ConcatAdjacentSubSeq
  <1>3. SubSeq(s, 1, i) \o SubSeq(s, i + 1, n) = SubSeq(s, 1, n)
    BY <1>1, ConcatAdjacentSubSeq
  <1>4. SubSeq(s, 1, n) = s
    BY SubSeqFull
  <1>5. QED
    BY <1>2, <1>3, <1>4 DEF ThreeParts

LEMMA CellTyped ==
  ASSUME SInv, NEW i \in DOMAIN pipe
  PROVE  /\ pipe[i] \in Cells
         /\ IsHead(i) => /\ pipe[i].pid \in Procs
                         /\ pipe[i].len \in 1 .. PIPE_MAX_PAYLOAD
                         /\ pipe[i].last \in BOOLEAN
  <1>1. pipe[i] \in Cells
    BY DEF SInv, Typed
  <1>2. QED
    BY <1>1, CellKinds DEF IsHead, HeadCells

\* What the type invariant says of the pipe.
LEMMA PipeTyped ==
  ASSUME NEW s \in Seq(Cells)
  PROVE  \A i \in DOMAIN s :
           \/ s[i] \in Parts
           \/ s[i] = [kind |-> "tail"]
           \/ s[i] \in [kind : {"head"}, pid : Procs,
                        len : 1 .. PIPE_MAX_PAYLOAD, last : BOOLEAN]
  <1>1. \A i \in DOMAIN s : s[i] \in Cells
    OBVIOUS
  <1>2. QED
    BY <1>1 DEF Cells, HeadCells, TailCell

\* The chunk that a write adds to the pipe, and what the process has left.
Written(p, n, last, pay, rest) ==
  /\ n \in 1 .. PIPE_MAX_PAYLOAD /\ last \in BOOLEAN
  /\ pay \in Seq(Parts) /\ rest \in Seq(Parts)
  /\ n <= Len(toSend[p])
  /\ last <=> n = Len(toSend[p])
  /\ Len(pay) = n /\ Len(rest) = Len(toSend[p]) - n
  /\ \A k \in 1 .. n : pay[k] = toSend[p][k]
  /\ \A k \in 1 .. Len(rest) : rest[k] = toSend[p][n + k]
  /\ toSend[p] = pay \o rest
  /\ pipe' = (pipe \o Header(p, n, last)) \o pay
  /\ Len(pipe) + HeaderCells + n <= PipeSize
  /\ written' = [written EXCEPT ![p] = @ \o pay]
  /\ toSend' = [toSend EXCEPT ![p] = rest]

LEMMA ChunkWritten ==
  ASSUME SInv, NEW p \in Procs, WriteChunk(p)
  PROVE  \E n, last, pay, rest : Written(p, n, last, pay, rest)
  <1> DEFINE text == toSend[p]
             last == IsLast(Len(text))
             n == IF Len(text) <= PIPE_MAX_PAYLOAD THEN Len(text) ELSE PIPE_MAX_PAYLOAD
             pay == SubSeq(text, 1, n)
             rest == SubSeq(text, n + 1, Len(text))
  <1>1. /\ Len(pipe) + HeaderCells + n <= PipeSize
        /\ pipe' = (pipe \o Header(p, n, last)) \o pay
        /\ written' = [written EXCEPT ![p] = @ \o pay]
        /\ toSend' = [toSend EXCEPT ![p] = rest]
        /\ text # <<>>
    BY DEF WriteChunk
  <1>2. text \in Seq(Parts)
    BY StreamTyped
  <1>3. /\ Len(text) \in Nat /\ Len(text) >= 1
        /\ PIPE_MAX_PAYLOAD \in Nat /\ PIPE_MAX_PAYLOAD >= 1
    BY <1>1, <1>2, SyslogAssumption
  <1>4. /\ n \in 1 .. PIPE_MAX_PAYLOAD /\ n <= Len(text) /\ n \in Nat
        /\ last \in BOOLEAN
        /\ last <=> n = Len(text)
    BY <1>3 DEF IsLast
  <1> HIDE DEF n, last, text
  <1>5. /\ pay \in Seq(Parts) /\ Len(pay) = n
        /\ \A k \in 1 .. n : pay[k] = text[k]
    BY <1>2, <1>3, <1>4
  <1>6. /\ rest \in Seq(Parts) /\ Len(rest) = Len(text) - n
        /\ \A k \in 1 .. Len(rest) : rest[k] = text[n + k]
    BY <1>2, <1>3, <1>4
  <1>7. text = pay \o rest
    <2>1. n + 1 - 1 = n /\ 1 \in 1 .. Len(text) + 1 /\ n \in 1 - 1 .. Len(text)
          /\ Len(text) \in n .. Len(text)
      BY <1>3, <1>4
    <2>2. pay \o rest = SubSeq(text, 1, Len(text))
      BY <1>2, <2>1, ConcatAdjacentSubSeq
    <2>3. QED
      BY <1>2, <2>2, SubSeqFull
  <1> HIDE DEF pay, rest
  <1>8. QED
    <2>1. Written(p, n, last, pay, rest)
      BY <1>1, <1>4, <1>5, <1>6, <1>7, Zenon DEF text, Written
    <2>2. QED
      BY <2>1

LEMMA WriteKeepsInv ==
  ASSUME SInv, NEW p \in Procs, WriteChunk(p)
  PROVE  SInv'
  <1>1. PICK n, last, pay, rest : Written(p, n, last, pay, rest)
    BY ChunkWritten
  <1>2. /\ UNCHANGED <<sent, torn, slots, buffer, log, merged, dropped, running>>
        /\ running
    BY DEF WriteChunk, reader
  <1>3. /\ pipe \in Seq(Cells) /\ Len(pipe) \in Nat /\ n \in Nat /\ n >= 1
        /\ toSend \in [Procs -> Seq(Parts)] /\ written \in [Procs -> Seq(Parts)]
        /\ Len(toSend[p]) \in Nat /\ DOMAIN toSend[p] = 1 .. Len(toSend[p])
        /\ DOMAIN pipe = 1 .. Len(pipe)
        /\ n <= Len(toSend[p]) /\ Len(rest) = Len(toSend[p]) - n /\ Len(rest) \in Nat
        /\ DOMAIN pay = 1 .. n /\ DOMAIN rest = 1 .. Len(rest)
        /\ pay \in Seq(Parts) /\ rest \in Seq(Parts) /\ Len(pay) = n
        /\ \A k \in 1 .. n : pay[k] \in Parts /\ pay[k] = toSend[p][k]
        /\ \A k \in 1 .. Len(rest) : rest[k] = toSend[p][n + k]
    <2>1. /\ pipe \in Seq(Cells)
          /\ toSend \in [Procs -> Seq(Parts)] /\ written \in [Procs -> Seq(Parts)]
      BY DEF SInv, Typed, TypeOK
    <2>2. n \in Nat /\ n >= 1
      BY <1>1, SyslogAssumption DEF Written
    <2>3. /\ pay \in Seq(Parts) /\ rest \in Seq(Parts)
          /\ n <= Len(toSend[p]) /\ Len(rest) = Len(toSend[p]) - n /\ Len(pay) = n
          /\ \A k \in 1 .. n : pay[k] = toSend[p][k]
          /\ \A k \in 1 .. Len(rest) : rest[k] = toSend[p][n + k]
      BY <1>1, Zenon DEF Written
    <2>4. QED
      BY <2>1, <2>2, <2>3
  <1> DEFINE L == Len(pipe)
             head == [kind |-> "head", pid |-> p, len |-> n, last |-> last]
             hdr == Header(p, n, last)
  <1>4. /\ hdr \in Seq(Cells) /\ pay \in Seq(Cells)
        /\ Len(hdr) = 2 /\ DOMAIN hdr = 1 .. 2
        /\ hdr[1] = head /\ hdr[2] = TailCell
    <2>1. head \in Cells /\ TailCell \in Cells
      BY <1>1 DEF Cells, HeadCells, Written
    <2>2. Parts \subseteq Cells
      BY DEF Cells
    <2>3. hdr = <<head, TailCell>>
      BY DEF Header, TailCell
    <2> HIDE DEF hdr, head
    <2>4. QED
      BY <1>3, <2>1, <2>2, <2>3
  <1>5. pipe' = (pipe \o hdr) \o pay
    BY <1>1 DEF Written
  <1> HIDE DEF hdr
  <1>55. /\ pipe' \in Seq(Cells) /\ Len(pipe') = (L + 2) + n
         /\ DOMAIN pipe' = 1 .. (L + 2) + n
         /\ \A i \in 1 .. L : pipe'[i] = pipe[i]
         /\ pipe'[L + 1] = head /\ pipe'[L + 2] = TailCell
         /\ \A k \in 1 .. n : pipe'[(L + 2) + k] = pay[k]
    <2> DEFINE u == pipe \o hdr
    <2> HIDE DEF head
    <2>1. pipe \in Seq(Cells) /\ hdr \in Seq(Cells) /\ Len(hdr) = 2 /\ 2 \in Nat
          /\ pay \in Seq(Cells) /\ Len(pay) = n /\ n \in Nat /\ L \in Nat
      BY <1>3, <1>4
    <2>2. Joins(Cells, pipe, hdr, L, 2)
      BY <2>1, Joined
    <2>3. /\ u \in Seq(Cells) /\ Len(u) = L + 2
          /\ \A i \in 1 .. L : u[i] = pipe[i]
          /\ \A k \in 1 .. 2 : u[L + k] = hdr[k]
      BY <2>2, Zenon DEF Joins
    <2>4. pipe' = u \o pay
      BY <1>5
    <2> HIDE DEF u, L
    <2>5. L + 2 \in Nat
      BY <2>1
    <2>6. Joins(Cells, u, pay, L + 2, n)
      BY <2>1, <2>3, <2>5, Joined
    <2> DEFINE v == u \o pay
    <2>7. /\ v \in Seq(Cells) /\ Len(v) = (L + 2) + n
          /\ \A i \in 1 .. L + 2 : v[i] = u[i]
          /\ \A k \in 1 .. n : v[(L + 2) + k] = pay[k]
      BY <2>6, Zenon DEF Joins
    <2> HIDE DEF v
    <2>8. /\ \A i \in 1 .. L : i \in 1 .. L + 2
          /\ L + 1 \in 1 .. L + 2 /\ L + 2 \in 1 .. L + 2
          /\ 1 \in 1 .. 2 /\ 2 \in 1 .. 2
      BY <2>1
    <2>9. /\ DOMAIN v = 1 .. (L + 2) + n
          /\ \A i \in 1 .. L : v[i] = pipe[i]
          /\ v[L + 1] = head /\ v[L + 2] = TailCell
      BY <1>4, <2>3, <2>7, <2>8
    <2>10. QED
      BY <2>4, <2>7, <2>9 DEF v
  <1>56. L \in Nat /\ DOMAIN pipe = 1 .. L /\ Len(pipe) = L
    BY <1>3
  <1>6. \A q \in Procs : PayloadOf(q, pipe') =
          IF q = p THEN PayloadOf(q, pipe) \o pay ELSE PayloadOf(q, pipe)
    <2>1. ASSUME NEW q \in Procs
          PROVE  PayloadOf(q, pipe') =
                   IF q = p THEN PayloadOf(q, pipe) \o pay ELSE PayloadOf(q, pipe)
      <3>1. pipe \o hdr \in Seq(Cells)
        BY <1>3, <1>4
      <3>2. \A i \in DOMAIN hdr : ~IsOf(q, hdr[i])
        BY <1>4 DEF IsOf, TailCell
      <3>3. PayloadOf(q, hdr) = <<>>
        BY <1>4, <3>2, PayloadForeign
      <3>4. PayloadOf(q, pipe') = PayloadOf(q, pipe \o hdr) \o PayloadOf(q, pay)
        <4>1. pay \in Seq(Cells)
          BY <1>4
        <4>2. PayloadOf(q, (pipe \o hdr) \o pay)
                = PayloadOf(q, pipe \o hdr) \o PayloadOf(q, pay)
          BY <3>1, <4>1, PayloadConcat
        <4>3. QED
          BY <1>5, <4>2, Zenon
      <3>5. PayloadOf(q, pipe \o hdr) = PayloadOf(q, pipe) \o PayloadOf(q, hdr)
        BY <1>3, <1>4, PayloadConcat
      <3>6. PayloadOf(q, pipe) \in Seq(Parts)
        BY StreamTyped
      <3>7. PayloadOf(q, pipe \o hdr) = PayloadOf(q, pipe)
        BY <3>3, <3>5, <3>6, ConcatEmptySeq
      <3>8. \A k \in 1 .. n : IsOf(p, pay[k]) /\ k \in DOMAIN toSend[p]
        BY <1>3 DEF SInv, Unsent
      <3>9. DOMAIN pay = 1 .. n /\ pay \in Seq(Parts)
        BY <1>3
      <3>10. CASE q = p
        <4>1. PayloadOf(q, pay) = pay
          BY <3>8, <3>9, <3>10, PayloadOwn
        <4>2. QED
          BY <3>4, <3>7, <3>10, <4>1
      <3>11. CASE q # p
        <4>1. \A k \in DOMAIN pay : ~IsOf(q, pay[k])
          BY <3>8, <3>9, <3>11 DEF IsOf
        <4>2. PayloadOf(q, pay) = <<>>
          BY <3>9, <4>1, PayloadForeign
        <4>3. QED
          BY <3>4, <3>6, <3>7, <3>11, <4>2, ConcatEmptySeq
      <3>12. QED
        BY <3>10, <3>11
    <2>2. QED
      BY <2>1
  <1>7. /\ toSend'[p] = rest /\ written'[p] = written[p] \o pay
        /\ \A q \in Procs \ {p} : toSend'[q] = toSend[q] /\ written'[q] = written[q]
        /\ toSend' \in [Procs -> Seq(Parts)] /\ written' \in [Procs -> Seq(Parts)]
    <2>1. written[p] \o pay \in Seq(Parts)
      BY <1>3
    <2>2. QED
      BY <1>1, <1>3, <2>1 DEF Written
  <1>8. Typed'
    <2>1. Len(pipe') <= PipeSize
      <3>1. L + 2 + n <= PipeSize
        BY <1>1 DEF HeaderCells, Written
      <3> HIDE DEF L
      <3>2. QED
        BY <1>3, <1>55, <1>56, <3>1, SyslogAssumption
    <2>2. QED
      BY <1>2, <1>55, <1>56, <1>7, <2>1, PipeTyped DEF SInv, Typed, TypeOK
  <1> HIDE DEF L
  <1>9. Chunks'
    <2>1. ASSUME NEW i \in DOMAIN pipe', IsHead(i)'
          PROVE  /\ Behind(i)' <= Len(pipe') + 1
                 /\ pipe'[i + 1] = TailCell
                 /\ \A k \in 1 .. pipe'[i].len :
                      /\ IsOf(pipe'[i].pid, pipe'[i + 1 + k])
                      /\ IsEnd(pipe'[i + 1 + k]) <=> k = pipe'[i].len /\ pipe'[i].last
      <3>1. i \in 1 .. L \/ i = L + 1 \/ i = L + 2 \/ \E k \in 1 .. n : i = (L + 2) + k
        <4>1. i \in 1 .. (L + 2) + n
          BY <1>55, <1>56
        <4>2. i > L + 2 => i - (L + 2) \in 1 .. n /\ i = (L + 2) + (i - (L + 2))
          BY <1>3, <1>56, <4>1
        <4>3. i \in 1 .. L \/ i = L + 1 \/ i = L + 2 \/ i > L + 2
          BY <1>3, <1>56, <4>1
        <4>4. QED
          BY <4>2, <4>3, Zenon
      <3>2. CASE i \in 1 .. L
        <4>1. i \in DOMAIN pipe /\ pipe'[i] = pipe[i] /\ IsHead(i)
          BY <1>3, <1>55, <1>56, <2>1, <3>2 DEF IsHead
        <4>2. pipe[i].len \in Nat /\ i \in Nat
          BY <4>1, CellTyped, SyslogAssumption, <3>2
        <4>3. /\ (i + 2) + pipe[i].len <= L + 1
              /\ pipe[i + 1] = TailCell
              /\ \A k \in 1 .. pipe[i].len :
                   /\ IsOf(pipe[i].pid, pipe[i + 1 + k])
                   /\ IsEnd(pipe[i + 1 + k]) <=> k = pipe[i].len /\ pipe[i].last
          BY <1>56, <4>1, <4>2 DEF SInv, Chunks, Behind, HeaderCells
        <4> DEFINE m == pipe[i].len
        <4>4. i + 1 \in 1 .. L /\ \A k \in 1 .. m : i + 1 + k \in 1 .. L
          <5>1. m \in Nat /\ i \in Nat /\ (i + 2) + m <= L + 1 /\ L \in Nat /\ m >= 1
            BY <1>56, <4>1, <4>2, <4>3, CellTyped, SyslogAssumption
          <5> HIDE DEF m
          <5>2. QED
            BY <5>1
        <4>5. /\ pipe'[i + 1] = pipe[i + 1]
              /\ \A k \in 1 .. m : pipe'[i + 1 + k] = pipe[i + 1 + k]
          BY <1>55, <4>4
        <4>6. Behind(i)' <= Len(pipe') + 1
          <5>1. Behind(i)' = (i + 2) + m
            BY <4>1, <4>2 DEF Behind, HeaderCells
          <5> HIDE DEF m
          <5>2. m \in Nat /\ i \in Nat /\ (i + 2) + m <= L + 1
            BY <4>2, <4>3 DEF m
          <5>3. Len(pipe') = (L + 2) + n /\ n \in Nat /\ L \in Nat
            BY <1>3, <1>55, <1>56
          <5>4. (i + 2) + m <= ((L + 2) + n) + 1
            BY <5>2, <5>3
          <5>5. QED
            BY <5>1, <5>3, <5>4
        <4>7. QED
          BY <4>1, <4>3, <4>5, <4>6
      <3>3. CASE i = L + 1
        <4>1. /\ pipe'[i].len = n /\ pipe'[i].pid = p /\ pipe'[i].last = last
              /\ i + 1 = L + 2
          BY <1>3, <1>55, <1>56, <3>3, SMTT(30)
        <4>2. \A k \in 1 .. n : i + 1 + k = (L + 2) + k
          BY <1>56, <3>3
        <4>3. \A k \in 1 .. n : /\ IsOf(p, pay[k])
                                /\ IsEnd(pay[k]) <=> k = n /\ last
          <5>1. \A k \in 1 .. n : k \in DOMAIN toSend[p]
            BY <1>3
          <5>2. \A k \in 1 .. n : /\ IsOf(p, toSend[p][k])
                                  /\ IsEnd(toSend[p][k]) <=> k = Len(toSend[p])
            BY <5>1 DEF SInv, Unsent
          <5>3. last <=> n = Len(toSend[p])
            BY <1>1 DEF Written
          <5>4. \A k \in 1 .. n : k = Len(toSend[p]) => k = n
            <6> DEFINE a == Len(toSend[p])
            <6>1. a \in Nat /\ n \in Nat /\ n <= a
              BY <1>3
            <6> HIDE DEF a
            <6>2. \A k \in 1 .. n : k = a => k = n
              BY <6>1
            <6>3. QED
              BY <6>2 DEF a
          <5>5. QED
            BY <1>3, <5>2, <5>3, <5>4
        <4>4. /\ pipe'[i + 1] = TailCell
              /\ \A k \in 1 .. n : pipe'[i + 1 + k] = pay[k]
          BY <1>55, <4>1, <4>2
        <4>5. Behind(i)' <= Len(pipe') + 1
          <5>1. Behind(i)' = (i + 2) + n
            BY <4>1 DEF Behind, HeaderCells
          <5>2. (i + 2) + n = ((L + 2) + n) + 1 /\ Len(pipe') = (L + 2) + n
            BY <1>3, <1>55, <1>56, <3>3
          <5>3. QED
            BY <1>3, <1>56, <5>1, <5>2
        <4>6. QED
          BY <4>1, <4>3, <4>4, <4>5
      <3>4. CASE i = L + 2
        BY <1>55, <1>56, <2>1, <3>4 DEF IsHead, TailCell
      <3>5. CASE \E k \in 1 .. n : i = (L + 2) + k
        <4>1. PICK k \in 1 .. n : i = (L + 2) + k
          BY <3>5
        <4>2. pipe'[i] \in Parts
          BY <1>3, <1>55, <1>56, <4>1
        <4>3. QED
          BY <2>1, <4>2, PartFacts DEF IsHead
      <3>6. QED
        BY <3>1, <3>2, <3>3, <3>4, <3>5
    <2>2. QED
      BY <2>1 DEF Chunks
  <1>10. Aligned'
    <2>1. ASSUME NEW i \in DOMAIN pipe', IsHead(i)', Behind(i)' <= Len(pipe')
          PROVE  IsHead(Behind(i))'
      <3>1. i \in 1 .. L \/ i = L + 1 \/ i = L + 2 \/ \E k \in 1 .. n : i = (L + 2) + k
        <4>1. i \in 1 .. (L + 2) + n
          BY <1>55, <1>56
        <4>2. i > L + 2 => i - (L + 2) \in 1 .. n /\ i = (L + 2) + (i - (L + 2))
          BY <1>3, <1>56, <4>1
        <4>3. i \in 1 .. L \/ i = L + 1 \/ i = L + 2 \/ i > L + 2
          BY <1>3, <1>56, <4>1
        <4>4. QED
          BY <4>2, <4>3, Zenon
      <3>2. CASE i \in 1 .. L
        <4>1. i \in DOMAIN pipe /\ pipe'[i] = pipe[i] /\ IsHead(i)
          BY <1>3, <1>55, <1>56, <2>1, <3>2 DEF IsHead
        <4>2. pipe[i].len \in Nat /\ pipe[i].len >= 1 /\ i \in Nat
          BY <4>1, CellTyped, SyslogAssumption, <3>2
        <4>3. Behind(i)' = Behind(i) /\ Behind(i) = (i + 2) + pipe[i].len
          BY <4>1, <4>2 DEF Behind, HeaderCells
        <4>4. Behind(i) <= L + 1
          BY <1>56, <4>1 DEF SInv, Chunks
        <4>5. CASE Behind(i) <= L
          <5>1. IsHead(Behind(i))
            BY <1>56, <4>1, <4>5 DEF SInv, Aligned
          <5>2. Behind(i) \in 1 .. L
            BY <1>56, <4>2, <4>3, <4>5
          <5>3. pipe'[Behind(i)] = pipe[Behind(i)]
            BY <1>55, <1>56, <5>2
          <5>4. QED
            BY <4>3, <5>1, <5>3 DEF IsHead
        <4>6. CASE Behind(i) = L + 1
          <5>1. pipe'[Behind(i)'] = head
            BY <1>55, <1>56, <4>3, <4>6
          <5>2. QED
            BY <5>1 DEF IsHead
        <4>7. Behind(i) <= L \/ Behind(i) = L + 1
          <5>1. Behind(i) \in Nat
            BY <4>2, <4>3
          <5>2. QED
            BY <1>56, <4>4, <5>1
        <4>8. QED
          BY <4>5, <4>6, <4>7
      <3>3. CASE i = L + 1
        <4>1. pipe'[i].len = n
          BY <1>55, <1>56, <3>3
        <4>2. Behind(i)' = (L + 1 + 2) + n
          BY <1>3, <3>3, <4>1 DEF Behind, HeaderCells
        <4>3. QED
          BY <1>3, <1>55, <1>56, <2>1, <4>2
      <3>4. CASE i = L + 2
        BY <1>55, <1>56, <2>1, <3>4 DEF IsHead, TailCell
      <3>5. CASE \E k \in 1 .. n : i = (L + 2) + k
        <4>1. PICK k \in 1 .. n : i = (L + 2) + k
          BY <3>5
        <4>2. pipe'[i] \in Parts
          BY <1>3, <1>55, <1>56, <4>1
        <4>3. QED
          BY <2>1, <4>2, PartFacts DEF IsHead
      <3>6. QED
        BY <3>1, <3>2, <3>3, <3>4, <3>5
    <2>2. ~merged => IsHead(1)'
      <3>1. CASE L = 0
        BY <1>55, <1>56, <3>1 DEF IsHead
      <3>2. CASE L # 0
        <4>1. 1 \in 1 .. L /\ pipe # <<>>
          BY <1>3, <1>56, <3>2
        <4>2. QED
          BY <1>55, <4>1 DEF SInv, Aligned, IsHead
      <3>3. QED
        BY <3>1, <3>2
    <2>3. QED
      BY <1>2, <2>1, <2>2 DEF Aligned
  <1>11. Unsent'
    <2>1. ASSUME NEW q \in Procs, NEW k \in DOMAIN toSend'[q]
          PROVE  /\ IsOf(q, toSend'[q][k])
                 /\ IsEnd(toSend'[q][k]) <=> k = Len(toSend'[q])
      <3>1. CASE q = p
        <4>1. k \in 1 .. Len(rest) /\ toSend'[q][k] = toSend[p][n + k]
          BY <1>3, <1>7, <3>1
        <4>2. /\ n + k \in DOMAIN toSend[p]
              /\ n + k = Len(toSend[p]) <=> k = Len(rest)
          <5> DEFINE a == Len(toSend[p])
                     b == Len(rest)
          <5>1. a \in Nat /\ b = a - n /\ n \in Nat /\ k \in 1 .. b /\ DOMAIN toSend[p] = 1 .. a
            BY <1>3, <4>1
          <5> HIDE DEF a, b
          <5>2. n + k \in 1 .. a /\ (n + k = a <=> k = b)
            BY <5>1
          <5>3. QED
            BY <5>1, <5>2 DEF a, b
        <4>3. /\ IsOf(p, toSend[p][n + k])
              /\ IsEnd(toSend[p][n + k]) <=> n + k = Len(toSend[p])
          BY <4>2 DEF SInv, Unsent
        <4>4. QED
          BY <1>7, <3>1, <4>1, <4>2, <4>3
      <3>2. CASE q # p
        <4>1. toSend'[q] = toSend[q]
          BY <1>7, <3>2
        <4>2. QED
          BY <4>1 DEF SInv, Unsent
      <3>3. QED
        BY <3>1, <3>2
    <2>2. QED
      BY <2>1 DEF Unsent
  <1>12. Pending' /\ DroppedForGood' /\ WholeLines'
    BY <1>2 DEF SInv, Pending, DroppedForGood, WholeLines
  <1>13. running' /\ ~merged' => \A q \in Procs \ dropped' : Accounted(q)'
    <2>1. ASSUME NEW q \in Procs, Accounted(q)
          PROVE  Accounted(q)'
      <3> DEFINE c == PayloadOf(q, Concat(log))
                 u == PayloadOf(q, pipe)
      <3>1. /\ c \in Seq(Parts) /\ u \in Seq(Parts) /\ buffer[q] \in Seq(Parts)
            /\ pay \in Seq(Parts)
        BY <1>3, StreamTyped
      <3>2. written[q] = (c \o buffer[q]) \o u
        BY <2>1 DEF Accounted
      <3>3. PayloadOf(q, Concat(log))' = c
        BY <1>2
      <3> HIDE DEF c, u
      <3>4. CASE q = p
        <4>1. written'[q] = ((c \o buffer[q]) \o u) \o pay
          BY <1>7, <3>2, <3>4
        <4>2. ((c \o buffer[q]) \o u) \o pay = (c \o buffer[q]) \o (u \o pay)
          <5>1. Regroups(c, buffer[q], u, pay)
            BY <3>1, Regrouped
          <5>2. QED
            BY <5>1, Zenon DEF Regroups
        <4>3. PayloadOf(q, pipe') = u \o pay
          BY <1>6, <3>4 DEF u
        <4>4. QED
          BY <1>2, <3>3, <4>1, <4>2, <4>3 DEF Accounted
      <3>5. CASE q # p
        <4>1. written'[q] = written[q] /\ PayloadOf(q, pipe') = u
          BY <1>6, <1>7, <3>5 DEF u
        <4>2. QED
          BY <1>2, <3>2, <3>3, <4>1 DEF Accounted
      <3>6. QED
        BY <3>4, <3>5
    <2>2. QED
      BY <1>2, <2>1 DEF SInv
  <1>14. Ordered'
    <2>1. ASSUME NEW q \in Procs
          PROVE  Stream(q)' = Stream(q)
      <3>1. /\ buffer[q] \in Seq(Parts) /\ PayloadOf(q, pipe) \in Seq(Parts)
            /\ pay \in Seq(Parts) /\ rest \in Seq(Parts)
        BY <1>3, StreamTyped
      <3>2. CASE q = p
        <4>1. Stream(q)' = (buffer[q] \o (PayloadOf(q, pipe) \o pay)) \o rest
          BY <1>2, <1>6, <1>7, <3>2 DEF Stream
        <4>2. (buffer[q] \o (PayloadOf(q, pipe) \o pay)) \o rest
                = (buffer[q] \o PayloadOf(q, pipe)) \o (pay \o rest)
          <5>1. Regroups(buffer[q], PayloadOf(q, pipe), pay, rest)
            BY <3>1, Regrouped
          <5>2. QED
            BY <5>1, Zenon DEF Regroups
        <4>3. Stream(q) = (buffer[q] \o PayloadOf(q, pipe)) \o (pay \o rest)
          BY <1>1, <3>2 DEF Stream, Written
        <4>4. QED
          BY <4>1, <4>2, <4>3
      <3>3. CASE q # p
        BY <1>2, <1>6, <1>7, <3>3 DEF Stream
      <3>4. QED
        BY <3>2, <3>3
    <2>2. QED
      BY <1>2, <2>1 DEF SInv, Ordered
  <1>15. QED
    BY <1>8, <1>9, <1>10, <1>11, <1>12, <1>13, <1>14 DEF SInv

LEMMA GiveUpKeepsInv ==
  ASSUME SInv, NEW p \in Procs, GiveUp(p)
  PROVE  SInv'
  <1>1. /\ toSend[p] # <<>>
        /\ toSend' = [toSend EXCEPT ![p] = <<>>]
        /\ torn' = IF toSend[p][1].part > 1 THEN torn \cup {p} ELSE torn
        /\ UNCHANGED <<pipe, sent, written, slots, buffer, log, merged, dropped, running>>
    BY DEF GiveUp, reader
  <1>2. /\ toSend \in [Procs -> Seq(Parts)] /\ <<>> \in Seq(Parts)
        /\ torn \subseteq Procs
    BY DEF SInv, Typed, TypeOK
  <1>3. /\ toSend' \in [Procs -> Seq(Parts)]
        /\ toSend'[p] = <<>>
        /\ \A q \in Procs \ {p} : toSend'[q] = toSend[q]
        /\ torn \subseteq torn' /\ torn' \subseteq Procs
    BY <1>1, <1>2
  <1>4. Typed'
    BY <1>1, <1>3 DEF SInv, Typed, TypeOK
  <1>5. Chunks' /\ Aligned' /\ Pending' /\ DroppedForGood'
    BY <1>1 DEF SInv, Chunks, Aligned, Pending, DroppedForGood, IsHead, Behind
  <1>6. WholeLines'
    BY <1>1, <1>3 DEF SInv, WholeLines
  <1>7. Unsent'
    <2>1. ASSUME NEW q \in Procs, NEW k \in DOMAIN toSend'[q]
          PROVE  /\ IsOf(q, toSend'[q][k])
                 /\ IsEnd(toSend'[q][k]) <=> k = Len(toSend'[q])
      <3>1. q # p
        BY <1>3
      <3>2. toSend'[q] = toSend[q]
        BY <1>3, <3>1
      <3>3. QED
        BY <3>2 DEF SInv, Unsent
    <2>2. QED
      BY <2>1 DEF Unsent
  <1>8. running' /\ ~merged' => \A q \in Procs \ dropped' : Accounted(q)'
    BY <1>1 DEF SInv, Accounted
  <1>9. Ordered'
    <2>1. ASSUME running, ~merged, NEW q \in Procs \ (torn' \cup dropped)
          PROVE  Chained(Stream(q)')
      <3> DEFINE u == buffer[q] \o PayloadOf(q, pipe)
      <3>1. Chained(Stream(q))
        BY <1>3, <2>1 DEF SInv, Ordered
      <3>2. Stream(q) = u \o toSend[q] /\ Stream(q)' = u \o toSend'[q]
        BY <1>1 DEF Stream
      <3>3. u \in Seq(Parts) /\ toSend[q] \in Seq(Parts)
        BY StreamTyped
      <3> HIDE DEF u
      <3>4. CASE q = p
        <4>1. toSend[q][1].part = 1
          <5>1. toSend[q][1] \in Parts
            BY <1>1, <3>3, <3>4
          <5>2. ~(toSend[q][1].part > 1)
            BY <1>1, <2>1, <3>4
          <5>3. QED
            BY <5>1, <5>2, PartFacts
        <4>2. Chained(u)
          BY <1>1, <3>1, <3>2, <3>3, <3>4, <4>1, ChainedPrefix
        <4>3. Stream(q)' = u
          BY <1>3, <3>2, <3>3, <3>4, ConcatEmptySeq
        <4>4. QED
          BY <4>2, <4>3
      <3>5. CASE q # p
        BY <1>3, <3>1, <3>2, <3>5
      <3>6. QED
        BY <3>4, <3>5
    <2>2. QED
      BY <1>1, <2>1 DEF Ordered
  <1>10. QED
    BY <1>4, <1>5, <1>6, <1>7, <1>8, <1>9 DEF SInv

-----------------------------------------------------------------------------
(* The steps of the syslogger.                                              *)

\* Chunks follow one another, wherever a read begins.
Follow ==
  \A i \in DOMAIN pipe : IsHead(i) /\ Behind(i) <= Len(pipe) => IsHead(Behind(i))

LEMMA ReadTakes ==
  ASSUME SInv, Read
  PROVE  /\ pipe \in Seq(Cells) /\ Len(pipe) \in Nat /\ DOMAIN pipe = 1 .. Len(pipe)
         /\ Taken \in 1 .. Len(pipe) /\ Taken \in Nat
         /\ 1 \in DOMAIN pipe
         /\ pipe' \in Seq(Cells) /\ Len(pipe') = Len(pipe) - Taken
         /\ DOMAIN pipe' = 1 .. Len(pipe) - Taken
         /\ \A k \in 1 .. Len(pipe) - Taken : pipe'[k] = pipe[Taken + k]
  <1>1. /\ pipe \in Seq(Cells) /\ pipe # <<>>
        /\ pipe' = SubSeq(pipe, Taken + 1, Len(pipe))
    BY DEF SInv, Typed, Read
  <1> DEFINE n == Len(pipe)
             t == Taken
             s == SubSeq(pipe, t + 1, n)
  <1>2. n \in Nat /\ n >= 1 /\ DOMAIN pipe = 1 .. n
    BY <1>1
  <1> HIDE DEF n
  <1>3. t \in 1 .. n /\ t \in Nat
    BY <1>2, SyslogAssumption DEF n, Taken, ReadSize, HeaderCells
  <1> HIDE DEF t
  <1>4. t \in 0 .. n /\ n \in t .. n /\ Len(pipe) = n
    BY <1>2, <1>3 DEF n
  <1>5. /\ s \in Seq(Cells) /\ Len(s) = n - t
        /\ \A k \in 1 .. n - t : s[k] = pipe[t + k]
    BY <1>1, <1>2, <1>4, CutOff
  <1> HIDE DEF s
  <1>6. DOMAIN s = 1 .. n - t
    BY <1>5
  <1>7. pipe' = s
    BY <1>1 DEF s, n, t
  <1>8. 1 \in DOMAIN pipe
    BY <1>2
  <1>9. QED
    BY <1>1, <1>2, <1>3, <1>5, <1>6, <1>7, <1>8 DEF n, t

LEMMA ReadShifts ==
  ASSUME SInv, Read
  PROVE  Chunks' /\ Follow'
  <1> DEFINE L == Len(pipe)
             t == Taken
  <1>1. /\ L \in Nat /\ DOMAIN pipe = 1 .. L
        /\ t \in 1 .. L /\ t \in Nat
        /\ Len(pipe') = L - t
        /\ DOMAIN pipe' = 1 .. L - t
        /\ \A k \in 1 .. L - t : pipe'[k] = pipe[t + k]
    BY ReadTakes, Zenon
  <1>2. Len(pipe) = L
    OBVIOUS
  <1> HIDE DEF L, t
  <1>3. ASSUME NEW i \in DOMAIN pipe', IsHead(i)'
        PROVE  /\ Behind(i)' <= Len(pipe') + 1
               /\ pipe'[i + 1] = TailCell
               /\ \A k \in 1 .. pipe'[i].len :
                    /\ IsOf(pipe'[i].pid, pipe'[i + 1 + k])
                    /\ IsEnd(pipe'[i + 1 + k]) <=> k = pipe'[i].len /\ pipe'[i].last
               /\ Behind(i)' <= Len(pipe') => IsHead(Behind(i))'
    <2>1. /\ i \in Nat /\ i >= 1 /\ t + i \in DOMAIN pipe /\ pipe'[i] = pipe[t + i]
          /\ IsHead(t + i)
      BY <1>1, <1>3 DEF IsHead
    <2> DEFINE m == pipe[t + i].len
               a == pipe[t + i].pid
               z == pipe[t + i].last
    <2>2. m \in Nat /\ m >= 1
      BY <2>1, CellTyped, SyslogAssumption
    <2>3. /\ Behind(t + i) <= L + 1
          /\ pipe[(t + i) + 1] = TailCell
          /\ \A k \in 1 .. m :
               /\ IsOf(a, pipe[(t + i) + 1 + k])
               /\ IsEnd(pipe[(t + i) + 1 + k]) <=> k = m /\ z
          /\ Behind(t + i) <= L => IsHead(Behind(t + i))
      BY <1>2, <2>1 DEF SInv, Chunks, Aligned
    <2>4. Behind(t + i) = ((t + i) + 2) + m /\ Behind(i)' = (i + 2) + m
      BY <2>1 DEF Behind, HeaderCells
    <2>5. pipe'[i].len = m /\ pipe'[i].pid = a /\ pipe'[i].last = z
      BY <2>1
    <2> HIDE DEF m, a, z
    <2>6. /\ (i + 2) + m <= (L - t) + 1
          /\ i + 1 \in 1 .. L - t /\ t + (i + 1) = (t + i) + 1
          /\ \A k \in 1 .. m : /\ i + 1 + k \in 1 .. L - t
                               /\ t + (i + 1 + k) = (t + i) + 1 + k
      <3>1. ((t + i) + 2) + m <= L + 1
        BY <2>3, <2>4
      <3>2. L \in Nat /\ t \in Nat
        BY <1>1
      <3>3. (i + 2) + m <= (L - t) + 1
        BY <2>1, <2>2, <3>1, <3>2
      <3>4. i + 1 \in 1 .. L - t /\ t + (i + 1) = (t + i) + 1
        BY <2>1, <2>2, <3>2, <3>3
      <3>5. ASSUME NEW k \in 1 .. m
            PROVE  i + 1 + k \in 1 .. L - t /\ t + (i + 1 + k) = (t + i) + 1 + k
        BY <2>1, <2>2, <3>2, <3>3
      <3>6. QED
        BY <3>3, <3>4, <3>5
    <2>7. /\ pipe'[i + 1] = pipe[(t + i) + 1]
          /\ \A k \in 1 .. m : pipe'[i + 1 + k] = pipe[(t + i) + 1 + k]
      <3>1. \A j \in 1 .. L - t : pipe'[j] = pipe[t + j]
        BY <1>1
      <3>2. ASSUME NEW k \in 1 .. m
            PROVE  pipe'[i + 1 + k] = pipe[(t + i) + 1 + k]
        <4>1. pipe'[i + 1 + k] = pipe[t + (i + 1 + k)]
          BY <2>6, <3>1, Zenon
        <4>2. QED
          BY <2>6, <4>1, Zenon
      <3>3. pipe'[i + 1] = pipe[t + (i + 1)]
        BY <2>6, <3>1, Zenon
      <3>4. QED
        BY <2>6, <3>2, <3>3, Zenon
    <2>8. ASSUME Behind(i)' <= Len(pipe')
          PROVE  IsHead(Behind(i))'
      <3>1. /\ (i + 2) + m \in 1 .. L - t
            /\ t + ((i + 2) + m) = ((t + i) + 2) + m
            /\ ((t + i) + 2) + m <= L
        BY <1>1, <2>1, <2>2, <2>4, <2>8, SMTT(30)
      <3>2. pipe'[(i + 2) + m] = pipe[((t + i) + 2) + m]
        BY <1>1, <3>1
      <3>3. IsHead(((t + i) + 2) + m)
        BY <2>3, <2>4, <3>1
      <3>4. QED
        BY <2>4, <3>2, <3>3 DEF IsHead
    <2>9. QED
      BY <1>1, <2>3, <2>4, <2>5, <2>6, <2>7, <2>8
  <1>4. QED
    BY <1>3 DEF Chunks, Follow

\* What find_or_create_pending_chunk and append_to_pending_chunk do to the table.
LEMMA Collected ==
  ASSUME SInv, running, NEW pid \in Pids, NEW payload \in Seq(Parts), NEW last \in BOOLEAN,
         HasSlot(pid), Collect(pid, payload, last)
  PROVE  /\ slots' \subseteq Pids /\ IsFiniteSet(slots')
         /\ Cardinality(slots') <= MAX_PENDING_CHUNKS
         /\ dropped # {} => slots' = slots /\ pid \notin dropped
         /\ buffer' \in [Pids -> Seq(Parts)] /\ log' \in Seq(Seq(Parts))
  <1>1. /\ slots \subseteq Pids /\ IsFiniteSet(slots)
        /\ Cardinality(slots) <= MAX_PENDING_CHUNKS /\ Cardinality(slots) \in Nat
        /\ buffer \in [Pids -> Seq(Parts)] /\ log \in Seq(Seq(Parts))
        /\ MAX_PENDING_CHUNKS \in Nat
    BY FS_CardinalityType, SyslogAssumption DEF SInv, Typed, TypeOK
  <1>2. slots' = slots \cup {pid}
    BY DEF Collect
  <1>3. /\ slots' \subseteq Pids /\ IsFiniteSet(slots')
        /\ Cardinality(slots') <= MAX_PENDING_CHUNKS
        /\ dropped # {} => slots' = slots /\ pid \notin dropped
    <2>1. CASE pid \in slots
      <3>1. slots' = slots
        BY <1>2, <2>1
      <3>2. QED
        BY <1>1, <2>1, <3>1 DEF SInv, DroppedForGood
    <2>2. CASE pid \notin slots
      <3>1. Cardinality(slots) < MAX_PENDING_CHUNKS
        BY <2>2 DEF HasSlot
      <3>2. dropped = {}
        BY <1>1, <3>1 DEF SInv, DroppedForGood
      <3>3. IsFiniteSet(slots') /\ Cardinality(slots') = Cardinality(slots) + 1
        BY <1>1, <1>2, <2>2, FS_AddElement
      <3>4. QED
        BY <1>1, <1>2, <3>1, <3>2, <3>3
    <2>3. QED
      BY <2>1, <2>2
  <1>4. buffer[pid] \in Seq(Parts)
    BY <1>1
  <1> DEFINE text == buffer[pid] \o payload
  <1>5. text \in Seq(Parts) /\ <<>> \in Seq(Parts)
    BY <1>4
  <1>6. log' = (IF last THEN Append(log, text) ELSE log)
        /\ buffer' = [buffer EXCEPT ![pid] = IF last THEN <<>> ELSE text]
    BY DEF Collect, BufferAfter
  <1> HIDE DEF text
  <1>7. buffer' \in [Pids -> Seq(Parts)] /\ log' \in Seq(Seq(Parts))
    BY <1>1, <1>5, <1>6
  <1>8. QED
    BY <1>3, <1>7

\* The chunk a read begins with: it is in the pipe to its end, and the read
\* takes it all.
Fronts(q, n, last, pay) ==
  /\ q \in Procs /\ q \in Pids /\ n \in Nat /\ n >= 1 /\ last \in BOOLEAN
  /\ n + 2 <= Len(pipe) /\ n + 2 <= Taken
  /\ pay \in Seq(Parts) /\ Len(pay) = n
  /\ \A k \in 1 .. n : /\ IsOf(q, pay[k])
                       /\ IsEnd(pay[k]) <=> k = n /\ last
  /\ SubSeq(pipe, HeaderCells + 1, HeaderCells + n) = pay
  /\ pipe[1].len = n /\ pipe[1].pid = q /\ pipe[1].last = last
  /\ \A p : ~IsOf(p, pipe[1]) /\ ~IsOf(p, pipe[2])

LEMMA ChunkFronts ==
  ASSUME SInv, Read, Front.kind = "head"
  PROVE  \E q, n, last, pay : Fronts(q, n, last, pay)
  <1> DEFINE L == Len(pipe)
             n == pipe[1].len
             q == pipe[1].pid
             last == pipe[1].last
             pay == SubSeq(pipe, 2 + 1, 2 + n)
  <1>1. /\ pipe \in Seq(Cells) /\ L \in Nat /\ DOMAIN pipe = 1 .. L
        /\ 1 \in DOMAIN pipe
    BY ReadTakes, Zenon
  <1>2. IsHead(1) /\ ~(pipe[1].kind = "data")
    BY DEF IsHead, Front
  <1>3. q \in Procs /\ n \in 1 .. PIPE_MAX_PAYLOAD /\ last \in BOOLEAN
    BY <1>1, <1>2, CellTyped
  <1>4. n \in Nat /\ n >= 1 /\ n <= PIPE_MAX_PAYLOAD /\ PIPE_MAX_PAYLOAD \in Nat
    BY <1>3, SyslogAssumption
  <1>5. /\ Behind(1) <= L + 1
        /\ pipe[1 + 1] = TailCell
        /\ \A k \in 1 .. n : /\ IsOf(q, pipe[1 + 1 + k])
                             /\ IsEnd(pipe[1 + 1 + k]) <=> k = n /\ last
    BY <1>1, <1>2 DEF SInv, Chunks
  <1>6. Behind(1) = 1 + 2 + n
    BY DEF Behind, HeaderCells
  <1>7. Taken = IF L < 2 + PIPE_MAX_PAYLOAD THEN L ELSE 2 + PIPE_MAX_PAYLOAD
    BY DEF Taken, ReadSize, HeaderCells
  <1> HIDE DEF L, n, q, last
  <1>8. n + 2 <= L /\ n + 2 <= Taken
    BY <1>1, <1>4, <1>5, <1>6, <1>7
  <1>9. 2 \in 0 .. L /\ 2 + n \in 2 .. L /\ (2 + n) - 2 = n /\ Len(pipe) = L
    BY <1>1, <1>4, <1>8 DEF L
  <1>10. /\ pay \in Seq(Cells) /\ Len(pay) = (2 + n) - 2
         /\ \A k \in 1 .. (2 + n) - 2 : pay[k] = pipe[2 + k]
    BY <1>1, <1>9, CutOff
  <1> HIDE DEF pay
  <1>11. \A k \in 1 .. n : /\ IsOf(q, pay[k])
                           /\ IsEnd(pay[k]) <=> k = n /\ last
    <2>1. \A k \in 1 .. n : pay[k] = pipe[2 + k] /\ 1 + 1 + k = 2 + k
      BY <1>4, <1>9, <1>10
    <2>2. QED
      BY <1>5, <2>1
  <1>12. \A k \in 1 .. n : pay[k] \in Parts
    <2>1. ASSUME NEW k \in 1 .. n
          PROVE  pay[k] \in Parts
      <3>1. pay[k] \in Cells
        BY <1>9, <1>10
      <3>2. pay[k].kind = "data"
        BY <1>11 DEF IsOf
      <3>3. QED
        BY <3>1, <3>2, CellKinds
    <2>2. QED
      BY <2>1
  <1>13. pay \in Seq(Parts) /\ Len(pay) = n
    <2>1. Len(pay) = n /\ pay \in Seq(Cells)
      BY <1>9, <1>10
    <2>2. QED
      BY <1>12, <2>1
  <1>14. \A p : ~IsOf(p, pipe[1]) /\ ~IsOf(p, pipe[2])
    BY <1>2, <1>5 DEF IsOf, TailCell
  <1>15. SubSeq(pipe, HeaderCells + 1, HeaderCells + n) = pay
    BY DEF HeaderCells, pay
  <1>16. pipe[1].len = n /\ pipe[1].pid = q /\ pipe[1].last = last /\ q \in Pids
    BY <1>3 DEF n, q, last, Pids
  <1>17. Fronts(q, n, last, pay)
    BY <1>3, <1>4, <1>8, <1>11, <1>13, <1>14, <1>15, <1>16, Zenon DEF Fronts, L
  <1>18. QED
    BY <1>17


\* What a read that takes one chunk changes in what the pipe holds of a process.
LEMMA ChunkTakenOut ==
  ASSUME SInv, Read, NEW q, NEW n, NEW last, NEW pay, Fronts(q, n, last, pay),
         ~(Taken > HeaderCells + n), NEW p \in Procs
  PROVE  PayloadOf(p, pipe) =
           IF p = q THEN pay \o PayloadOf(p, pipe') ELSE PayloadOf(p, pipe')
  <1> DEFINE L == Len(pipe)
             hdr == SubSeq(pipe, 1, 2)
             mid == SubSeq(pipe, 2 + 1, 2 + n)
             rest == SubSeq(pipe, (2 + n) + 1, L)
  <1>1. /\ pipe \in Seq(Cells) /\ L \in Nat /\ Taken \in Nat
        /\ pipe' \in Seq(Cells)
    BY ReadTakes, Zenon
  <1>2. /\ n \in Nat /\ n >= 1 /\ n + 2 <= L /\ n + 2 <= Taken
        /\ pay \in Seq(Parts) /\ Len(pay) = n
        /\ \A k \in 1 .. n : IsOf(q, pay[k])
        /\ SubSeq(pipe, HeaderCells + 1, HeaderCells + n) = pay
        /\ ~IsOf(p, pipe[1]) /\ ~IsOf(p, pipe[2])
    BY Zenon DEF Fronts
  <1>3. Taken = 2 + n
    BY <1>1, <1>2 DEF HeaderCells
  <1>4. mid = pay
    BY <1>2 DEF HeaderCells
  <1>5. pipe' = rest
    BY <1>3 DEF Read
  <1> HIDE DEF L
  <1>6. 2 \in 0 .. L /\ 2 + n \in 2 .. L /\ 0 \in 0 .. L /\ 2 \in 0 .. L /\ Len(pipe) = L
        /\ 0 + 1 = 1 /\ 2 - 0 = 2
    BY <1>1, <1>2 DEF L
  <1>7. pipe = hdr \o (mid \o rest)
    <2>1. ThreeParts(pipe, 2, 2 + n, L)
      BY <1>1, <1>6, Cut
    <2>2. QED
      BY <2>1, Zenon DEF ThreeParts
  <1>8. hdr \in Seq(Cells) /\ Len(hdr) = 2 /\ \A k \in 1 .. 2 : hdr[k] = pipe[k]
    BY <1>1, <1>2, <1>6
  <1> HIDE DEF hdr, mid, rest
  <1>9. pay \in Seq(Cells) /\ rest \in Seq(Cells)
    <2>1. Parts \subseteq Cells
      BY DEF Cells
    <2>2. QED
      BY <1>1, <1>2, <1>5, <2>1
  <1>10. PayloadOf(p, hdr) = <<>>
    <2>1. \A k \in DOMAIN hdr : ~IsOf(p, hdr[k])
      <3>1. DOMAIN hdr = {1, 2}
        BY <1>8
      <3>2. hdr[1] = pipe[1] /\ hdr[2] = pipe[2]
        BY <1>8
      <3>3. QED
        BY <1>2, <3>1, <3>2
    <2>2. QED
      BY <1>8, <2>1, PayloadForeign
  <1> DEFINE v == pay \o rest
  <1>11. v \in Seq(Cells) /\ PayloadOf(p, v) = PayloadOf(p, pay) \o PayloadOf(p, rest)
    BY <1>9, PayloadConcat
  <1>12. pipe = hdr \o v
    BY <1>4, <1>7
  <1> HIDE DEF v
  <1>13. PayloadOf(p, pipe) = PayloadOf(p, hdr) \o PayloadOf(p, v)
    BY <1>8, <1>11, <1>12, PayloadConcat
  <1>14. PayloadOf(p, v) \in Seq(Parts) /\ PayloadOf(p, rest) \in Seq(Parts)
    BY <1>9, <1>11, PayloadParts
  <1>15. PayloadOf(p, pipe) = PayloadOf(p, pay) \o PayloadOf(p, rest)
    BY <1>10, <1>11, <1>13, <1>14, ConcatEmptySeq
  <1>16. DOMAIN pay = 1 .. n
    BY <1>2
  <1>17. CASE p = q
    <2>1. PayloadOf(p, pay) = pay
      BY <1>2, <1>16, <1>17, PayloadOwn
    <2>2. QED
      BY <1>5, <1>15, <1>17, <2>1
  <1>18. CASE p # q
    <2>1. \A k \in DOMAIN pay : ~IsOf(p, pay[k])
      BY <1>2, <1>16, <1>18 DEF IsOf
    <2>2. PayloadOf(p, pay) = <<>>
      BY <1>2, <2>1, PayloadForeign
    <2>3. QED
      BY <1>5, <1>14, <1>15, <1>18, <2>2, ConcatEmptySeq
  <1>19. QED
    BY <1>17, <1>18

\* The text that a chunk completes or goes on.
GoesOn(q, text, last) ==
  /\ text \in Seq(Parts) /\ text # <<>>
  /\ \A k \in DOMAIN text : /\ IsOf(q, text[k])
                            /\ IsEnd(text[k]) <=> k = Len(text) /\ last

LEMMA TextGoesOn ==
  ASSUME SInv, ~merged, NEW q, NEW n, NEW last, NEW pay, Fronts(q, n, last, pay)
  PROVE  GoesOn(q, buffer[q] \o pay, last)
  <1> DEFINE b == buffer[q]
             m == Len(b)
             text == b \o pay
  <1>1. /\ q \in Procs /\ n \in Nat /\ n >= 1 /\ last \in BOOLEAN
        /\ pay \in Seq(Parts) /\ Len(pay) = n
        /\ \A k \in 1 .. n : /\ IsOf(q, pay[k])
                             /\ IsEnd(pay[k]) <=> k = n /\ last
    BY Zenon DEF Fronts
  <1>2. b \in Seq(Parts)
    BY <1>1, StreamTyped
  <1>3. \A k \in DOMAIN b : IsOf(q, b[k]) /\ ~IsEnd(b[k])
    BY <1>1 DEF SInv, Pending
  <1> HIDE DEF b
  <1>4. m \in Nat /\ DOMAIN b = 1 .. m /\ Len(b) = m
    BY <1>2
  <1> HIDE DEF m
  <1>5. Joins(Parts, b, pay, m, n)
    BY <1>1, <1>2, <1>4, Joined
  <1>6. /\ text \in Seq(Parts) /\ Len(text) = m + n
        /\ \A i \in 1 .. m : text[i] = b[i]
        /\ \A k \in 1 .. n : text[m + k] = pay[k]
    BY <1>5, Zenon DEF Joins
  <1> HIDE DEF text
  <1>7. DOMAIN text = 1 .. m + n /\ text # <<>>
    BY <1>1, <1>4, <1>6
  <1>8. ASSUME NEW k \in 1 .. m + n
        PROVE  IsOf(q, text[k]) /\ (IsEnd(text[k]) <=> k = m + n /\ last)
    <2>1. CASE k \in 1 .. m
      <3>1. k # m + n
        BY <1>1, <1>4, <2>1
      <3>2. QED
        BY <1>3, <1>4, <1>6, <2>1, <3>1
    <2>2. CASE k \notin 1 .. m
      <3>1. k - m \in 1 .. n /\ k = m + (k - m) /\ (k = m + n <=> k - m = n)
        BY <1>1, <1>4, <2>2
      <3>2. PICK j \in 1 .. n : k = m + j /\ (k = m + n <=> j = n)
        BY <3>1
      <3>3. QED
        BY <1>1, <1>6, <3>2
    <2>3. QED
      BY <2>1, <2>2
  <1>9. QED
    <2>1. GoesOn(q, text, last)
      BY <1>6, <1>7, <1>8 DEF GoesOn
    <2>2. QED
      BY <2>1 DEF text, b

\* A read that takes one chunk, and finds a slot for it.
LEMMA CollectKeeps ==
  ASSUME SInv, Read, ~merged, ~merged', NEW q, NEW n, NEW last, NEW pay,
         Fronts(q, n, last, pay), ~(Taken > HeaderCells + n),
         HasSlot(q), Collect(q, pay, last),
         UNCHANGED <<senders, running, dropped>>
  PROVE  Pending' /\ Ordered' /\ WholeLines'
         /\ \A p \in Procs \ dropped' : Accounted(p)'
  <1> DEFINE text == buffer[q] \o pay
  <1>1. /\ q \in Procs /\ q \in Pids /\ n \in Nat /\ n >= 1 /\ last \in BOOLEAN
        /\ pay \in Seq(Parts)
    BY Zenon DEF Fronts
  <1>2. /\ running /\ pipe # <<>>
        /\ UNCHANGED <<toSend, sent, written, torn, running, dropped>>
    BY DEF Read, senders
  <1>3. /\ text \in Seq(Parts) /\ text # <<>>
        /\ \A k \in DOMAIN text : /\ IsOf(q, text[k])
                                  /\ IsEnd(text[k]) <=> k = Len(text) /\ last
    <2>1. GoesOn(q, text, last)
      BY TextGoesOn
    <2>2. QED
      BY <2>1, Zenon DEF GoesOn
  <1>4. /\ buffer \in [Pids -> Seq(Parts)] /\ log \in Seq(Seq(Parts))
        /\ Procs \subseteq Pids
    BY DEF SInv, Typed, TypeOK, Pids
  <1>5. /\ log' = IF last THEN Append(log, text) ELSE log
        /\ buffer' = [buffer EXCEPT ![q] = IF last THEN <<>> ELSE text]
    BY DEF Collect, BufferAfter
  <1> HIDE DEF text
  <1>6. /\ buffer'[q] = IF last THEN <<>> ELSE text
        /\ \A p \in Procs \ {q} : buffer'[p] = buffer[p]
    BY <1>1, <1>4, <1>5
  <1>7. \A p \in Procs : PayloadOf(p, pipe) =
          IF p = q THEN pay \o PayloadOf(p, pipe') ELSE PayloadOf(p, pipe')
    BY ChunkTakenOut
  <1>8. \A p \in Procs : PayloadOf(p, pipe') \in Seq(Parts)
    BY ReadTakes, PayloadParts
  <1>9. Pending'
    <2>1. ASSUME NEW p \in Procs, NEW k \in DOMAIN buffer'[p]
          PROVE  IsOf(p, buffer'[p][k]) /\ ~IsEnd(buffer'[p][k])
      <3>1. CASE p = q
        <4>1. CASE last
          BY <1>6, <2>1, <3>1, <4>1
        <4>2. CASE ~last
          <5>1. buffer'[p] = text
            BY <1>6, <3>1, <4>2
          <5>2. QED
            BY <1>3, <2>1, <3>1, <4>2, <5>1
        <4>3. QED
          BY <4>1, <4>2
      <3>2. CASE p # q
        <4>1. buffer'[p] = buffer[p]
          BY <1>6, <3>2
        <4>2. QED
          BY <2>1, <4>1 DEF SInv, Pending
      <3>3. QED
        BY <3>1, <3>2
    <2>2. QED
      BY <2>1 DEF Pending
  <1>10. \A p \in Procs : PayloadOf(p, Concat(log')) =
           IF p = q /\ last THEN PayloadOf(p, Concat(log)) \o text
           ELSE PayloadOf(p, Concat(log))
    <2>1. ASSUME NEW p \in Procs
          PROVE  PayloadOf(p, Concat(log')) =
                   IF p = q /\ last THEN PayloadOf(p, Concat(log)) \o text
                   ELSE PayloadOf(p, Concat(log))
      <3>1. CASE ~last
        BY <1>5, <3>1
      <3>2. CASE last
        <4>1. log' = Append(log, text)
          BY <1>5, <3>2
        <4>2. Concat(log') = Concat(log) \o text
          BY <1>3, <1>4, <4>1, ConcatAppend
        <4>3. Concat(log) \in Seq(Parts) /\ PayloadOf(p, Concat(log)) \in Seq(Parts)
          BY StreamTyped
        <4>4. PayloadOf(p, Concat(log')) = PayloadOf(p, Concat(log)) \o PayloadOf(p, text)
          BY <1>3, <4>2, <4>3, PayloadConcat
        <4>5. CASE p = q
          <5>1. PayloadOf(p, text) = text
            BY <1>3, <4>5, PayloadOwn
          <5>2. QED
            BY <3>2, <4>4, <4>5, <5>1
        <4>6. CASE p # q
          <5>1. \A k \in DOMAIN text : ~IsOf(p, text[k])
            BY <1>3, <4>6 DEF IsOf
          <5>2. PayloadOf(p, text) = <<>>
            BY <1>3, <5>1, PayloadForeign
          <5>3. QED
            BY <4>3, <4>4, <4>6, <5>2, ConcatEmptySeq
        <4>7. QED
          BY <4>5, <4>6
      <3>3. QED
        BY <1>1, <3>1, <3>2
    <2>2. QED
      BY <2>1
  <1>11. ASSUME NEW p \in Procs \ dropped'
         PROVE  Accounted(p)'
    <2>1. Accounted(p)
      BY <1>2 DEF SInv
    <2> DEFINE c == PayloadOf(p, Concat(log))
               c2 == PayloadOf(p, Concat(log'))
               b == buffer[p]
               b2 == buffer'[p]
               u == PayloadOf(p, pipe)
               u2 == PayloadOf(p, pipe')
    <2>2. c \in Seq(Parts) /\ b \in Seq(Parts) /\ u2 \in Seq(Parts)
      BY <1>8, StreamTyped
    <2>3. written[p] = (c \o b) \o u /\ written'[p] = written[p]
      BY <1>2, <2>1 DEF Accounted
    <2>4. SUFFICES (c \o b) \o u = (c2 \o b2) \o u2
      BY <2>3 DEF Accounted
    <2>5. c2 = IF p = q /\ last THEN c \o text ELSE c
      BY <1>10
    <2>6. b2 = IF p = q THEN IF last THEN <<>> ELSE text ELSE b
      BY <1>6
    <2>7. u = IF p = q THEN pay \o u2 ELSE u2
      BY <1>7
    <2>8. p = q => text = b \o pay
      BY DEF text
    <2> HIDE DEF c, c2, b, b2, u, u2
    <2>9. CASE p = q
      <3>1. Regroups(c, b, pay, u2)
        BY <1>1, <2>2, Regrouped
      <3>2. (c \o b) \o u = (c \o text) \o u2
        BY <2>7, <2>8, <2>9, <3>1, Zenon DEF Regroups
      <3>3. CASE last
        <4>1. c2 = c \o text /\ b2 = <<>>
          BY <2>5, <2>6, <2>9, <3>3
        <4>2. c2 \in Seq(Parts)
          BY <1>3, <2>2, <4>1
        <4>3. c2 \o b2 = c \o text
          BY <4>1, <4>2, ConcatEmptySeq
        <4>4. QED
          BY <3>2, <4>3
      <3>4. CASE ~last
        <4>1. c2 = c /\ b2 = text
          BY <2>5, <2>6, <2>9, <3>4
        <4>2. QED
          BY <3>2, <4>1
      <3>5. QED
        BY <3>3, <3>4
    <2>10. CASE p # q
      <3>1. c2 = c /\ b2 = b /\ u = u2
        BY <2>5, <2>6, <2>7, <2>10
      <3>2. QED
        BY <3>1
    <2>11. QED
      BY <2>9, <2>10
  \* what is left of the stream of q, when its message is complete
  <1> DEFINE left == PayloadOf(q, pipe') \o toSend[q]
  <1>12. /\ Stream(q) = text \o left
         /\ left \in Seq(Parts) /\ toSend[q] \in Seq(Parts)
         /\ buffer[q] \in Seq(Parts)
    <2> DEFINE b == buffer[q]
               u2 == PayloadOf(q, pipe')
               ts == toSend[q]
    <2>1. b \in Seq(Parts) /\ u2 \in Seq(Parts) /\ ts \in Seq(Parts)
      BY <1>1, <1>8, StreamTyped
    <2>2. Stream(q) = (b \o (pay \o u2)) \o ts
      BY <1>1, <1>7 DEF Stream
    <2>3. text = b \o pay
      BY DEF text
    <2>4. left = u2 \o ts
      OBVIOUS
    <2> HIDE DEF b, u2, ts, left
    <2>5. Regroups(b, pay, u2, ts) /\ (b \o pay) \o u2 = b \o (pay \o u2)
      <3>1. Regroups(b, pay, u2, ts) /\ Associates(b, pay, u2)
        BY <1>1, <2>1, Regrouped, Associated
      <3>2. QED
        BY <3>1, Zenon DEF Associates
    <2>6. ((b \o pay) \o u2) \o ts = (b \o pay) \o (u2 \o ts)
      BY <2>5, Zenon DEF Regroups
    <2>7. left \in Seq(Parts)
      BY <2>1, <2>4
    <2>8. Stream(q) = text \o left
      BY <2>2, <2>3, <2>4, <2>5, <2>6, Zenon
    <2>9. QED
      BY <2>1, <2>7, <2>8 DEF b, ts
  <1> HIDE DEF left
  <1>13. q \notin torn => Chained(text \o left)
    <2>1. q \notin dropped
      BY <1>1, <1>2, Collected
    <2>2. QED
      BY <1>1, <1>2, <1>12, <2>1 DEF SInv, Ordered
  <1>14. Ordered'
    <2>1. ASSUME NEW p \in Procs \ (torn' \cup dropped')
          PROVE  Chained(Stream(p)')
      <3>1. CASE p # q
        <4>1. Chained(Stream(p))
          BY <1>2, <2>1 DEF SInv, Ordered
        <4>2. Stream(p)' = Stream(p)
          BY <1>2, <1>6, <1>7, <3>1 DEF Stream
        <4>3. QED
          BY <4>1, <4>2
      <3>2. CASE p = q /\ last
        <4>1. Chained(text \o left)
          BY <1>2, <1>13, <2>1, <3>2
        <4>2. Len(text) \in DOMAIN text
          BY <1>3
        <4>3. IsEnd(text[Len(text)])
          BY <1>3, <3>2, <4>2
        <4>4. Chained(left)
          BY <1>3, <1>12, <4>1, <4>3, ChainedSuffix
        <4>5. Stream(p)' = (<<>> \o PayloadOf(q, pipe')) \o toSend[q]
          BY <1>2, <1>6, <3>2 DEF Stream
        <4>6. <<>> \o PayloadOf(q, pipe') = PayloadOf(q, pipe')
          BY <1>1, <1>8, ConcatEmptySeq
        <4>7. QED
          BY <4>4, <4>5, <4>6 DEF left
      <3>3. CASE p = q /\ ~last
        <4>1. Chained(text \o left)
          BY <1>2, <1>13, <2>1, <3>3
        <4>2. Stream(p)' = (text \o PayloadOf(q, pipe')) \o toSend[q]
          BY <1>2, <1>6, <3>3 DEF Stream
        <4> DEFINE u2 == PayloadOf(q, pipe')
                   ts == toSend[q]
        <4>3. u2 \in Seq(Parts) /\ ts \in Seq(Parts)
          BY <1>1, <1>8, <1>12
        <4>4. left = u2 \o ts
          BY DEF left
        <4>5. Stream(p)' = (text \o u2) \o ts
          BY <4>2
        <4> HIDE DEF u2, ts
        <4>6. (text \o u2) \o ts = text \o (u2 \o ts)
          <5>1. Associates(text, u2, ts)
            BY <1>3, <4>3, Associated
          <5>2. QED
            BY <5>1, Zenon DEF Associates
        <4>7. QED
          BY <4>1, <4>4, <4>5, <4>6
      <3>4. QED
        BY <1>1, <3>1, <3>2, <3>3
    <2>2. QED
      BY <2>1 DEF Ordered
  <1>15. WholeLines'
    <2>1. ASSUME NEW i \in DOMAIN log'
          PROVE  log'[i][1].pid \in torn' \/ IsWhole(log'[i])
      <3>1. CASE ~last
        <4>1. log' = log
          BY <1>5, <3>1
        <4>2. QED
          BY <1>2, <2>1, <4>1 DEF SInv, WholeLines
      <3>2. CASE last
        <4>1. log' = Append(log, text)
          BY <1>5, <3>2
        <4>2. CASE i \in DOMAIN log
          <5>1. log'[i] = log[i]
            BY <1>4, <4>1, <4>2
          <5>2. QED
            BY <1>2, <4>2, <5>1 DEF SInv, WholeLines
        <4>3. CASE i \notin DOMAIN log
          <5>1. log'[i] = text
            BY <1>4, <2>1, <4>1, <4>3
          <5>2. 1 \in DOMAIN text
            BY <1>3
          <5>3. text[1].pid = q
            BY <1>3, <5>2 DEF IsOf
          <5>4. CASE q \in torn
            BY <1>2, <5>1, <5>3, <5>4
          <5>5. CASE q \notin torn
            <6>1. Chained(text \o left)
              BY <1>13, <5>5
            <6>2. \A k \in DOMAIN text : IsOf(q, text[k])
              BY <1>3
            <6>3. \A k \in DOMAIN text : IsEnd(text[k]) <=> k = Len(text)
              BY <1>3, <3>2
            <6>4. IsWhole(text)
              BY <1>1, <1>3, <1>12, <6>1, <6>2, <6>3, ChainedWhole
            <6>5. QED
              BY <5>1, <6>4
          <5>6. QED
            BY <5>4, <5>5
        <4>4. QED
          BY <4>2, <4>3
      <3>3. QED
        BY <1>1, <3>1, <3>2
    <2>2. QED
      BY <2>1 DEF WholeLines
  <1>16. QED
    BY <1>9, <1>11, <1>14, <1>15


LEMMA ReadChunkKeepsInv ==
  ASSUME SInv, ReadChunk
  PROVE  SInv'
  <1>1. /\ Read /\ Front.kind = "head" /\ running /\ running'
        /\ UNCHANGED <<senders, running>>
        /\ UNCHANGED <<toSend, sent, written, torn>>
    BY DEF ReadChunk, Read, senders
  <1>2. PICK q, n, last, pay : Fronts(q, n, last, pay)
    BY <1>1, ChunkFronts
  <1>3. /\ q \in Procs /\ q \in Pids /\ n \in Nat /\ n >= 1 /\ last \in BOOLEAN
        /\ pay \in Seq(Parts) /\ n + 2 <= Taken
        /\ SubSeq(pipe, HeaderCells + 1, HeaderCells + n) = pay
        /\ Front.len = n /\ Front.pid = q /\ Front.last = last
    BY <1>2, Zenon DEF Fronts, Front
  <1>4. /\ merged' = (merged \/ Taken > HeaderCells + n)
        /\ HasSlot(q) => Collect(q, pay, last) /\ UNCHANGED dropped
        /\ ~HasSlot(q) => dropped' = dropped \cup {q} /\ UNCHANGED <<slots, buffer, log>>
    BY <1>3 DEF ReadChunk
  <1>5. merged \in BOOLEAN
    BY DEF SInv, Typed, TypeOK
  <1>6. merged' \in BOOLEAN /\ (~merged' => ~merged /\ ~(Taken > HeaderCells + n))
    BY <1>4, <1>5, Zenon
  <1>7. /\ Len(pipe) \in Nat /\ Taken \in 1 .. Len(pipe) /\ pipe' \in Seq(Cells)
        /\ Len(pipe') = Len(pipe) - Taken
        /\ DOMAIN pipe' = 1 .. Len(pipe) - Taken
        /\ \A k \in 1 .. Len(pipe) - Taken : pipe'[k] = pipe[Taken + k]
        /\ 1 \in DOMAIN pipe
    BY <1>1, ReadTakes, Zenon
  <1>8. Chunks' /\ Follow'
    BY <1>1, ReadShifts
  <1>9. Unsent'
    BY <1>1 DEF SInv, Unsent
  <1>10. /\ slots' \subseteq Pids /\ IsFiniteSet(slots')
         /\ Cardinality(slots') <= MAX_PENDING_CHUNKS
         /\ buffer' \in [Pids -> Seq(Parts)] /\ log' \in Seq(Seq(Parts))
         /\ dropped' \subseteq Procs
         /\ DroppedForGood'
    <2>1. /\ slots \subseteq Pids /\ IsFiniteSet(slots)
          /\ Cardinality(slots) <= MAX_PENDING_CHUNKS
          /\ buffer \in [Pids -> Seq(Parts)] /\ log \in Seq(Seq(Parts))
          /\ dropped \subseteq Procs
      BY DEF SInv, Typed, TypeOK
    <2>2. CASE HasSlot(q)
      <3>1. Collect(q, pay, last) /\ dropped' = dropped
        BY <1>4, <2>2
      <3>2. /\ slots' \subseteq Pids /\ IsFiniteSet(slots')
            /\ Cardinality(slots') <= MAX_PENDING_CHUNKS
            /\ dropped # {} => slots' = slots
            /\ buffer' \in [Pids -> Seq(Parts)] /\ log' \in Seq(Seq(Parts))
        BY <1>1, <1>3, <2>2, <3>1, Collected
      <3>3. DroppedForGood'
        BY <1>1, <3>1, <3>2 DEF SInv, DroppedForGood
      <3>4. QED
        BY <2>1, <3>1, <3>2, <3>3
    <2>3. CASE ~HasSlot(q)
      <3>1. dropped' = dropped \cup {q} /\ UNCHANGED <<slots, buffer, log>>
        BY <1>4, <2>3
      <3>2. Cardinality(slots) \in Nat /\ MAX_PENDING_CHUNKS \in Nat
        BY <2>1, FS_CardinalityType, SyslogAssumption
      <3>3. q \notin slots /\ Cardinality(slots) >= MAX_PENDING_CHUNKS
        BY <2>3, <3>2 DEF HasSlot
      <3>4. dropped \cap slots = {}
        BY <1>1 DEF SInv, DroppedForGood
      <3>5. DroppedForGood'
        BY <3>1, <3>3, <3>4 DEF DroppedForGood
      <3>6. QED
        BY <1>3, <2>1, <3>1, <3>5
    <2>4. QED
      BY <2>2, <2>3
  <1>11. Typed'
    <2>1. Len(pipe') <= PipeSize
      BY <1>7, SyslogAssumption DEF SInv, Typed, TypeOK
    <2>2. \A i \in DOMAIN log' : log'[i] \in Seq(Parts)
      BY <1>10
    <2>3. \A i \in DOMAIN pipe' :
            \/ pipe'[i] \in Parts
            \/ pipe'[i] = [kind |-> "tail"]
            \/ pipe'[i] \in [kind : {"head"}, pid : Procs,
                             len : 1 .. PIPE_MAX_PAYLOAD, last : BOOLEAN]
      BY <1>7, PipeTyped
    <2>4. /\ toSend' \in [Procs -> Seq(Parts)] /\ written' \in [Procs -> Seq(Parts)]
          /\ sent' \in 0 .. MaxSent /\ torn' \subseteq Procs /\ running' \in BOOLEAN
      BY <1>1 DEF SInv, Typed, TypeOK
    <2>5. QED
      BY <1>6, <1>7, <1>10, <2>1, <2>2, <2>3, <2>4, Zenon DEF Typed, TypeOK
  <1>12. Aligned'
    <2>1. ASSUME ~merged', pipe' # <<>>
          PROVE  IsHead(1)'
      <3>1. IsHead(1) /\ Behind(1) = 1 + 2 + n
        BY <1>1, <1>3 DEF IsHead, Behind, Front, HeaderCells
      <3>2. Taken = 2 + n
        BY <1>3, <1>6, <1>7, <2>1 DEF HeaderCells
      <3>3. 1 \in 1 .. Len(pipe) - Taken /\ Behind(1) <= Len(pipe) /\ Behind(1) = Taken + 1
        <4>1. Len(pipe') >= 1
          BY <1>7, <2>1
        <4> DEFINE L == Len(pipe)
        <4>2. L \in Nat /\ L - Taken >= 1 /\ Taken \in Nat
          BY <1>7, <4>1
        <4> HIDE DEF L
        <4>3. 1 \in 1 .. L - Taken /\ 1 + 2 + n <= L /\ 1 + 2 + n = Taken + 1
          BY <1>3, <3>2, <4>2
        <4>4. QED
          BY <3>1, <4>3 DEF L
      <3>4. IsHead(Behind(1))
        BY <1>7, <3>1, <3>3 DEF SInv, Aligned
      <3>5. pipe'[1] = pipe[Taken + 1]
        BY <1>7, <3>3
      <3>6. QED
        BY <3>3, <3>4, <3>5 DEF IsHead
    <2>2. QED
      BY <1>8, <2>1 DEF Aligned, Follow
  <1>13. Unmerged'
    <2>1. SUFFICES ASSUME ~merged'
                   PROVE  /\ Pending' /\ Ordered' /\ WholeLines'
                          /\ \A p \in Procs \ dropped' : Accounted(p)'
      BY DEF Unmerged
    <2>2. ~merged /\ ~(Taken > HeaderCells + n)
      BY <1>6, <2>1
    <2>3. CASE HasSlot(q)
      <3>1. Collect(q, pay, last) /\ UNCHANGED <<senders, running, dropped>>
        BY <1>1, <1>4, <2>3
      <3>2. QED
        BY <1>1, <1>2, <2>1, <2>2, <2>3, <3>1, CollectKeeps, Zenon
    <2>4. CASE ~HasSlot(q)
      <3>1. dropped' = dropped \cup {q} /\ UNCHANGED <<slots, buffer, log>>
        BY <1>4, <2>4
      <3>2. \A p \in Procs \ dropped' : PayloadOf(p, pipe') = PayloadOf(p, pipe)
        BY <1>1, <1>2, <2>2, <3>1, ChunkTakenOut
      <3>3. Pending' /\ WholeLines'
        BY <1>1, <2>2, <3>1 DEF SInv, Pending, WholeLines
      <3>4. ASSUME NEW p \in Procs \ dropped'
            PROVE  Accounted(p)' /\ (p \notin torn' => Chained(Stream(p)'))
        <4>1. Accounted(p) /\ (p \notin torn => Chained(Stream(p)))
          BY <1>1, <2>2, <3>1 DEF SInv, Ordered
        <4>2. PayloadOf(p, pipe') = PayloadOf(p, pipe)
          BY <3>2
        <4>3. Accounted(p)'
          BY <1>1, <3>1, <4>1, <4>2 DEF Accounted
        <4>4. Stream(p)' = Stream(p)
          BY <1>1, <3>1, <4>2 DEF Stream
        <4>5. QED
          BY <1>1, <4>1, <4>3, <4>4
      <3>5. QED
        BY <3>3, <3>4 DEF Ordered
    <2>5. QED
      BY <2>3, <2>4
  <1>14. QED
    <2>1. SInv' <=> /\ Typed' /\ Chunks' /\ Aligned' /\ Unsent' /\ DroppedForGood'
                    /\ Unmerged'
      BY DEF SInv, Unmerged, Pending, Ordered, WholeLines
    <2>2. QED
      BY <1>8, <1>9, <1>10, <1>11, <1>12, <1>13, <2>1

\* What a read does that does not find a chunk at its beginning: it was merged
\* before, so all that is left to show is that the table keeps its shape.
LEMMA StrayRead ==
  ASSUME SInv, Read, Front.kind # "head", UNCHANGED <<senders, merged, dropped, running>>,
         slots' \subseteq Pids, IsFiniteSet(slots'),
         Cardinality(slots') <= MAX_PENDING_CHUNKS,
         dropped # {} => slots' = slots,
         buffer' \in [Pids -> Seq(Parts)], log' \in Seq(Seq(Parts))
  PROVE  SInv'
  <1>1. /\ running /\ pipe # <<>> /\ UNCHANGED <<toSend, sent, written, torn>>
        /\ UNCHANGED <<merged, dropped, running>>
    BY DEF Read, senders
  <1>2. merged /\ merged'
    BY <1>1 DEF SInv, Aligned, IsHead, Front
  <1>3. /\ Len(pipe) \in Nat /\ Taken \in 1 .. Len(pipe) /\ pipe' \in Seq(Cells)
        /\ Len(pipe') = Len(pipe) - Taken
    BY ReadTakes, Zenon
  <1>4. Chunks' /\ Follow'
    BY ReadShifts
  <1>5. Typed'
    <2>1. Len(pipe') <= PipeSize
      BY <1>3, SyslogAssumption DEF SInv, Typed, TypeOK
    <2>2. \A i \in DOMAIN log' : log'[i] \in Seq(Parts)
      OBVIOUS
    <2>3. \A i \in DOMAIN pipe' :
            \/ pipe'[i] \in Parts
            \/ pipe'[i] = [kind |-> "tail"]
            \/ pipe'[i] \in [kind : {"head"}, pid : Procs,
                             len : 1 .. PIPE_MAX_PAYLOAD, last : BOOLEAN]
      BY <1>3, PipeTyped
    <2>4. /\ toSend' \in [Procs -> Seq(Parts)] /\ written' \in [Procs -> Seq(Parts)]
          /\ sent' \in 0 .. MaxSent /\ torn' \subseteq Procs /\ running' \in BOOLEAN
          /\ dropped' \subseteq Procs /\ merged' \in BOOLEAN
      BY <1>1 DEF SInv, Typed, TypeOK
    <2>5. QED
      BY <1>3, <2>1, <2>2, <2>3, <2>4, Zenon DEF Typed, TypeOK
  <1>6. Aligned' /\ Unmerged'
    BY <1>2, <1>4 DEF Aligned, Follow, Unmerged
  <1>7. Unsent'
    BY <1>1 DEF SInv, Unsent
  <1>8. DroppedForGood'
    BY <1>1 DEF SInv, DroppedForGood
  <1>9. SInv' <=> /\ Typed' /\ Chunks' /\ Aligned' /\ Unsent' /\ DroppedForGood'
                  /\ Unmerged'
    BY DEF SInv, Unmerged, Pending, Ordered, WholeLines
  <1>10. QED
    BY <1>4, <1>5, <1>6, <1>7, <1>8, <1>9

LEMMA RejectKeepsInv ==
  ASSUME SInv, RejectRead
  PROVE  SInv'
  <1>1. /\ Read /\ Front.kind # "head"
        /\ UNCHANGED <<senders, merged, dropped, running, slots, buffer, log>>
    BY DEF RejectRead, reader
  <1>2. /\ slots \subseteq Pids /\ IsFiniteSet(slots)
        /\ Cardinality(slots) <= MAX_PENDING_CHUNKS
        /\ buffer \in [Pids -> Seq(Parts)] /\ log \in Seq(Seq(Parts))
    BY DEF SInv, Typed, TypeOK
  <1>3. QED
    BY <1>1, <1>2, StrayRead

LEMMA MisreadKeepsInv ==
  ASSUME SInv, MisreadChunk
  PROVE  SInv'
  <1>1. /\ Read /\ Front.kind # "head" /\ running
        /\ UNCHANGED <<senders, merged, dropped, running>>
    BY DEF MisreadChunk, Read
  <1>2. /\ slots \subseteq Pids /\ IsFiniteSet(slots)
        /\ Cardinality(slots) <= MAX_PENDING_CHUNKS
        /\ buffer \in [Pids -> Seq(Parts)] /\ log \in Seq(Seq(Parts))
    BY DEF SInv, Typed, TypeOK
  <1>3. CASE HasSlot(OtherPid)
    <2>1. PICK last \in BOOLEAN : Collect(OtherPid, <<Junk>>, last)
      BY <1>3 DEF MisreadChunk
    <2>2. OtherPid \in Pids /\ <<Junk>> \in Seq(Parts)
      BY DEF Pids, Parts
    <2>3. /\ slots' \subseteq Pids /\ IsFiniteSet(slots')
          /\ Cardinality(slots') <= MAX_PENDING_CHUNKS
          /\ dropped # {} => slots' = slots
          /\ buffer' \in [Pids -> Seq(Parts)] /\ log' \in Seq(Seq(Parts))
      BY <1>1, <1>3, <2>1, <2>2, Collected
    <2>4. QED
      BY <1>1, <2>3, StrayRead
  <1>4. CASE ~HasSlot(OtherPid)
    <2>1. UNCHANGED <<slots, buffer, log>>
      BY <1>4 DEF MisreadChunk
    <2>2. QED
      BY <1>1, <1>2, <2>1, StrayRead
  <1>5. QED
    BY <1>3, <1>4

LEMMA StopKeepsInv ==
  ASSUME SInv, Stop
  PROVE  SInv'
  <1>1. /\ running' = FALSE /\ slots' = {} /\ buffer' = [p \in Pids |-> <<>>]
        /\ UNCHANGED <<pipe, toSend, sent, written, torn, log, merged, dropped>>
    BY DEF Stop, senders
  <1>2. IsFiniteSet({}) /\ Cardinality({}) = 0 /\ <<>> \in Seq(Parts)
    BY FS_EmptySet
  <1>3. buffer' \in [Pids -> Seq(Parts)] /\ \A p \in Procs : buffer'[p] = <<>>
    BY <1>1, <1>2 DEF Pids
  <1>4. Typed'
    <2>1. /\ slots' \subseteq Pids /\ IsFiniteSet(slots')
          /\ Cardinality(slots') <= MAX_PENDING_CHUNKS
      BY <1>1, <1>2, SyslogAssumption
    <2>2. running' \in BOOLEAN
      BY <1>1
    <2>3. QED
      BY <1>1, <1>3, <2>1, <2>2 DEF SInv, Typed, TypeOK
  <1>5. Chunks' /\ Aligned' /\ Unsent' /\ WholeLines'
    BY <1>1 DEF SInv, Chunks, Aligned, Unsent, WholeLines, IsHead, Behind
  <1>6. Pending' /\ DroppedForGood' /\ Ordered'
    BY <1>1, <1>3 DEF Pending, DroppedForGood, Ordered
  <1>7. QED
    BY <1>1, <1>4, <1>5, <1>6 DEF SInv

LEMMA NextKeepsInv ==
  ASSUME SInv, [Next]_vars
  PROVE  SInv'
  <1>1. CASE UNCHANGED vars
    BY <1>1 DEF vars, senders, reader, SInv, Typed, TypeOK, Chunks, Aligned, Unsent,
                Pending, DroppedForGood, Accounted, Ordered, Stream, WholeLines,
                IsHead, Behind
  <1>2. ASSUME NEW p \in Procs, SendMessage(p) \/ WriteChunk(p) \/ GiveUp(p)
        PROVE  SInv'
    BY <1>2, SendKeepsInv, WriteKeepsInv, GiveUpKeepsInv
  <1>3. CASE ReadChunk
    BY <1>3, ReadChunkKeepsInv
  <1>4. CASE RejectRead
    BY <1>4, RejectKeepsInv
  <1>5. CASE MisreadChunk
    BY <1>5, MisreadKeepsInv
  <1>6. CASE Stop
    BY <1>6, StopKeepsInv
  <1>7. QED
    BY <1>1, <1>2, <1>3, <1>4, <1>5, <1>6 DEF Next

-----------------------------------------------------------------------------
(* The theorems.                                                            *)

\* The invariant holds of every state, however writes, reads and failures of
\* the processes interleave.
THEOREM Invariance == Spec => []SInv
  <1>1. Init => SInv
    BY SInvHoldsInitially
  <1>2. SInv /\ [Next]_vars => SInv'
    BY NextKeepsInv
  <1>3. QED
    BY <1>1, <1>2, PTL DEF Spec

\* No payload is lost, repeated or reordered between a process and the log
\* while every read takes one chunk, and the syslogger gives out no more slots
\* than it has.
THEOREM StreamIsKept == Spec => []StreamKept
  <1>1. SInv => StreamKept
    BY DEF SInv, Typed, StreamKept
  <1>2. QED
    BY <1>1, Invariance, PTL

\* A line of the log is one message of one process while every read takes one
\* chunk, however the chunks of several processes interleave in the pipe.
THEOREM LinesAreWhole == Spec => []LinesAreMessages
  <1>1. SInv => LinesAreMessages
    BY DEF SInv, WholeLines, LinesAreMessages
  <1>2. QED
    BY <1>1, Invariance, PTL
===============================================================================
