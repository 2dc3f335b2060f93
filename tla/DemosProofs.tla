----------------------------- MODULE DemosProofs ----------------------------
(***************************************************************************)
(* The demos that share nothing, each for every value of its constants.     *)
(*   pipe_demo.c: the positions of the circular buffer agree with its       *)
(*     counter, and the buffer implements the queue of bytes; the child of  *)
(*     simulate_fifo leaves with all the messages.                          *)
(*   acl_demo: the lists hold what was granted and not taken back; the      *)
(*     search for memberships answers with their closure; the loops over a  *)
(*     list find the union of what its entries give; the list of the table  *)
(*     decides what a query may do.                                         *)
(*   EquivalenceClass: classes are disjoint, what is generated from them    *)
(*     follows from the clauses, and with the clauses that were skipped it  *)
(*     says as much as they do.                                             *)
(*   varlena.cpp: a text is always what its content makes it.               *)
(*   pg_interrupt_demo.c: no cancel is lost between the two flags, the      *)
(*     counters are up in their regions only, a query that was signalled in *)
(*     time stops, and protected regions are not cancelled.                 *)
(***************************************************************************)
EXTENDS PipeRing, PipeFifo, Acl, EquivClass, VarText, Interrupts,
        FiniteSetTheorems, SequenceTheorems, WellFoundedInduction, TLAPS

-----------------------------------------------------------------------------
(* Least elements, induction and recursion over the numbers up to n.        *)

LEMMA LeastExists ==
  ASSUME NEW T, T \subseteq Nat, T # {}
  PROVE  \E x \in T : \A y \in T : x <= y
  <1>1. \E x \in T : \A y \in T : ~ (<<y, x>> \in OpToRel(<, Nat))
    BY NatLessThanWellFounded, WFMin
  <1>2. PICK x \in T : \A y \in T : ~ (<<y, x>> \in OpToRel(<, Nat))
    BY <1>1
  <1>3. ASSUME NEW y \in T PROVE x <= y
    <2>1. x \in Nat /\ y \in Nat
      OBVIOUS
    <2>2. ~ (y < x)
      BY <1>2, <2>1 DEF OpToRel
    <2>3. QED
      BY <2>1, <2>2
  <1>4. QED
    BY <1>3

LEMMA UpTo ==
  ASSUME NEW n \in Nat, NEW T, 0 \in T, \A m \in 1 .. n : m - 1 \in T => m \in T
  PROVE  \A m \in 0 .. n : m \in T
  <1> SUFFICES ASSUME (0 .. n) \ T # {}
               PROVE  FALSE
    OBVIOUS
  <1>0. (0 .. n) \ T \subseteq Nat
    OBVIOUS
  <1>1. PICK m \in (0 .. n) \ T : \A k \in (0 .. n) \ T : m <= k
    BY <1>0, LeastExists
  <1>2. m # 0 /\ m \in 1 .. n /\ m - 1 \in 0 .. n
    BY <1>1
  <1>3. m - 1 \in T
    BY <1>1, <1>2
  <1>4. QED
    BY <1>1, <1>2, <1>3

Recurs(f, n, S, base, turn) ==
  /\ f \in [0 .. n -> S]
  /\ f[0] = base
  /\ \A i \in 1 .. n : f[i] = turn[i][f[i - 1]]

\* A function can be defined by recursion over 1 .. n.
LEMMA Recursion ==
  ASSUME NEW n \in Nat, NEW S, NEW base \in S, NEW turn \in [1 .. n -> [S -> S]]
  PROVE  \E f : Recurs(f, n, S, base, turn)
  <1> DEFINE Good(m, f) ==
               f[0] = base /\ \A i \in 1 .. m : f[i] = turn[i][f[i - 1]]
             T == {m \in 0 .. n : \E f \in [0 .. m -> S] : Good(m, f)}
  <1>1. 0 \in T
    <2>1. [i \in 0 .. 0 |-> base] \in [0 .. 0 -> S] /\ Good(0, [i \in 0 .. 0 |-> base])
      OBVIOUS
    <2>2. 0 \in 0 .. n
      OBVIOUS
    <2>3. \E f \in [0 .. 0 -> S] : Good(0, f)
      BY <2>1
    <2> HIDE DEF Good
    <2>4. QED
      BY <2>2, <2>3
  <1>2. ASSUME NEW m \in 1 .. n, m - 1 \in T
        PROVE  m \in T
    <2>1. PICK f \in [0 .. m - 1 -> S] : Good(m - 1, f)
      BY <1>2
    <2> DEFINE g == [i \in 0 .. m |-> IF i = m THEN turn[m][f[m - 1]] ELSE f[i]]
    <2>2. turn[m][f[m - 1]] \in S
      OBVIOUS
    <2>3. g \in [0 .. m -> S]
      BY <2>2
    <2>4. Good(m, g)
      <3>1. g[0] = base
        BY <2>1
      <3>2. ASSUME NEW i \in 1 .. m
            PROVE  g[i] = turn[i][g[i - 1]]
        <4>1. CASE i = m
          BY <4>1
        <4>2. CASE i # m
          <5>1. i \in 1 .. m - 1 /\ g[i] = f[i] /\ g[i - 1] = f[i - 1]
            BY <4>2
          <5>2. f[i] = turn[i][f[i - 1]]
            BY <2>1, <5>1
          <5>3. QED
            BY <5>1, <5>2
        <4>3. QED
          BY <4>1, <4>2
      <3>3. QED
        BY <3>1, <3>2
    <2>5. m \in 0 .. n
      OBVIOUS
    <2> HIDE DEF Good, g
    <2>6. QED
      BY <2>3, <2>4, <2>5
  <1>3. n \in T
    <2> HIDE DEF T
    <2>1. \A m \in 0 .. n : m \in T
      BY <1>1, <1>2, UpTo
    <2>2. QED
      BY <2>1
  <1>4. QED
    BY <1>3 DEF Recurs

-----------------------------------------------------------------------------
(* Arithmetic on the circle.                                                *)

LEMMA Division ==
  ASSUME NEW x \in Int
  PROVE  \E q \in Int : /\ x = BUFFER_SIZE * q + (x % BUFFER_SIZE)
                        /\ x % BUFFER_SIZE \in Positions
  <1> DEFINE q == x \div BUFFER_SIZE
  <1>1. q \in Int /\ x = BUFFER_SIZE * q + (x % BUFFER_SIZE)
    BY PipeAssumption
  <1>2. x % BUFFER_SIZE \in 0 .. BUFFER_SIZE - 1
    BY PipeAssumption
  <1>3. QED
    BY <1>1, <1>2 DEF Positions

\* A remainder is known by any division.
LEMMA Remainder ==
  ASSUME NEW x \in Int, NEW q \in Int, NEW r \in Positions,
         x = BUFFER_SIZE * q + r
  PROVE  x % BUFFER_SIZE = r
  <1>1. PICK p \in Int : /\ x = BUFFER_SIZE * p + (x % BUFFER_SIZE)
                         /\ x % BUFFER_SIZE \in Positions
    BY Division
  <1> DEFINE s == x % BUFFER_SIZE
  <1>2. s \in Int /\ 0 <= s /\ s < BUFFER_SIZE /\ r \in Int /\ 0 <= r /\ r < BUFFER_SIZE
    BY <1>1, PipeAssumption DEF Positions
  <1>3. x = BUFFER_SIZE * p + s
    BY <1>1
  <1> HIDE DEF s
  <1>4. BUFFER_SIZE * (q - p) = s - r
    BY <1>2, <1>3, PipeAssumption
  <1>5. CASE q - p >= 1
    <2>1. BUFFER_SIZE * (q - p) >= BUFFER_SIZE
      BY <1>5, PipeAssumption
    <2>2. QED
      BY <1>2, <1>4, <2>1, PipeAssumption
  <1>6. CASE q - p <= -1
    <2>1. BUFFER_SIZE * (q - p) <= -BUFFER_SIZE
      BY <1>6, PipeAssumption
    <2>2. QED
      BY <1>2, <1>4, <2>1, PipeAssumption
  <1>7. CASE q = p
    BY <1>2, <1>3, <1>7, PipeAssumption DEF s
  <1>8. QED
    BY <1>5, <1>6, <1>7

\* Whole turns do not matter.
LEMMA Turns ==
  ASSUME NEW x \in Int, NEW y \in Int, NEW t \in Int, x = y + BUFFER_SIZE * t
  PROVE  x % BUFFER_SIZE = y % BUFFER_SIZE
  <1>1. PICK q \in Int : /\ y = BUFFER_SIZE * q + (y % BUFFER_SIZE)
                         /\ y % BUFFER_SIZE \in Positions
    BY Division
  <1> DEFINE r == y % BUFFER_SIZE
  <1>2. r \in Positions /\ r \in Int /\ y = BUFFER_SIZE * q + r
    BY <1>1 DEF Positions
  <1> HIDE DEF r
  <1>3. x = BUFFER_SIZE * (q + t) + r
    BY <1>2, PipeAssumption
  <1>4. x % BUFFER_SIZE = r
    BY <1>2, <1>3, Remainder
  <1>5. QED
    BY <1>4 DEF r

LEMMA AfterInRange ==
  ASSUME NEW p \in Int, NEW n \in Int
  PROVE  After(p, n) \in Positions
  <1>1. p + n \in Int
    OBVIOUS
  <1>2. QED
    BY <1>1, Division DEF After

\* Moving on from a position that was reached.
LEMMA AfterAfter ==
  ASSUME NEW p \in Int, NEW m \in Int, NEW n \in Int
  PROVE  After(After(p, m), n) = After(p, m + n)
  <1>1. PICK q \in Int : p + m = BUFFER_SIZE * q + After(p, m)
    BY Division DEF After
  <1>2. After(p, m) \in Int
    BY AfterInRange DEF Positions
  <1>3. p + (m + n) = (After(p, m) + n) + BUFFER_SIZE * q
    BY <1>1, <1>2, PipeAssumption
  <1>4. (p + (m + n)) % BUFFER_SIZE = (After(p, m) + n) % BUFFER_SIZE
    BY <1>2, <1>3, Turns
  <1>5. QED
    BY <1>4 DEF After

\* How far one position is behind another.
LEMMA Distance ==
  ASSUME NEW p \in Int, NEW m \in Int, NEW n \in Int
  PROVE  (After(p, m) - After(p, n)) % BUFFER_SIZE = (m - n) % BUFFER_SIZE
  <1>1. PICK q \in Int : p + m = BUFFER_SIZE * q + After(p, m)
    BY Division DEF After
  <1>2. PICK t \in Int : p + n = BUFFER_SIZE * t + After(p, n)
    BY Division DEF After
  <1>3. After(p, m) \in Int /\ After(p, n) \in Int
    BY AfterInRange DEF Positions
  <1> DEFINE a == After(p, m)
             b == After(p, n)
  <1>4. /\ a \in Int /\ b \in Int
        /\ p + m = BUFFER_SIZE * q + a
        /\ p + n = BUFFER_SIZE * t + b
    BY <1>1, <1>2, <1>3
  <1> HIDE DEF a, b
  <1>5. m - n = (a - b) + BUFFER_SIZE * (q - t)
    BY <1>4, PipeAssumption
  <1>6. (m - n) % BUFFER_SIZE = (a - b) % BUFFER_SIZE
    BY <1>4, <1>5, Turns
  <1>7. QED
    BY <1>6 DEF a, b

\* A number that is not yet once around is its own remainder.
LEMMA Small ==
  ASSUME NEW n \in Positions
  PROVE  n % BUFFER_SIZE = n /\ (n - BUFFER_SIZE) % BUFFER_SIZE = n
  <1>1. n \in Int /\ n = BUFFER_SIZE * 0 + n
    BY PipeAssumption DEF Positions
  <1>2. n - BUFFER_SIZE \in Int /\ n - BUFFER_SIZE = BUFFER_SIZE * (-1) + n
    BY PipeAssumption DEF Positions
  <1>3. n % BUFFER_SIZE = n
    BY <1>1, Remainder
  <1>4. (n - BUFFER_SIZE) % BUFFER_SIZE = n
    BY <1>2, Remainder
  <1>5. QED
    BY <1>3, <1>4

LEMMA AfterNothing ==
  ASSUME NEW p \in Positions
  PROVE  After(p, 0) = p
  <1>1. p + 0 = p
    BY DEF Positions
  <1>2. QED
    BY <1>1, Small DEF After

-----------------------------------------------------------------------------
(* The invariant.                                                           *)

RingInv == PipeTypeOK /\ PositionsAgree

LEMMA PipeInitInv == PipeInit => RingInv
  <1> SUFFICES ASSUME PipeInit PROVE RingInv
    OBVIOUS
  <1>1. 0 \in Positions /\ 0 \in 0 .. BUFFER_SIZE
    BY PipeAssumption DEF Positions
  <1>2. ring \in [Positions -> Bytes] /\ passed \in Seq(Bytes)
    BY PipeAssumption DEF PipeInit
  <1>3. PipeTypeOK
    BY <1>1, <1>2 DEF PipeInit, PipeTypeOK
  <1>4. PositionsAgree
    BY <1>1, AfterNothing DEF PipeInit, PositionsAgree
  <1>5. QED
    BY <1>3, <1>4 DEF RingInv

\* What a request of Requests is.
LEMMA RequestType ==
  ASSUME NEW data \in Requests
  PROVE  data \in Seq(Bytes) /\ Len(data) \in 0 .. MaxCall
  <1>1. PICK n \in 0 .. MaxCall : data \in [1 .. n -> Bytes \ {NUL}]
    BY DEF Requests
  <1>2. n \in Nat
    BY <1>1, PipeAssumption
  <1>3. data \in [1 .. n -> Bytes]
    BY <1>1
  <1>4. data \in Seq(Bytes)
    BY <1>2, <1>3
  <1>5. Len(data) = n
    BY <1>1, <1>2
  <1>6. QED
    BY <1>1, <1>4, <1>5

\* The amount a write transfers, and what it stores.
LEMMA WriteFacts ==
  ASSUME RingInv, NEW data \in Seq(Bytes), PipeWrite(data)
  PROVE  \E n \in Nat :
           /\ n <= Len(data) /\ data_size + n <= BUFFER_SIZE
           /\ n = Transfer(Len(data), BUFFER_SIZE - data_size)
           /\ passed' = SubSeq(data, 1, n)
           /\ passed' \in Seq(Bytes) /\ Len(passed') = n
           /\ ring' = Stored(write_pos, passed')
           /\ write_pos' = After(write_pos, n)
           /\ data_size' = data_size + n
           /\ read_pos' = read_pos
  <1> DEFINE n == IF data_size >= BUFFER_SIZE THEN 0
                  ELSE Transfer(Len(data), BUFFER_SIZE - data_size)
  <1>1. data_size \in Nat /\ data_size <= BUFFER_SIZE /\ Len(data) \in Nat
    BY PipeAssumption DEF RingInv, PipeTypeOK
  <1>2. /\ n \in Nat /\ n <= Len(data) /\ data_size + n <= BUFFER_SIZE
        /\ n = Transfer(Len(data), BUFFER_SIZE - data_size)
    BY <1>1, PipeAssumption DEF Transfer
  <1>3. /\ passed' = SubSeq(data, 1, n)
        /\ ring' = Stored(write_pos, SubSeq(data, 1, n))
        /\ write_pos' = After(write_pos, n)
        /\ data_size' = data_size + n
        /\ read_pos' = read_pos
    BY DEF PipeWrite
  <1> HIDE DEF n
  <1>4. SubSeq(data, 1, n) \in Seq(Bytes) /\ Len(SubSeq(data, 1, n)) = n
    BY <1>1, <1>2
  <1>5. QED
    BY <1>2, <1>3, <1>4

LEMMA ReadFacts ==
  ASSUME RingInv, NEW max_len \in Nat, PipeRead(max_len)
  PROVE  \E n \in Nat :
           /\ n <= data_size
           /\ n = Transfer(max_len, data_size)
           /\ passed' = [k \in 1 .. n |-> ring[After(read_pos, k - 1)]]
           /\ read_pos' = After(read_pos, n)
           /\ data_size' = data_size - n
           /\ ring' = ring /\ write_pos' = write_pos
  <1> DEFINE n == IF data_size = 0 THEN 0 ELSE Transfer(max_len, data_size)
  <1>1. data_size \in Nat
    BY PipeAssumption DEF RingInv, PipeTypeOK
  <1>2. n \in Nat /\ n <= data_size /\ n = Transfer(max_len, data_size)
    BY <1>1 DEF Transfer
  <1>3. /\ passed' = [k \in 1 .. n |-> ring[After(read_pos, k - 1)]]
        /\ read_pos' = After(read_pos, n)
        /\ data_size' = data_size - n
        /\ ring' = ring /\ write_pos' = write_pos
    BY DEF PipeRead
  <1> HIDE DEF n
  <1>4. QED
    BY <1>2, <1>3

LEMMA WriteInv ==
  ASSUME RingInv, NEW data \in Seq(Bytes), PipeWrite(data)
  PROVE  RingInv'
  <1>1. PICK n \in Nat :
           /\ data_size + n <= BUFFER_SIZE
           /\ passed' \in Seq(Bytes) /\ Len(passed') = n
           /\ ring' = Stored(write_pos, passed')
           /\ write_pos' = After(write_pos, n)
           /\ data_size' = data_size + n
           /\ read_pos' = read_pos
    BY WriteFacts
  <1>2. /\ read_pos \in Int /\ write_pos \in Int /\ data_size \in Nat
        /\ read_pos \in Positions /\ write_pos \in Positions
        /\ ring \in [Positions -> Bytes]
    BY PipeAssumption DEF RingInv, PipeTypeOK, Positions
  <1>3. ring' \in [Positions -> Bytes]
    <2>1. ASSUME NEW q \in Positions, (q - write_pos) % BUFFER_SIZE < Len(passed')
          PROVE  passed'[((q - write_pos) % BUFFER_SIZE) + 1] \in Bytes
      <3>1. q - write_pos \in Int
        BY <1>2 DEF Positions
      <3>2. (q - write_pos) % BUFFER_SIZE \in Nat
        BY <3>1, Division DEF Positions
      <3>3. ((q - write_pos) % BUFFER_SIZE) + 1 \in 1 .. Len(passed')
        BY <1>1, <2>1, <3>2
      <3>4. QED
        BY <1>1, <3>3
    <2>2. QED
      BY <1>1, <1>2, <2>1 DEF Stored
  <1>4. read_pos' \in Positions /\ write_pos' \in Positions
    BY <1>1, <1>2, AfterInRange
  <1>5. data_size' \in 0 .. BUFFER_SIZE
    BY <1>1, <1>2, PipeAssumption
  <1>6. PositionsAgree'
    <2>1. write_pos' = After(After(read_pos, data_size), n)
      BY <1>1 DEF RingInv, PositionsAgree
    <2>2. write_pos' = After(read_pos, data_size + n)
      BY <1>2, <2>1, AfterAfter
    <2>3. After(read_pos, data_size)' = After(read_pos, data_size + n)
      BY <1>1 DEF After
    <2>4. QED
      BY <2>2, <2>3 DEF PositionsAgree
  <1>7. QED
    BY <1>1, <1>3, <1>4, <1>5, <1>6 DEF RingInv, PipeTypeOK

LEMMA ReadInv ==
  ASSUME RingInv, NEW max_len \in Nat, PipeRead(max_len)
  PROVE  RingInv'
  <1>1. PICK n \in Nat :
           /\ n <= data_size
           /\ passed' = [k \in 1 .. n |-> ring[After(read_pos, k - 1)]]
           /\ read_pos' = After(read_pos, n)
           /\ data_size' = data_size - n
           /\ ring' = ring /\ write_pos' = write_pos
    BY ReadFacts
  <1>2. /\ read_pos \in Int /\ data_size \in Nat /\ data_size <= BUFFER_SIZE
        /\ write_pos \in Positions /\ ring \in [Positions -> Bytes]
    BY PipeAssumption DEF RingInv, PipeTypeOK, Positions
  <1>3. passed' \in Seq(Bytes)
    <2>1. \A k \in 1 .. n : ring[After(read_pos, k - 1)] \in Bytes
      BY <1>2, AfterInRange
    <2>2. passed' \in [1 .. n -> Bytes]
      BY <1>1, <2>1
    <2>3. QED
      BY <2>2
  <1>4. read_pos' \in Positions
    BY <1>1, <1>2, AfterInRange
  <1>5. data_size' \in 0 .. BUFFER_SIZE
    BY <1>1, <1>2, PipeAssumption
  <1>6. PositionsAgree'
    <2>1. n + (data_size - n) = data_size /\ data_size - n \in Int
      BY <1>2
    <2>2. After(After(read_pos, n), data_size - n) = After(read_pos, n + (data_size - n))
      BY <1>2, <2>1, AfterAfter
    <2>3. write_pos = After(read_pos, data_size)
      BY DEF RingInv, PositionsAgree
    <2>4. After(read_pos, data_size)' = After(After(read_pos, n), data_size - n)
      BY <1>1 DEF After
    <2>5. QED
      BY <1>1, <2>1, <2>2, <2>3, <2>4 DEF PositionsAgree
  <1>7. QED
    BY <1>1, <1>2, <1>3, <1>4, <1>5, <1>6 DEF RingInv, PipeTypeOK

LEMMA PipeNextInv == RingInv /\ [PipeNext]_pipeVars => RingInv'
  <1> SUFFICES ASSUME RingInv, [PipeNext]_pipeVars PROVE RingInv'
    OBVIOUS
  <1>1. CASE \E data \in Requests : PipeWrite(data)
    BY <1>1, WriteInv, RequestType
  <1>2. CASE \E max_len \in 0 .. MaxCall : PipeRead(max_len)
    BY <1>2, ReadInv, PipeAssumption
  <1>3. CASE UNCHANGED pipeVars
    BY <1>3 DEF RingInv, PipeTypeOK, PositionsAgree, After, pipeVars
  <1>4. QED
    BY <1>1, <1>2, <1>3 DEF PipeNext

LEMMA PipeInvariance == PipeSpec => []RingInv
  BY PipeInitInv, PipeNextInv, PTL DEF PipeSpec

\* In every reachable state positions, counter and bytes have their types.
THEOREM PipeTyping == PipeSpec => []PipeTypeOK
  <1>1. RingInv => PipeTypeOK
    BY DEF RingInv
  <1>2. QED
    BY <1>1, PipeInvariance, PTL

\* pipe_write and pipe_read, which each move one position and change the
\* counter, keep the three in agreement.
THEOREM CounterIsDistance == PipeSpec => []PositionsAgree
  <1>1. RingInv => PositionsAgree
    BY DEF RingInv
  <1>2. QED
    BY <1>1, PipeInvariance, PTL
-----------------------------------------------------------------------------
(* The refinement.                                                          *)

LEMMA Joined ==
  ASSUME NEW S, NEW s \in Seq(S), NEW t \in Seq(S)
  PROVE  s \o t = [i \in 1 .. Len(s) + Len(t) |->
                     IF i <= Len(s) THEN s[i] ELSE t[i - Len(s)]]
  <1> DEFINE st == s \o t
  <1>1. /\ st \in Seq(S) /\ Len(st) = Len(s) + Len(t)
        /\ \A i \in 1 .. Len(s) + Len(t) :
             st[i] = IF i <= Len(s) THEN s[i] ELSE t[i - Len(s)]
    BY ConcatProperties
  <1> HIDE DEF st
  <1>2. st \in [1 .. Len(s) + Len(t) -> S]
    BY <1>1, LenProperties
  <1>3. st = [i \in 1 .. Len(s) + Len(t) |->
                IF i <= Len(s) THEN s[i] ELSE t[i - Len(s)]]
    BY <1>1, <1>2
  <1>4. QED
    BY <1>3 DEF st

LEMMA Dropped ==
  ASSUME NEW S, NEW s \in Seq(S), NEW n \in 0 .. Len(s)
  PROVE  SubSeq(s, n + 1, Len(s)) = [i \in 1 .. Len(s) - n |-> s[i + n]]
  <1> DEFINE rest == SubSeq(s, n + 1, Len(s))
  <1>1. Len(s) \in Nat /\ n \in Nat /\ n <= Len(s) /\ n + 1 \in Int /\ Len(s) \in Int
    OBVIOUS
  <1>2. \A i \in n + 1 .. Len(s) : s[i] \in S
    BY <1>1
  <1>3. /\ rest \in Seq(S)
        /\ Len(rest) = IF n + 1 <= Len(s) THEN Len(s) - (n + 1) + 1 ELSE 0
        /\ \A i \in 1 .. Len(s) - (n + 1) + 1 : rest[i] = s[(n + 1) + i - 1]
    BY <1>1, <1>2, SubSeqProperties
  <1> HIDE DEF rest
  <1>4. Len(rest) = Len(s) - n /\ \A i \in 1 .. Len(s) - n : rest[i] = s[i + n]
    <2>1. Len(rest) = Len(s) - n /\ Len(s) - (n + 1) + 1 = Len(s) - n
      BY <1>1, <1>3
    <2>2. \A i \in 1 .. Len(s) - n : rest[i] = s[(n + 1) + i - 1]
      BY <1>3, <2>1
    <2>3. \A i \in 1 .. Len(s) - n : (n + 1) + i - 1 = i + n
      BY <1>1
    <2>4. QED
      BY <2>1, <2>2, <2>3
  <1>5. rest \in [1 .. Len(s) - n -> S]
    BY <1>3, <1>4, LenProperties
  <1>6. rest = [i \in 1 .. Len(s) - n |-> s[i + n]]
    BY <1>4, <1>5
  <1>7. QED
    BY <1>6 DEF rest

LEMMA HeldType ==
  ASSUME RingInv
  PROVE  /\ Held \in Seq(Bytes) /\ Len(Held) = data_size
         /\ \A i \in 1 .. data_size : Held[i] = ring[After(read_pos, i - 1)]
  <1>1. /\ data_size \in Nat /\ read_pos \in Int /\ ring \in [Positions -> Bytes]
    BY PipeAssumption DEF RingInv, PipeTypeOK, Positions
  <1>2. \A i \in 1 .. data_size : ring[After(read_pos, i - 1)] \in Bytes
    BY <1>1, AfterInRange
  <1>3. Held \in [1 .. data_size -> Bytes]
    BY <1>2 DEF Held
  <1>4. Held \in Seq(Bytes)
    BY <1>1, <1>3
  <1>5. Len(Held) = data_size
    BY <1>1, <1>3
  <1>6. \A i \in 1 .. data_size : Held[i] = ring[After(read_pos, i - 1)]
    BY DEF Held
  <1>7. QED
    BY <1>4, <1>5, <1>6

\* A write leaves the bytes that are held alone and puts its own behind them.
LEMMA StoredBehind ==
  ASSUME RingInv, NEW s \in Seq(Bytes), data_size + Len(s) <= BUFFER_SIZE,
         NEW i \in 1 .. data_size + Len(s)
  PROVE  Stored(write_pos, s)[After(read_pos, i - 1)] =
           IF i <= data_size THEN ring[After(read_pos, i - 1)] ELSE s[i - data_size]
  <1> DEFINE q == After(read_pos, i - 1)
             k == (q - write_pos) % BUFFER_SIZE
  <1>1. /\ data_size \in Nat /\ read_pos \in Int /\ Len(s) \in Nat
        /\ i \in Int /\ i - 1 \in Int /\ BUFFER_SIZE \in Nat
    BY PipeAssumption DEF RingInv, PipeTypeOK, Positions
  <1>2. q \in Positions
    BY <1>1, AfterInRange
  <1>3. k = ((i - 1) - data_size) % BUFFER_SIZE
    BY <1>1, Distance DEF RingInv, PositionsAgree
  <1>4. Stored(write_pos, s)[q] = IF k < Len(s) THEN s[k + 1] ELSE ring[q]
    BY <1>2 DEF Stored
  <1> HIDE DEF q, k
  <1>5. CASE i <= data_size
    <2> DEFINE m == BUFFER_SIZE + ((i - 1) - data_size)
    <2>1. m \in Positions /\ m - BUFFER_SIZE = (i - 1) - data_size /\ m >= Len(s)
      BY <1>1, <1>5 DEF Positions
    <2> HIDE DEF m
    <2>2. k = m
      BY <1>3, <2>1, Small
    <2>3. ~(k < Len(s))
      BY <1>1, <2>1, <2>2 DEF Positions
    <2>4. QED
      BY <1>4, <1>5, <2>3 DEF q
  <1>6. CASE i > data_size
    <2> DEFINE m == (i - 1) - data_size
    <2>1. m \in Positions /\ m < Len(s) /\ m + 1 = i - data_size
      BY <1>1, <1>6 DEF Positions
    <2>2. k = m
      BY <1>3, <2>1, Small
    <2> HIDE DEF m
    <2>3. Stored(write_pos, s)[q] = s[i - data_size]
      BY <1>4, <2>1, <2>2
    <2>4. ~(i <= data_size)
      BY <1>1, <1>6
    <2>5. QED
      BY <2>3, <2>4 DEF q
  <1>7. QED
    BY <1>1, <1>5, <1>6

LEMMA WriteRefines ==
  ASSUME RingInv, RingInv', NEW data \in Seq(Bytes), PipeWrite(data)
  PROVE  Pipe!Write(data)
  <1>1. PICK n \in Nat :
           /\ n <= Len(data) /\ data_size + n <= BUFFER_SIZE
           /\ n = Transfer(Len(data), BUFFER_SIZE - data_size)
           /\ passed' = SubSeq(data, 1, n)
           /\ passed' \in Seq(Bytes) /\ Len(passed') = n
           /\ ring' = Stored(write_pos, passed')
           /\ data_size' = data_size + n
           /\ read_pos' = read_pos
    BY WriteFacts
  <1>2. data_size \in Nat
    BY PipeAssumption DEF RingInv, PipeTypeOK
  <1>3. /\ Held \in Seq(Bytes) /\ Len(Held) = data_size
        /\ \A i \in 1 .. data_size : Held[i] = ring[After(read_pos, i - 1)]
    BY HeldType
  <1>4. passed' = SubSeq(data, 1, Pipe!Least(Len(data), BUFFER_SIZE - Len(Held)))
    BY <1>1, <1>3 DEF Pipe!Least, Transfer
  <1>5. Held' = [i \in 1 .. data_size + n |->
                   Stored(write_pos, passed')[After(read_pos, i - 1)]]
    BY <1>1 DEF Held, After
  <1>6. Held \o passed' = [i \in 1 .. data_size + n |->
                    IF i <= data_size THEN Held[i] ELSE passed'[i - data_size]]
    <2>1. Held \in Seq(Bytes) /\ passed' \in Seq(Bytes)
      BY <1>1, <1>3
    <2>2. Held \o passed' = [i \in 1 .. Len(Held) + Len(passed') |->
             IF i <= Len(Held) THEN Held[i] ELSE passed'[i - Len(Held)]]
      BY <2>1, Joined, Zenon
    <2>3. Len(Held) = data_size /\ Len(passed') = n
      BY <1>1, <1>3
    <2>4. QED
      BY <2>2, <2>3, Zenon
  <1>7. ASSUME NEW i \in 1 .. data_size + n
        PROVE  Stored(write_pos, passed')[After(read_pos, i - 1)] =
                 IF i <= data_size THEN Held[i] ELSE passed'[i - data_size]
    <2>1. Stored(write_pos, passed')[After(read_pos, i - 1)] =
            IF i <= data_size THEN ring[After(read_pos, i - 1)]
            ELSE passed'[i - data_size]
      BY <1>1, StoredBehind
    <2>2. i <= data_size => Held[i] = ring[After(read_pos, i - 1)]
      BY <1>2, <1>3
    <2>3. QED
      BY <2>1, <2>2
  <1>8. Held' = Held \o passed'
    BY <1>5, <1>6, <1>7
  <1>9. QED
    BY <1>4, <1>8 DEF Pipe!Write

LEMMA ReadRefines ==
  ASSUME RingInv, NEW max_len \in Nat, PipeRead(max_len)
  PROVE  Pipe!Read(max_len)
  <1>1. PICK n \in Nat :
           /\ n <= data_size
           /\ n = Transfer(max_len, data_size)
           /\ passed' = [k \in 1 .. n |-> ring[After(read_pos, k - 1)]]
           /\ read_pos' = After(read_pos, n)
           /\ data_size' = data_size - n
           /\ ring' = ring
    BY ReadFacts
  <1>2. /\ data_size \in Nat /\ read_pos \in Int
    BY PipeAssumption DEF RingInv, PipeTypeOK, Positions
  <1>3. /\ Held \in Seq(Bytes) /\ Len(Held) = data_size
        /\ \A i \in 1 .. data_size : Held[i] = ring[After(read_pos, i - 1)]
    BY HeldType
  <1>4. passed' = SubSeq(Held, 1, n)
    <2>1. SubSeq(Held, 1, n) = [k \in 1 .. n |-> Held[k]]
      BY <1>1, <1>2, <1>3
    <2>2. \A k \in 1 .. n : Held[k] = ring[After(read_pos, k - 1)]
      BY <1>1, <1>2, <1>3
    <2>3. QED
      BY <1>1, <2>1, <2>2
  <1>5. n = Pipe!Least(max_len, Len(Held)) /\ Len(passed') = n
    BY <1>1, <1>3 DEF Pipe!Least, Transfer
  <1>6. Held' = SubSeq(Held, n + 1, data_size)
    <2>1. SubSeq(Held, n + 1, data_size) = [i \in 1 .. data_size - n |-> Held[i + n]]
      <3>1. Held \in Seq(Bytes) /\ n \in 0 .. Len(Held)
        BY <1>1, <1>2, <1>3
      <3>2. SubSeq(Held, n + 1, Len(Held)) = [i \in 1 .. Len(Held) - n |-> Held[i + n]]
        BY <3>1, Dropped, Zenon
      <3>3. QED
        BY <1>3, <3>2, Zenon
    <2>2. Held' = [i \in 1 .. data_size - n |->
                     ring[After(After(read_pos, n), i - 1)]]
      BY <1>1 DEF Held, After
    <2>3. ASSUME NEW i \in 1 .. data_size - n
          PROVE  ring[After(After(read_pos, n), i - 1)] = Held[i + n]
      <3>1. After(After(read_pos, n), i - 1) = After(read_pos, n + (i - 1))
        BY <1>2, AfterAfter
      <3>2. n + (i - 1) = (i + n) - 1 /\ i + n \in 1 .. data_size
        BY <1>1, <1>2
      <3>3. QED
        BY <1>3, <3>1, <3>2
    <2>4. QED
      BY <2>1, <2>2, <2>3
  <1>7. QED
    BY <1>3, <1>4, <1>5, <1>6 DEF Pipe!Read

LEMMA StepRefines ==
  RingInv /\ RingInv' /\ [PipeNext]_pipeVars => [Pipe!Next]_Pipe!vars
  <1> SUFFICES ASSUME RingInv, RingInv', [PipeNext]_pipeVars
               PROVE  [Pipe!Next]_Pipe!vars
    OBVIOUS
  <1>1. ASSUME NEW data \in Requests, PipeWrite(data)
        PROVE  Pipe!Next
    BY <1>1, RequestType, WriteRefines DEF Pipe!Next
  <1>2. ASSUME NEW max_len \in 0 .. MaxCall, PipeRead(max_len)
        PROVE  Pipe!Next
    BY <1>2, PipeAssumption, ReadRefines DEF Pipe!Next
  <1>3. CASE UNCHANGED pipeVars
    BY <1>3 DEF pipeVars, Pipe!vars, Held, After
  <1>4. QED
    BY <1>1, <1>2, <1>3 DEF PipeNext

\* Whatever is written and read in whatever portions, and wherever positions
\* wrap around: the circular buffer of pipe_demo.c implements the bounded
\* first-in first-out pipe of ByteQueue.
THEOREM RingIsAPipe == PipeSpec => IsAPipe
  <1>1. PipeInit => Pipe!Init
    BY DEF PipeInit, Pipe!Init, Held
  <1>2. RingInv /\ RingInv' /\ [PipeNext]_pipeVars => [Pipe!Next]_Pipe!vars
    BY StepRefines
  <1>3. QED
    BY <1>1, <1>2, PipeInvariance, PTL DEF PipeSpec, IsAPipe, Pipe!Spec

-----------------------------------------------------------------------------
(* The parent and the child of simulate_fifo.                               *)

\* What was received and what is in the pipe are the messages sent, in order;
\* every read has taken at least one of them; nobody leaves too early.
FifoInv ==
  /\ parent \in {"writing", "waiting", "done"} /\ child \in {"reading", "exited"}
  /\ sent \in 0 .. Messages /\ reads \in Nat
  /\ fifo \in Seq(Nat) /\ received \in Seq(Nat)
  /\ Len(received) + Len(fifo) = sent
  /\ \A i \in 1 .. Len(received) : received[i] = i
  /\ \A i \in 1 .. Len(fifo) : fifo[i] = Len(received) + i
  /\ reads <= Len(received)
  /\ parent # "writing" \/ child = "exited" => sent = Messages
  /\ child = "exited" => fifo = <<>>

LEMMA FifoInitInv == FifoInit => FifoInv
  BY FifoAssumption DEF FifoInit, FifoInv

LEMMA FifoStep ==
  ASSUME Reads >= Messages, FifoInv, [FifoNext]_fifoVars
  PROVE  FifoInv'
  <1>1. CASE ParentWrites
    <2>1. child = "reading"
      BY <1>1 DEF ParentWrites, FifoInv
    <2>2. /\ sent' = sent + 1 /\ fifo' = Append(fifo, sent + 1) /\ sent < Messages
          /\ UNCHANGED <<parent, child, reads, received>>
      BY <1>1, <2>1 DEF ParentWrites
    <2>3. /\ fifo' \in Seq(Nat) /\ Len(fifo') = Len(fifo) + 1
          /\ \A i \in 1 .. Len(fifo) : fifo'[i] = fifo[i]
          /\ fifo'[Len(fifo) + 1] = sent + 1
      BY <2>2, AppendProperties DEF FifoInv
    <2>4. \A i \in 1 .. Len(fifo') : fifo'[i] = Len(received') + i
      <3> SUFFICES ASSUME NEW i \in 1 .. Len(fifo')
                   PROVE  fifo'[i] = Len(received') + i
        OBVIOUS
      <3>1. Len(fifo) \in Nat /\ Len(received) \in Nat /\ Len(received') = Len(received)
        BY <2>2, LenProperties DEF FifoInv
      <3>2. CASE i \in 1 .. Len(fifo)
        <4>1. fifo'[i] = fifo[i]
          BY <2>3, <3>2
        <4>2. fifo[i] = Len(received) + i
          BY <3>2 DEF FifoInv
        <4>3. QED
          BY <3>1, <4>1, <4>2
      <3>3. CASE i = Len(fifo) + 1
        <4>1. fifo'[i] = sent + 1
          BY <2>3, <3>3
        <4>2. sent = Len(received) + Len(fifo)
          BY DEF FifoInv
        <4>3. QED
          BY <3>1, <3>3, <4>1, <4>2
      <3>4. QED
        BY <2>3, <3>1, <3>2, <3>3
    <2>5. QED
      BY <2>1, <2>2, <2>3, <2>4, FifoAssumption, LenProperties DEF FifoInv
  <1>2. CASE ParentCloses
    BY <1>2 DEF ParentCloses, FifoInv
  <1>3. CASE ParentEnds
    BY <1>3 DEF ParentEnds, FifoInv
  <1>4. CASE ChildReads
    <2>1. /\ received' = received \o fifo /\ fifo' = <<>> /\ reads' = reads + 1
          /\ child' = (IF reads' = Reads THEN "exited" ELSE "reading")
          /\ fifo # <<>> /\ UNCHANGED <<parent, sent>>
      BY <1>4 DEF ChildReads, IsLastRead
    <2>2. Len(fifo) \in Nat /\ Len(fifo) > 0 /\ Len(received) \in Nat
      BY <2>1, EmptySeq, LenProperties DEF FifoInv
    <2>3. /\ received' \in Seq(Nat) /\ Len(received') = Len(received) + Len(fifo)
          /\ \A i \in 1 .. Len(received') :
               received'[i] = IF i <= Len(received) THEN received[i]
                              ELSE fifo[i - Len(received)]
      BY <2>1, ConcatProperties DEF FifoInv
    <2>4. \A i \in 1 .. Len(received') : received'[i] = i
      <3> SUFFICES ASSUME NEW i \in 1 .. Len(received')
                   PROVE  received'[i] = i
        OBVIOUS
      <3>1. CASE i \in 1 .. Len(received)
        <4>1. received'[i] = received[i]
          BY <2>2, <2>3, <3>1
        <4>2. received[i] = i
          BY <3>1 DEF FifoInv
        <4>3. QED
          BY <4>1, <4>2
      <3>2. CASE i - Len(received) \in 1 .. Len(fifo)
        <4>1. received'[i] = fifo[i - Len(received)]
          BY <2>2, <2>3, <3>2
        <4>2. fifo[i - Len(received)] = Len(received) + (i - Len(received))
          BY <3>2 DEF FifoInv
        <4>3. QED
          BY <2>2, <2>3, <4>1, <4>2
      <3>3. QED
        BY <2>2, <2>3, <3>1, <3>2
    <2>5. fifo' \in Seq(Nat) /\ Len(fifo') = 0
      BY <2>1
    <2>6. reads' \in Nat /\ reads' <= Len(received')
      BY <2>1, <2>2, <2>3 DEF FifoInv
    <2>7. child' = "exited" => sent' = Messages
      BY <2>1, <2>2, <2>3, <2>6, FifoAssumption DEF FifoInv
    <2>8. child' \in {"reading", "exited"}
      BY <2>1
    <2>9. QED
      BY <2>1, <2>2, <2>3, <2>4, <2>5, <2>6, <2>7, <2>8 DEF FifoInv
  <1>5. CASE ChildSeesEnd
    BY <1>5 DEF ChildSeesEnd, FifoInv
  <1>6. CASE UNCHANGED fifoVars
    BY <1>6 DEF fifoVars, FifoInv
  <1>7. QED
    BY <1>1, <1>2, <1>3, <1>4, <1>5, <1>6 DEF FifoNext

\* If the child may read as often as the parent writes, as five times is in
\* the code, it leaves with all messages, for any number of them.
THEOREM EnoughReads == Reads >= Messages => (FifoSpec => []ChildGetsAll)
  <1> SUFFICES ASSUME Reads >= Messages PROVE FifoSpec => []ChildGetsAll
    OBVIOUS
  <1>1. FifoInv /\ [FifoNext]_fifoVars => FifoInv'
    BY FifoStep
  <1>2. FifoInv => ChildGetsAll
    <2> SUFFICES ASSUME FifoInv, child = "exited"
                 PROVE  received = [i \in 1 .. Messages |-> i]
      BY DEF ChildGetsAll
    <2>1. Len(received) = Messages
      BY LenProperties DEF FifoInv
    <2>2. received = [i \in 1 .. Len(received) |-> received[i]]
      BY LenProperties DEF FifoInv
    <2>3. QED
      BY <2>1, <2>2 DEF FifoInv
  <1>3. QED
    BY <1>1, <1>2, FifoInitInv, PTL DEF FifoSpec

-----------------------------------------------------------------------------
(* The first entry of two parties.                                          *)

LEMMA EntryFound ==
  ASSUME AclTypeOK, NEW o \in Objects, NEW p \in Parties, Entry(o, p) # 0
  PROVE  Entry(o, p) \in DOMAIN acl[o] /\ ItemOf(acl[o][Entry(o, p)], p)
  <1> DEFINE found == {i \in DOMAIN acl[o] : ItemOf(acl[o][i], p)}
  <1>1. found # {}
    BY DEF Entry
  <1>2. acl[o] \in Seq(AclItem)
    BY DEF AclTypeOK
  <1>3. found \subseteq Nat
    BY <1>2, LenProperties
  <1>4. \E i \in found : \A j \in found : i <= j
    BY <1>1, <1>3, LeastExists
  <1>5. Entry(o, p) = CHOOSE i \in found : \A j \in found : i <= j
    BY <1>1 DEF Entry
  <1> HIDE DEF found
  <1>6. Entry(o, p) \in found
    BY <1>4, <1>5
  <1>7. QED
    BY <1>6 DEF found

LEMMA EntryMissing ==
  ASSUME AclTypeOK, NEW o \in Objects, NEW p \in Parties, Entry(o, p) = 0
  PROVE  \A i \in DOMAIN acl[o] : ~ItemOf(acl[o][i], p)
  <1> SUFFICES ASSUME NEW k \in DOMAIN acl[o], ItemOf(acl[o][k], p)
               PROVE  FALSE
    OBVIOUS
  <1> DEFINE found == {i \in DOMAIN acl[o] : ItemOf(acl[o][i], p)}
  <1>1. k \in found
    OBVIOUS
  <1>2. found \subseteq Nat \ {0}
    <2>1. acl[o] \in Seq(AclItem)
      BY DEF AclTypeOK
    <2>2. QED
      BY <2>1, LenProperties
  <1>3. \E i \in found : \A j \in found : i <= j
    BY <1>1, <1>2, LeastExists
  <1>4. Entry(o, p) = CHOOSE i \in found : \A j \in found : i <= j
    BY <1>1 DEF Entry
  <1> HIDE DEF found
  <1>5. Entry(o, p) \in found
    BY <1>3, <1>4
  <1>6. QED
    BY <1>2, <1>5

-----------------------------------------------------------------------------
(* LedgerKept for one list and one pair.                                    *)

KeptAt(list, p, granted) ==
  /\ \A x \in granted : \E i \in DOMAIN list :
       ItemOf(list[i], p) /\ x \in list[i].privs
  /\ \A i \in DOMAIN list :
       /\ ItemOf(list[i], p)
       /\ \A j \in DOMAIN list : ItemOf(list[j], p) => j = i
       => list[i].privs = granted

LEMMA KeptEverywhere ==
  LedgerKept <=> \A o \in Objects, p \in Parties : KeptAt(acl[o], p, ledger[o][p])
  <1> SUFFICES ASSUME NEW o \in Objects, NEW p \in Parties
               PROVE  /\ \A x \in ledger[o][p] :
                           \E i \in EntriesOf(o, p) : x \in acl[o][i].privs
                      /\ \A i \in EntriesOf(o, p) :
                           EntriesOf(o, p) = {i} => acl[o][i].privs = ledger[o][p]
                      <=> KeptAt(acl[o], p, ledger[o][p])
    BY DEF LedgerKept
  <1>1. \A i : i \in EntriesOf(o, p) <=> i \in DOMAIN acl[o] /\ ItemOf(acl[o][i], p)
    BY DEF EntriesOf
  <1>2. \A i \in EntriesOf(o, p) :
          EntriesOf(o, p) = {i} <=>
            \A j \in DOMAIN acl[o] : ItemOf(acl[o][j], p) => j = i
    BY <1>1
  <1>3. QED
    BY <1>1, <1>2 DEF KeptAt

LEMMA KeptEverywhereNext ==
  ASSUME \A o \in Objects, p \in Parties : KeptAt(acl'[o], p, ledger'[o][p])
  PROVE  LedgerKept'
  <1> SUFFICES ASSUME NEW o \in Objects, NEW p \in Parties
               PROVE  /\ \A x \in ledger'[o][p] :
                           \E i \in EntriesOf(o, p)' : x \in acl'[o][i].privs
                      /\ \A i \in EntriesOf(o, p)' :
                           EntriesOf(o, p)' = {i} => acl'[o][i].privs = ledger'[o][p]
    BY DEF LedgerKept
  <1>1. \A i : i \in EntriesOf(o, p)' <=> i \in DOMAIN acl'[o] /\ ItemOf(acl'[o][i], p)
    BY DEF EntriesOf, ItemOf
  <1>2. KeptAt(acl'[o], p, ledger'[o][p])
    OBVIOUS
  <1>3. QED
    BY <1>1, <1>2 DEF KeptAt

LEMMA KeptAfterAppend ==
  ASSUME NEW list \in Seq(AclItem), NEW item \in AclItem, NEW p, NEW granted,
         KeptAt(list, p, granted)
  PROVE  /\ ItemOf(item, p) => KeptAt(Append(list, item), p, granted \cup item.privs)
         /\ ~ItemOf(item, p) => KeptAt(Append(list, item), p, granted)
  <1> DEFINE longer == Append(list, item)
             n == Len(list) + 1
  <1>1. /\ DOMAIN longer = DOMAIN list \cup {n} /\ n \notin DOMAIN list
        /\ \A i \in DOMAIN list : longer[i] = list[i]
        /\ longer[n] = item
    BY AppendProperties, LenProperties
  <1> HIDE DEF longer, n
  <1>2. CASE ItemOf(item, p)
    <2>1. \A x \in granted \cup item.privs : \E i \in DOMAIN longer :
            ItemOf(longer[i], p) /\ x \in longer[i].privs
      BY <1>1, <1>2 DEF KeptAt
    <2>2. ASSUME NEW i \in DOMAIN longer, ItemOf(longer[i], p),
                 \A j \in DOMAIN longer : ItemOf(longer[j], p) => j = i
          PROVE  longer[i].privs = granted \cup item.privs
      <3>1. i = n
        BY <1>1, <1>2, <2>2
      <3>2. \A j \in DOMAIN list : ~ItemOf(list[j], p)
        BY <1>1, <2>2, <3>1
      <3>3. granted = {}
        BY <3>2 DEF KeptAt
      <3>4. QED
        BY <1>1, <3>1, <3>3
    <2>3. KeptAt(longer, p, granted \cup item.privs)
      BY <2>1, <2>2 DEF KeptAt
    <2>4. QED
      BY <1>2, <2>3 DEF longer
  <1>3. CASE ~ItemOf(item, p)
    <2>1. \A i \in DOMAIN longer : ItemOf(longer[i], p) => i \in DOMAIN list
      BY <1>1, <1>3
    <2>2. KeptAt(longer, p, granted)
      BY <1>1, <2>1 DEF KeptAt
    <2>3. QED
      BY <1>3, <2>2 DEF longer
  <1>4. QED
    BY <1>2, <1>3

\* Another mask in entry k, which is of the pair q.
LEMMA KeptAfterSet ==
  ASSUME NEW list \in Seq(AclItem), NEW k \in DOMAIN list, NEW q \in Parties,
         ItemOf(list[k], q), NEW new \in Modes, NEW p \in Parties, NEW granted,
         KeptAt(list, p, granted)
  PROVE  LET changed == [list EXCEPT ![k].privs = new]
         IN  /\ p # q => KeptAt(changed, p, granted)
             /\ \A privs : p = q /\ new = list[k].privs \cup privs
                  => KeptAt(changed, p, granted \cup privs)
             /\ \A privs : p = q /\ new = list[k].privs \ privs
                  => KeptAt(changed, p, granted \ privs)
  <1> DEFINE changed == [list EXCEPT ![k].privs = new]
  <1>1. DOMAIN changed = DOMAIN list
    OBVIOUS
  <1>2. \A i \in DOMAIN list : list[i] \in AclItem
    BY LenProperties
  <1>3. \A i \in DOMAIN list \ {k} : changed[i] = list[i]
    OBVIOUS
  <1>4. /\ changed[k].grantee = list[k].grantee
        /\ changed[k].grantor = list[k].grantor
        /\ changed[k].privs = new
    BY <1>2 DEF AclItem
  <1> HIDE DEF changed
  <1>5. \A i \in DOMAIN list, r \in Parties : ItemOf(changed[i], r) <=> ItemOf(list[i], r)
    BY <1>3, <1>4 DEF ItemOf
  <1>6. ASSUME p # q PROVE KeptAt(changed, p, granted)
    <2>1. ~ItemOf(list[k], p)
      BY <1>6 DEF ItemOf, Parties
    <2>2. QED
      BY <1>1, <1>3, <1>5, <2>1 DEF KeptAt
  <1>7. ASSUME NEW privs, p = q, new = list[k].privs \cup privs
        PROVE  KeptAt(changed, p, granted \cup privs)
    <2>1. ASSUME NEW x \in granted \cup privs
          PROVE  \E i \in DOMAIN changed : ItemOf(changed[i], p) /\ x \in changed[i].privs
      <3>1. CASE x \in privs
        BY <1>1, <1>4, <1>5, <1>7, <3>1
      <3>2. CASE x \in granted
        <4>1. PICK i \in DOMAIN list : ItemOf(list[i], p) /\ x \in list[i].privs
          BY <3>2 DEF KeptAt
        <4>2. x \in changed[i].privs
          BY <1>3, <1>4, <1>7, <4>1
        <4>3. QED
          BY <1>1, <1>5, <4>1, <4>2
      <3>3. QED
        BY <3>1, <3>2
    <2>2. ASSUME NEW i \in DOMAIN changed, ItemOf(changed[i], p),
                 \A j \in DOMAIN changed : ItemOf(changed[j], p) => j = i
          PROVE  changed[i].privs = granted \cup privs
      <3>1. i = k
        BY <1>1, <1>5, <1>7, <2>2
      <3>2. list[k].privs = granted
        BY <1>1, <1>5, <1>7, <2>2, <3>1 DEF KeptAt
      <3>3. QED
        BY <1>4, <1>7, <3>1, <3>2
    <2>3. QED
      BY <2>1, <2>2 DEF KeptAt
  <1>8. ASSUME NEW privs, p = q, new = list[k].privs \ privs
        PROVE  KeptAt(changed, p, granted \ privs)
    <2>1. ASSUME NEW x \in granted \ privs
          PROVE  \E i \in DOMAIN changed : ItemOf(changed[i], p) /\ x \in changed[i].privs
      <3>1. PICK i \in DOMAIN list : ItemOf(list[i], p) /\ x \in list[i].privs
        BY DEF KeptAt
      <3>2. x \in changed[i].privs
        BY <1>3, <1>4, <1>8, <3>1
      <3>3. QED
        BY <1>1, <1>5, <3>1, <3>2
    <2>2. ASSUME NEW i \in DOMAIN changed, ItemOf(changed[i], p),
                 \A j \in DOMAIN changed : ItemOf(changed[j], p) => j = i
          PROVE  changed[i].privs = granted \ privs
      <3>1. i = k
        BY <1>1, <1>5, <1>8, <2>2
      <3>2. list[k].privs = granted
        BY <1>1, <1>5, <1>8, <2>2, <3>1 DEF KeptAt
      <3>3. QED
        BY <1>4, <1>8, <3>1, <3>2
    <2>3. QED
      BY <2>1, <2>2 DEF KeptAt
  <1>9. QED
    BY <1>6, <1>7, <1>8 DEF changed

-----------------------------------------------------------------------------
(* Types.                                                                   *)

LEMMA InitType == AclInit => AclTypeOK
  <1> SUFFICES ASSUME AclInit PROVE AclTypeOK
    OBVIOUS
  <1>1. members \in [Roles -> Seq(Roles)]
    BY EmptySeq DEF AclInit
  <1>2. acl \in [Objects -> Seq(AclItem)]
    BY EmptySeq DEF AclInit
  <1>3. ledger \in [Objects -> [Parties -> Modes]]
    BY DEF AclInit, Modes
  <1>4. QED
    BY <1>1, <1>2, <1>3 DEF AclTypeOK

\* What AclNext passes to the calls.
LEMMA AskedAreModes == Asked \subseteq Modes
  BY AclAssumption DEF Modes

LEMMA ItemTyped ==
  ASSUME NEW p \in Parties, NEW privs \in Modes
  PROVE  [grantee |-> p[1], grantor |-> p[2], privs |-> privs] \in AclItem
  BY DEF Parties, AclItem

LEMMA LedgerTyped ==
  ASSUME AclTypeOK, NEW o \in Objects, NEW p \in Parties, NEW now \in Modes
  PROVE  [ledger EXCEPT ![o][p] = now] \in [Objects -> [Parties -> Modes]]
  BY DEF AclTypeOK

\* A function on the first numbers is a sequence.
LEMMA ListedIsSeq ==
  ASSUME NEW S, NEW n \in Nat, NEW f \in [1 .. n -> S]
  PROVE  f \in Seq(S)
  <1>1. f \in UNION {[1 .. k -> S] : k \in Nat}
    BY Zenon
  <1>2. QED
    BY <1>1, SeqDef, Zenon

LEMMA SetEntryTyped ==
  ASSUME AclTypeOK, NEW o \in Objects, NEW p \in Parties, NEW privs \in Modes,
         Entry(o, p) # 0, SetEntry(o, p, privs)
  PROVE  acl' \in [Objects -> Seq(AclItem)]
  <1> DEFINE k == Entry(o, p)
             item == [acl[o][k] EXCEPT !.privs = privs]
             changed == [acl[o] EXCEPT ![k] = item]
  <1>1. acl[o] \in Seq(AclItem) /\ k \in DOMAIN acl[o]
    BY EntryFound DEF AclTypeOK
  <1>2. acl[o][k] \in AclItem
    BY <1>1, LenProperties
  <1>3. item \in AclItem
    BY <1>2 DEF AclItem
  <1>4. changed \in Seq(AclItem)
    <2>1. changed \in [1 .. Len(acl[o]) -> AclItem] /\ Len(acl[o]) \in Nat
      BY <1>1, <1>3, LenProperties, SMTT(30)
    <2> HIDE DEF changed
    <2>2. QED
      BY <2>1, ListedIsSeq, Zenon
  <1>5. acl' = [acl EXCEPT ![o] = changed]
    BY DEF SetEntry
  <1>6. QED
    BY <1>4, <1>5 DEF AclTypeOK

-----------------------------------------------------------------------------
(* One call of each kind, from a well-typed state whose ledger is kept.     *)

AclInv == AclTypeOK /\ LedgerKept

LEMMA AddItemStep ==
  ASSUME AclInv, NEW o \in Objects, NEW p \in Parties, NEW privs \in Modes,
         AddItem(o, p, privs)
  PROVE  AclInv'
  <1> DEFINE item == [grantee |-> p[1], grantor |-> p[2], privs |-> privs]
  <1>1. item \in AclItem
    BY ItemTyped
  <1>2. /\ acl' = [acl EXCEPT ![o] = Append(acl[o], item)]
        /\ ledger' = [ledger EXCEPT ![o][p] = ledger[o][p] \cup privs]
        /\ members' = members
    <2>1. acl' = [acl EXCEPT ![o] = Append(acl[o], item)]
      BY DEF AddItem
    <2>2. ledger' = [ledger EXCEPT ![o][p] = ledger[o][p] \cup privs]
      BY DEF AddItem
    <2>3. members' = members
      BY DEF AddItem
    <2>4. QED
      BY <2>1, <2>2, <2>3
  <1>3. ItemOf(item, p) /\ \A r \in Parties : r # p => ~ItemOf(item, r)
    BY DEF ItemOf, Parties
  <1>4. item.privs = privs
    OBVIOUS
  <1> HIDE DEF item
  <1>5. acl[o] \in Seq(AclItem)
    BY DEF AclInv, AclTypeOK
  <1>6. AclTypeOK'
    <2>1. acl' \in [Objects -> Seq(AclItem)]
      BY <1>1, <1>2, <1>5, AppendProperties DEF AclInv, AclTypeOK
    <2>2. ledger[o][p] \cup privs \in Modes
      BY DEF AclInv, AclTypeOK, Modes
    <2>3. ledger' \in [Objects -> [Parties -> Modes]]
      BY <1>2, <2>2, LedgerTyped DEF AclInv
    <2>4. QED
      BY <1>2, <2>1, <2>3 DEF AclInv, AclTypeOK
  <1>7. ASSUME NEW u \in Objects, NEW r \in Parties
        PROVE  KeptAt(acl'[u], r, ledger'[u][r])
    <2>1. KeptAt(acl[u], r, ledger[u][r])
      BY KeptEverywhere DEF AclInv
    <2>2. CASE u # o
      <3>1. acl'[u] = acl[u] /\ ledger'[u] = ledger[u]
        BY <1>2, <2>2 DEF AclInv, AclTypeOK
      <3>2. QED
        BY <2>1, <3>1
    <2>3. CASE u = o /\ r = p
      <3>1. acl'[u] = Append(acl[o], item) /\ ledger'[u][r] = ledger[o][p] \cup privs
        BY <1>2, <2>3 DEF AclInv, AclTypeOK
      <3>2. QED
        BY <1>1, <1>3, <1>4, <1>5, <2>1, <2>3, <3>1, KeptAfterAppend
    <2>4. CASE u = o /\ r # p
      <3>1. acl'[u] = Append(acl[o], item) /\ ledger'[u][r] = ledger[o][r]
        BY <1>2, <2>4 DEF AclInv, AclTypeOK
      <3>2. QED
        BY <1>1, <1>3, <1>5, <2>1, <2>4, <3>1, KeptAfterAppend
    <2>5. QED
      BY <2>2, <2>3, <2>4
  <1>8. QED
    BY <1>6, <1>7, KeptEverywhereNext DEF AclInv

LEMMA ListsUnchanged ==
  ASSUME AclInv, UNCHANGED <<acl, ledger>>, members' \in [Roles -> Seq(Roles)]
  PROVE  AclInv'
  <1>1. AclTypeOK'
    BY DEF AclInv, AclTypeOK
  <1>2. \A o \in Objects, p \in Parties : KeptAt(acl'[o], p, ledger'[o][p])
    BY KeptEverywhere DEF AclInv
  <1>3. QED
    BY <1>1, <1>2, KeptEverywhereNext DEF AclInv

\* A mask in the first entry of a pair, with the same change of the ledger.
LEMMA SetEntryStep ==
  ASSUME AclInv, NEW o \in Objects, NEW p \in Parties, Entry(o, p) # 0,
         NEW new \in Modes, NEW now \in Modes, NEW x,
         \/ /\ new = acl[o][Entry(o, p)].privs \cup x
            /\ now = ledger[o][p] \cup x
         \/ /\ new = acl[o][Entry(o, p)].privs \ x
            /\ now = ledger[o][p] \ x,
         SetEntry(o, p, new), ledger' = [ledger EXCEPT ![o][p] = now],
         UNCHANGED members
  PROVE  AclInv'
  <1> DEFINE k == Entry(o, p)
             changed == [acl[o] EXCEPT ![k].privs = new]
  <1>1. k \in DOMAIN acl[o] /\ ItemOf(acl[o][k], p) /\ acl[o] \in Seq(AclItem)
    BY EntryFound DEF AclInv, AclTypeOK
  <1>2. acl' = [acl EXCEPT ![o] = changed]
    BY DEF SetEntry
  <1>3. AclTypeOK'
    <2>1. acl' \in [Objects -> Seq(AclItem)]
      BY SetEntryTyped DEF AclInv
    <2>2. ledger' \in [Objects -> [Parties -> Modes]]
      BY LedgerTyped DEF AclInv
    <2>3. QED
      BY <2>1, <2>2 DEF AclInv, AclTypeOK
  <1> HIDE DEF k
  <1>4. ASSUME NEW u \in Objects, NEW r \in Parties
        PROVE  KeptAt(acl'[u], r, ledger'[u][r])
    <2>1. KeptAt(acl[u], r, ledger[u][r])
      BY KeptEverywhere DEF AclInv
    <2>2. CASE u # o
      <3>1. acl'[u] = acl[u] /\ ledger'[u] = ledger[u]
        BY <1>2, <2>2 DEF AclInv, AclTypeOK
      <3>2. QED
        BY <2>1, <3>1
    <2>3. CASE u = o /\ r = p
      <3>1. acl'[u] = changed /\ ledger'[u][r] = now
        BY <1>2, <2>3 DEF AclInv, AclTypeOK
      <3>2. KeptAt(acl[o], p, ledger[o][p])
        BY <2>1, <2>3
      <3>3. \/ new = acl[o][k].privs \cup x /\ now = ledger[o][p] \cup x
            \/ new = acl[o][k].privs \ x /\ now = ledger[o][p] \ x
        BY DEF k
      <3>4. /\ \A privs : new = acl[o][k].privs \cup privs
                 => KeptAt(changed, p, ledger[o][p] \cup privs)
            /\ \A privs : new = acl[o][k].privs \ privs
                 => KeptAt(changed, p, ledger[o][p] \ privs)
        BY <1>1, <3>2, KeptAfterSet
      <3> HIDE DEF changed
      <3>5. KeptAt(changed, p, now)
        BY <3>3, <3>4
      <3>6. QED
        BY <2>3, <3>1, <3>5
    <2>4. CASE u = o /\ r # p
      <3>1. acl'[u] = changed /\ ledger'[u][r] = ledger[o][r]
        BY <1>2, <2>4 DEF AclInv, AclTypeOK
      <3>2. KeptAt(changed, r, ledger[o][r])
        BY <1>1, <2>1, <2>4, KeptAfterSet
      <3>3. QED
        BY <2>4, <3>1, <3>2
    <2>5. QED
      BY <2>2, <2>3, <2>4
  <1>5. QED
    BY <1>3, <1>4, KeptEverywhereNext DEF AclInv

LEMMA EntryModes ==
  ASSUME AclTypeOK, NEW o \in Objects, NEW p \in Parties
  PROVE  /\ ledger[o][p] \in Modes
         /\ Entry(o, p) # 0 => acl[o][Entry(o, p)].privs \in Modes
  <1>1. ledger[o][p] \in Modes
    BY DEF AclTypeOK
  <1>2. ASSUME Entry(o, p) # 0 PROVE acl[o][Entry(o, p)].privs \in Modes
    <2>1. acl[o] \in Seq(AclItem) /\ Entry(o, p) \in DOMAIN acl[o]
      BY <1>2, EntryFound DEF AclTypeOK
    <2>2. acl[o][Entry(o, p)] \in AclItem
      BY <2>1, LenProperties
    <2>3. QED
      BY <2>2 DEF AclItem
  <1>3. QED
    BY <1>1, <1>2

LEMMA GrantStep ==
  ASSUME AclInv, NEW o \in Objects, NEW p \in Parties, NEW privs \in Modes,
         Grant(o, p, privs)
  PROVE  AclInv'
  <1>1. CASE Entry(o, p) # 0
    <2> DEFINE new == acl[o][Entry(o, p)].privs \cup privs
               now == ledger[o][p] \cup privs
    <2>1. SetEntry(o, p, new) /\ UNCHANGED members
      BY <1>1 DEF Grant, Granted
    <2>2. ledger' = [ledger EXCEPT ![o][p] = now]
      BY <1>1 DEF Grant
    <2>3. new \in Modes /\ now \in Modes
      BY <1>1, EntryModes DEF AclInv, Modes
    <2>4. QED
      BY <1>1, <2>1, <2>2, <2>3, SetEntryStep
  <1>2. CASE Entry(o, p) = 0
    BY <1>2, AddItemStep DEF Grant
  <1>3. QED
    BY <1>1, <1>2

LEMMA RevokeStep ==
  ASSUME AclInv, NEW o \in Objects, NEW p \in Parties, NEW privs \in Modes,
         Revoke(o, p, privs)
  PROVE  AclInv'
  <1> DEFINE now == ledger[o][p] \ privs
  <1>1. ledger' = [ledger EXCEPT ![o][p] = now] /\ UNCHANGED members
    BY DEF Revoke
  <1>2. now \in Modes
    BY EntryModes DEF AclInv, Modes
  <1>3. CASE Entry(o, p) # 0
    <2> DEFINE new == acl[o][Entry(o, p)].privs \ privs
    <2>1. SetEntry(o, p, new)
      BY <1>3 DEF Revoke
    <2>2. new \in Modes
      BY <1>3, EntryModes DEF AclInv, Modes
    <2>3. QED
      BY <1>1, <1>2, <1>3, <2>1, <2>2, SetEntryStep
  <1>4. CASE Entry(o, p) = 0
    <2>1. acl' = acl
      BY <1>4 DEF Revoke
    <2>2. \A i \in DOMAIN acl[o] : ~ItemOf(acl[o][i], p)
      BY <1>4, EntryMissing DEF AclInv
    <2>3. KeptAt(acl[o], p, ledger[o][p])
      BY KeptEverywhere DEF AclInv
    <2>4. ledger[o][p] = {}
      BY <2>2, <2>3 DEF KeptAt
    <2>5. ledger' = ledger
      BY <1>1, <2>4 DEF AclInv, AclTypeOK
    <2>6. QED
      BY <1>1, <2>1, <2>5, ListsUnchanged DEF AclInv, AclTypeOK
  <1>5. QED
    BY <1>3, <1>4

LEMMA AddRoleMemberStep ==
  ASSUME AclInv, NEW r \in Roles, NEW m \in Roles, AddRoleMember(r, m)
  PROVE  AclInv'
  <1>1. members' = [members EXCEPT ![r] = Append(members[r], m)]
    BY DEF AddRoleMember
  <1>2. members[r] \in Seq(Roles)
    BY DEF AclInv, AclTypeOK
  <1>3. members' \in [Roles -> Seq(Roles)]
    BY <1>1, <1>2, AppendProperties DEF AclInv, AclTypeOK
  <1>4. UNCHANGED <<acl, ledger>>
    BY DEF AddRoleMember
  <1>5. QED
    BY <1>3, <1>4, ListsUnchanged

-----------------------------------------------------------------------------

LEMMA AclInitInv == AclInit => AclInv
  <1> SUFFICES ASSUME AclInit PROVE AclInv
    OBVIOUS
  <1>1. \A o \in Objects, p \in Parties : ledger[o][p] = {} /\ EntriesOf(o, p) = {}
    BY DEF AclInit, EntriesOf
  <1>2. QED
    BY <1>1, InitType DEF AclInv, LedgerKept

LEMMA StepInv == AclInv /\ [AclNext]_aclVars => AclInv'
  <1> SUFFICES ASSUME AclInv, [AclNext]_aclVars PROVE AclInv'
    OBVIOUS
  <1>1. ASSUME NEW r \in Roles, NEW m \in Roles, AddRoleMember(r, m)
        PROVE  AclInv'
    BY <1>1, AddRoleMemberStep
  <1>2. ASSUME NEW o \in Objects, NEW p \in Parties, NEW privs \in Asked,
               AddItem(o, p, privs) \/ Grant(o, p, privs) \/ Revoke(o, p, privs)
        PROVE  AclInv'
    BY <1>2, AskedAreModes, AddItemStep, GrantStep, RevokeStep
  <1>3. CASE UNCHANGED aclVars
    BY <1>3, ListsUnchanged DEF aclVars, AclInv, AclTypeOK
  <1>4. QED
    BY <1>1, <1>2, <1>3 DEF AclNext

\* The lists, the memberships and the ledger have their types.
THEOREM AclTyping == AclSpec => []AclTypeOK
  <1>1. AclInv => AclTypeOK
    BY DEF AclInv
  <1>2. QED
    BY <1>1, AclInitInv, StepInv, PTL DEF AclSpec

\* For any sequence of additions, grants and revokes by any grantors on the
\* table and its columns, an entry holds what was granted and not taken back.
THEOREM ListsFollowGrants == AclSpec => []LedgerKept
  <1>1. AclInv => LedgerKept
    BY DEF AclInv
  <1>2. QED
    BY <1>1, AclInitInv, StepInv, PTL DEF AclSpec

-----------------------------------------------------------------------------
(* Memberships.                                                             *)

\* A set of roles that has every role with a member in it.
Closed(S) ==
  S \subseteq Roles /\ \A t \in Roles : (\E i \in DOMAIN members[t] : members[t][i] \in S)
                                            => t \in S

LEMMA MemberClosed ==
  ASSUME NEW r, NEW target
  PROVE  IsMember(r, target) <=> \A S \in SUBSET Roles : r \in S /\ Closed(S) => target \in S
  BY DEF IsMember, Closed

LEMMA MemberSelf ==
  ASSUME NEW r
  PROVE  IsMember(r, r)
  BY DEF IsMember

LEMMA MemberTrans ==
  ASSUME NEW a, NEW b, NEW c, IsMember(a, b), IsMember(b, c)
  PROVE  IsMember(a, c)
  BY MemberClosed

\* Members of its members are members of a role.
LEMMA MemberUp ==
  ASSUME NEW r, NEW t \in Roles, NEW i \in DOMAIN members[t], IsMember(r, members[t][i])
  PROVE  IsMember(r, t)
  BY MemberClosed DEF Closed

\* Nothing else is.
LEMMA MemberDown ==
  ASSUME NEW r \in Roles, NEW t \in Roles, IsMember(r, t), r # t,
         members \in [Roles -> Seq(Roles)]
  PROVE  \E i \in DOMAIN members[t] : IsMember(r, members[t][i])
  <1> SUFFICES ASSUME \A i \in DOMAIN members[t] : ~IsMember(r, members[t][i])
               PROVE  FALSE
    OBVIOUS
  <1> DEFINE S == {x \in Roles : IsMember(r, x) /\ x # t}
  <1>1. r \in S
    BY MemberSelf
  <1>2. ASSUME NEW u \in Roles, NEW i \in DOMAIN members[u], members[u][i] \in S
        PROVE  u \in S
    <2>1. IsMember(r, u)
      BY <1>2, MemberUp
    <2>2. u # t
      BY <1>2
    <2>3. QED
      BY <2>1, <2>2
  <1>3. Closed(S)
    BY <1>2 DEF Closed
  <1>4. S \in SUBSET Roles /\ t \notin S
    OBVIOUS
  <1> HIDE DEF S
  <1>5. QED
    BY <1>1, <1>3, <1>4, MemberClosed

-----------------------------------------------------------------------------
(* The search of has_privs_of_role.                                         *)

Answers == {"yes", "no", "endless"}

Searches(r, has) ==
  /\ has \in [Calls -> Answers]
  /\ \A above \in SUBSET Roles, t \in Roles : has[<<above, t>>] = Answer(r, has, above, t)

LEMMA FirstIsOne ==
  ASSUME NEW t \in Roles, members \in [Roles -> Seq(Roles)],
         NEW D, D \subseteq DOMAIN members[t], D # {}
  PROVE  FirstOf(D) \in D
  <1>1. D \subseteq Nat
    <2>1. members[t] \in Seq(Roles)
      OBVIOUS
    <2>2. DOMAIN members[t] \subseteq Nat
      BY <2>1
    <2>3. QED
      BY <2>2
  <1>2. \E i \in D : \A j \in D : i <= j
    BY <1>1, LeastExists
  <1>3. QED
    BY <1>2 DEF FirstOf

LEMMA AnswerTyped ==
  ASSUME members \in [Roles -> Seq(Roles)], NEW r, NEW has \in [Calls -> Answers],
         NEW above \in SUBSET Roles, NEW t \in Roles
  PROVE  Answer(r, has, above, t) \in Answers
  <1> DEFINE answer == [i \in DOMAIN members[t] |-> has[<<above \cup {t}, members[t][i]>>]]
             decided == {i \in DOMAIN members[t] : answer[i] # "no"}
  <1>1. \A i \in DOMAIN members[t] : answer[i] \in Answers
    <2>1. ASSUME NEW i \in DOMAIN members[t]
          PROVE  answer[i] \in Answers
      <3>1. members[t][i] \in Roles /\ above \cup {t} \in SUBSET Roles
        OBVIOUS
      <3>2. <<above \cup {t}, members[t][i]>> \in Calls
        BY <3>1 DEF Calls
      <3>3. QED
        BY <3>2
    <2>2. QED
      BY <2>1
  <1>2. Answer(r, has, above, t) = IF t = r THEN "yes"
          ELSE IF t \in above THEN "endless"
          ELSE IF decided = {} THEN "no" ELSE answer[FirstOf(decided)]
    BY DEF Answer
  <1>3. decided # {} => FirstOf(decided) \in DOMAIN members[t]
    BY FirstIsOne
  <1> HIDE DEF answer, decided
  <1>4. QED
    BY <1>1, <1>2, <1>3 DEF Answers

\* The calls that a call may make answer the same in f and in g.
SameBelow(f, g, above, t) ==
  t \notin above =>
    \A i \in DOMAIN members[t] :
      f[<<above \cup {t}, members[t][i]>>] = g[<<above \cup {t}, members[t][i]>>]

LEMMA AnswerSame ==
  ASSUME NEW r, NEW f, NEW g, NEW above, NEW t, SameBelow(f, g, above, t)
  PROVE  Answer(r, f, above, t) = Answer(r, g, above, t)
  <1> DEFINE answer(h) == [i \in DOMAIN members[t] |-> h[<<above \cup {t}, members[t][i]>>]]
             decided(h) == {i \in DOMAIN members[t] : answer(h)[i] # "no"}
  <1>1. \A h : Answer(r, h, above, t) = IF t = r THEN "yes"
          ELSE IF t \in above THEN "endless"
          ELSE IF decided(h) = {} THEN "no" ELSE answer(h)[FirstOf(decided(h))]
    BY DEF Answer
  <1>2. t \notin above => answer(f) = answer(g)
    BY DEF SameBelow
  <1>3. t \notin above => decided(f) = decided(g)
    BY <1>2
  <1> HIDE DEF answer, decided
  <1>4. QED
    BY <1>1, <1>2, <1>3

LEMMA OneLess ==
  ASSUME NEW above \in SUBSET Roles, NEW t \in Roles \ above
  PROVE  /\ Cardinality(Roles \ above) \in Nat
         /\ Cardinality(Roles \ (above \cup {t})) \in Nat
         /\ Cardinality(Roles \ (above \cup {t})) = Cardinality(Roles \ above) - 1
  <1>1. IsFiniteSet(Roles \ above)
    BY AclAssumption, FS_Difference
  <1>2. Roles \ (above \cup {t}) = (Roles \ above) \ {t}
    OBVIOUS
  <1> DEFINE left == Roles \ above
  <1>3. IsFiniteSet(left) /\ t \in left
    BY <1>1
  <1> HIDE DEF left
  <1>4. /\ IsFiniteSet(left \ {t})
        /\ Cardinality(left \ {t}) = Cardinality(left) - 1
    BY <1>3, FS_RemoveElement
  <1>5. Cardinality(left) \in Nat /\ Cardinality(left \ {t}) \in Nat
    BY <1>3, <1>4, FS_CardinalityType
  <1>6. QED
    BY <1>2, <1>4, <1>5 DEF left

LEMMA RolesLeft ==
  ASSUME NEW above \in SUBSET Roles
  PROVE  /\ Cardinality(Roles \ above) \in 0 .. Cardinality(Roles)
         /\ Cardinality(Roles) \in Nat
         /\ Cardinality(Roles \ above) <= 0 => above = Roles
         /\ Cardinality(Roles \ above) <= Cardinality(Roles)
  <1>1. IsFiniteSet(Roles)
    BY AclAssumption
  <1>2. IsFiniteSet(Roles \ above) /\ Cardinality(Roles \ above) <= Cardinality(Roles)
    BY <1>1, FS_Subset
  <1>3. Cardinality(Roles) \in Nat /\ Cardinality(Roles \ above) \in Nat
    BY <1>1, <1>2, FS_CardinalityType
  <1>4. Cardinality(Roles \ above) = 0 => Roles \ above = {}
    BY <1>2, FS_EmptySet
  <1>5. Cardinality(Roles \ above) <= 0 => Cardinality(Roles \ above) = 0
    BY <1>3
  <1>6. QED
    BY <1>2, <1>3, <1>4, <1>5

\* What holds of a call when it holds of the calls it may make holds of all.
LEMMA CallInduction ==
  ASSUME NEW T,
         ASSUME NEW above \in SUBSET Roles, NEW t \in Roles,
                t \notin above => \A u \in Roles : <<above \cup {t}, u>> \in T
         PROVE  <<above, t>> \in T
  PROVE  Calls \subseteq T
  <1> DEFINE N == Cardinality(Roles)
             HoldsTo(k) == \A above \in SUBSET Roles :
                           Cardinality(Roles \ above) <= k =>
                             \A t \in Roles : <<above, t>> \in T
             K == {k \in 0 .. N : HoldsTo(k)}
  <1>0. N \in Nat
    BY RolesLeft
  <1>1. 0 \in K
    <2>1. ASSUME NEW above \in SUBSET Roles, Cardinality(Roles \ above) <= 0, NEW t \in Roles
          PROVE  <<above, t>> \in T
      <3>1. t \in above
        BY <2>1, RolesLeft
      <3>2. QED
        BY <3>1
    <2>2. HoldsTo(0)
      BY <2>1
    <2> HIDE DEF HoldsTo
    <2>3. QED
      BY <1>0, <2>2
  <1>2. ASSUME NEW k \in 1 .. N, k - 1 \in K
        PROVE  k \in K
    <2>1. ASSUME NEW above \in SUBSET Roles, Cardinality(Roles \ above) <= k, NEW t \in Roles
          PROVE  <<above, t>> \in T
      <3>1. ASSUME t \notin above
            PROVE  \A u \in Roles : <<above \cup {t}, u>> \in T
        <4>1. Cardinality(Roles \ (above \cup {t})) <= k - 1
          BY <2>1, <3>1, <1>0, OneLess
        <4>2. HoldsTo(k - 1) /\ above \cup {t} \in SUBSET Roles
          BY <1>2
        <4>3. QED
          BY <4>1, <4>2
      <3>2. QED
        BY <3>1
    <2>2. HoldsTo(k)
      BY <2>1
    <2> HIDE DEF HoldsTo
    <2>3. QED
      BY <1>0, <2>2
  <1>3. N \in K
    <2> HIDE DEF K, N
    <2>1. \A k \in 0 .. N : k \in K
      BY <1>0, <1>1, <1>2, UpTo
    <2>2. QED
      BY <1>0, <2>1
  <1>4. ASSUME NEW above \in SUBSET Roles, NEW t \in Roles
        PROVE  <<above, t>> \in T
    <2>1. HoldsTo(N)
      BY <1>3
    <2>2. Cardinality(Roles \ above) <= Cardinality(Roles)
      BY RolesLeft
    <2>3. QED
      BY <2>1, <2>2
  <1>5. QED
    BY <1>4 DEF Calls

\* The search is well defined.
LEMMA SearchExists ==
  ASSUME members \in [Roles -> Seq(Roles)], NEW r
  PROVE  \E has : Searches(r, has)
  <1> DEFINE N == Cardinality(Roles)
             S == [Calls -> Answers]
             Step(h) == [c \in Calls |-> Answer(r, h, c[1], c[2])]
             base == [c \in Calls |-> "no"]
             turn == [i \in 1 .. N + 2 |-> [h \in S |-> Step(h)]]
  <1>0. N \in Nat
    BY RolesLeft
  <1>1. \A h \in S : Step(h) \in S
    <2>1. ASSUME NEW h \in S, NEW c \in Calls
          PROVE  Answer(r, h, c[1], c[2]) \in Answers
      <3>1. c[1] \in SUBSET Roles /\ c[2] \in Roles
        BY DEF Calls
      <3>2. QED
        BY <3>1, AnswerTyped
    <2>2. QED
      BY <2>1
  <1>2. base \in S
    BY DEF Answers
  <1>3. turn \in [1 .. N + 2 -> [S -> S]]
    BY <1>1
  <1>4. PICK g : Recurs(g, N + 2, S, base, turn)
    <2> HIDE DEF S, turn, base, N
    <2>1. N + 2 \in Nat
      BY <1>0
    <2>2. QED
      BY <1>2, <1>3, <2>1, Recursion
  <1>5. \A i \in 0 .. N + 2 : g[i] \in S
    BY <1>4 DEF Recurs
  <1>6. \A i \in 1 .. N + 2 : g[i] = Step(g[i - 1])
    <2>1. ASSUME NEW i \in 1 .. N + 2
          PROVE  g[i] = Step(g[i - 1])
      <3>1. g[i] = turn[i][g[i - 1]]
        BY <1>4 DEF Recurs
      <3>2. i - 1 \in 0 .. N + 2
        BY <1>0
      <3>3. g[i - 1] \in S
        BY <1>5, <3>2
      <3>4. QED
        BY <3>1, <3>3
    <2>2. QED
      BY <2>1
  <1>7. \A j \in 0 .. N + 1, above \in SUBSET Roles, t \in Roles :
          g[j + 1][<<above, t>>] = Answer(r, g[j], above, t)
    <2>1. ASSUME NEW j \in 0 .. N + 1, NEW above \in SUBSET Roles, NEW t \in Roles
          PROVE  g[j + 1][<<above, t>>] = Answer(r, g[j], above, t)
      <3>1. j + 1 \in 1 .. N + 2 /\ j + 1 - 1 = j
        BY <1>0
      <3>2. g[j + 1] = Step(g[j])
        <4> HIDE DEF Step, N
        <4>1. g[j + 1] = Step(g[j + 1 - 1])
          BY <1>6, <3>1
        <4>2. QED
          BY <3>1, <4>1
      <3>3. <<above, t>> \in Calls
        BY DEF Calls
      <3>4. QED
        BY <3>2, <3>3
    <2>2. QED
      BY <2>1
  <1> DEFINE Settled(k) == \A above \in SUBSET Roles :
               Cardinality(Roles \ above) <= k =>
                 \A t \in Roles : g[k + 1][<<above, t>>] = g[k + 2][<<above, t>>]
             K == {k \in 0 .. N : Settled(k)}
  <1> HIDE DEF N, S, Step, base, turn
  <1>8. 0 \in K
    <2>1. ASSUME NEW above \in SUBSET Roles, Cardinality(Roles \ above) <= 0, NEW t \in Roles
          PROVE  g[0 + 1][<<above, t>>] = g[0 + 2][<<above, t>>]
      <3>1. t \in above
        BY <2>1, RolesLeft
      <3>2. Answer(r, g[0], above, t) = Answer(r, g[1], above, t)
        BY <3>1, AnswerSame DEF SameBelow
      <3>3. 0 \in 0 .. N + 1 /\ 1 \in 0 .. N + 1
        BY <1>0
      <3>4. g[0 + 1][<<above, t>>] = Answer(r, g[0], above, t)
        BY <1>7, <3>3
      <3>5. g[1 + 1][<<above, t>>] = Answer(r, g[1], above, t)
        BY <1>7, <3>3
      <3>6. QED
        BY <3>2, <3>4, <3>5
    <2>2. Settled(0)
      BY <2>1
    <2> HIDE DEF Settled
    <2>3. QED
      BY <1>0, <2>2
  <1>9. ASSUME NEW k \in 1 .. N, k - 1 \in K
        PROVE  k \in K
    <2>1. ASSUME NEW above \in SUBSET Roles, Cardinality(Roles \ above) <= k, NEW t \in Roles
          PROVE  g[k + 1][<<above, t>>] = g[k + 2][<<above, t>>]
      <3>0. /\ k \in 0 .. N + 1 /\ k + 1 \in 0 .. N + 1
            /\ k + 1 + 1 = k + 2
            /\ k - 1 + 1 = k /\ k - 1 + 2 = k + 1
        BY <1>0
      <3>1. ASSUME t \notin above, NEW i \in DOMAIN members[t]
            PROVE  g[k][<<above \cup {t}, members[t][i]>>]
                     = g[k + 1][<<above \cup {t}, members[t][i]>>]
        <4>1. Cardinality(Roles \ (above \cup {t})) <= k - 1
          BY <2>1, <3>1, <1>0, OneLess
        <4>2. above \cup {t} \in SUBSET Roles /\ members[t][i] \in Roles
          OBVIOUS
        <4>3. Settled(k - 1)
          BY <1>9
        <4>4. g[k - 1 + 1][<<above \cup {t}, members[t][i]>>]
                = g[k - 1 + 2][<<above \cup {t}, members[t][i]>>]
          BY <4>1, <4>2, <4>3
        <4>5. QED
          BY <3>0, <4>4
      <3> DEFINE f == g[k]
                 h == g[k + 1]
      <3>2. SameBelow(f, h, above, t)
        BY <3>1 DEF SameBelow
      <3> HIDE DEF f, h
      <3>3. Answer(r, f, above, t) = Answer(r, h, above, t)
        BY <3>2, AnswerSame
      <3>4. g[k + 1][<<above, t>>] = Answer(r, g[k], above, t)
        BY <1>7, <3>0
      <3>5. g[k + 1 + 1][<<above, t>>] = Answer(r, g[k + 1], above, t)
        BY <1>7, <3>0
      <3>6. QED
        BY <3>0, <3>3, <3>4, <3>5 DEF f, h
    <2>2. Settled(k)
      BY <2>1
    <2> HIDE DEF Settled
    <2>3. QED
      BY <1>0, <2>2
  <1>10. Settled(N)
    <2>1. \A k \in 0 .. N : k \in K
      <3> HIDE DEF K
      <3>1. QED
        BY <1>0, <1>8, <1>9, UpTo
    <2>2. N \in 0 .. N
      BY <1>0
    <2>3. N \in K
      BY <2>1, <2>2
    <2> HIDE DEF Settled
    <2>4. QED
      BY <2>3
  <1>11. ASSUME NEW above \in SUBSET Roles, NEW t \in Roles
         PROVE  g[N + 1][<<above, t>>] = Answer(r, g[N + 1], above, t)
    <2>1. Cardinality(Roles \ above) <= N
      <3>1. Cardinality(Roles \ above) <= Cardinality(Roles)
        BY RolesLeft
      <3>2. QED
        BY <3>1 DEF N
    <2>2. g[N + 1][<<above, t>>] = g[N + 2][<<above, t>>]
      BY <1>10, <2>1
    <2>3. N + 1 \in 0 .. N + 1 /\ N + 1 + 1 = N + 2
      BY <1>0
    <2>4. g[N + 1 + 1][<<above, t>>] = Answer(r, g[N + 1], above, t)
      BY <1>7, <2>3
    <2>5. QED
      BY <2>2, <2>3, <2>4
  <1>12. g[N + 1] \in [Calls -> Answers]
    BY <1>0, <1>5 DEF S
  <1>13. QED
    BY <1>11, <1>12 DEF Searches

TheSearch(r) == CHOOSE has : has = [call \in Calls |-> Answer(r, has, call[1], call[2])]

LEMMA SearchAnswers ==
  ASSUME members \in [Roles -> Seq(Roles)], NEW r
  PROVE  /\ Searches(r, TheSearch(r))
         /\ \A target : HasPrivsOfRole(r, target) = TheSearch(r)[<<{}, target>>]
  <1> DEFINE has == TheSearch(r)
  <1>1. \E f : f = [call \in Calls |-> Answer(r, f, call[1], call[2])]
    <2>1. PICK f : Searches(r, f)
      BY SearchExists
    <2>2. ASSUME NEW call \in Calls
          PROVE  f[call] = Answer(r, f, call[1], call[2])
      <3>1. call[1] \in SUBSET Roles /\ call[2] \in Roles /\ call = <<call[1], call[2]>>
        BY DEF Calls
      <3>2. f[<<call[1], call[2]>>] = Answer(r, f, call[1], call[2])
        BY <2>1, <3>1 DEF Searches
      <3>3. QED
        BY <3>1, <3>2
    <2>3. f = [call \in Calls |-> f[call]]
      BY <2>1 DEF Searches
    <2>4. QED
      BY <2>2, <2>3
  <1>2. has = [call \in Calls |-> Answer(r, has, call[1], call[2])]
    BY <1>1 DEF TheSearch
  <1>3. \A target : HasPrivsOfRole(r, target) = has[<<{}, target>>]
    BY DEF HasPrivsOfRole, TheSearch
  <1> HIDE DEF has
  <1>4. \A above \in SUBSET Roles, t \in Roles : has[<<above, t>>] = Answer(r, has, above, t)
    BY <1>2 DEF Calls
  <1> DEFINE T == {c \in Calls : has[c] \in Answers}
  <1>5. ASSUME NEW above \in SUBSET Roles, NEW t \in Roles,
               t \notin above => \A u \in Roles : <<above \cup {t}, u>> \in T
        PROVE  <<above, t>> \in T
    <2> DEFINE safe == [c \in Calls |-> IF has[c] \in Answers THEN has[c] ELSE "no"]
    <2>1. safe \in [Calls -> Answers]
      BY DEF Answers
    <2>2. ASSUME t \notin above, NEW i \in DOMAIN members[t]
          PROVE  has[<<above \cup {t}, members[t][i]>>] = safe[<<above \cup {t}, members[t][i]>>]
      <3>1. members[t][i] \in Roles
        OBVIOUS
      <3>2. <<above \cup {t}, members[t][i]>> \in T
        BY <1>5, <2>2, <3>1
      <3>3. QED
        BY <3>2
    <2> HIDE DEF safe, T
    <2>3. Answer(r, has, above, t) = Answer(r, safe, above, t)
      <3>1. SameBelow(has, safe, above, t)
        BY <2>2 DEF SameBelow
      <3>2. QED
        BY <3>1, AnswerSame
    <2>4. Answer(r, safe, above, t) \in Answers
      BY <2>1, AnswerTyped
    <2>5. has[<<above, t>>] \in Answers
      BY <1>4, <2>3, <2>4
    <2>6. QED
      BY <2>5 DEF Calls, T
  <1>6. Calls \subseteq T
    <2> HIDE DEF T
    <2>1. QED
      BY <1>5, CallInduction
  <1>7. has \in [Calls -> Answers]
    <2>1. \A call \in Calls : has[call] \in Answers
      BY <1>6
    <2>2. has = [call \in Calls |-> has[call]]
      BY <1>2
    <2>3. QED
      BY <2>1, <2>2
  <1>8. Searches(r, has)
    BY <1>4, <1>7 DEF Searches
  <1>9. QED
    BY <1>3, <1>8 DEF has

-----------------------------------------------------------------------------
(* What the search answers.                                                 *)

\* Every role under way has a member that t is the same as or a member of, and
\* all are below the target of the first call.
Chain(above, t, target) ==
  /\ IsMember(t, target)
  /\ \A a \in above : \E i \in DOMAIN members[a] : IsMember(t, members[a][i])

LEMMA ChainGrows ==
  ASSUME NEW above \in SUBSET Roles, NEW t \in Roles, NEW target,
         members \in [Roles -> Seq(Roles)],
         Chain(above, t, target), NEW k \in DOMAIN members[t]
  PROVE  Chain(above \cup {t}, members[t][k], target)
  <1> DEFINE m == members[t][k]
  <1>1. IsMember(m, t)
    BY MemberSelf, MemberUp
  <1>2. IsMember(m, target)
    BY <1>1, MemberTrans DEF Chain
  <1>3. ASSUME NEW a \in above
        PROVE  \E i \in DOMAIN members[a] : IsMember(m, members[a][i])
    <2>1. PICK i \in DOMAIN members[a] : IsMember(t, members[a][i])
      BY DEF Chain
    <2>2. IsMember(m, members[a][i])
      BY <1>1, <2>1, MemberTrans
    <2>3. QED
      BY <2>2
  <1>4. \E i \in DOMAIN members[t] : IsMember(m, members[t][i])
    BY MemberSelf
  <1>5. QED
    BY <1>2, <1>3, <1>4 DEF Chain

\* What an answer says of its call.
Right(r, target, above, t, answer) ==
  /\ answer = "yes" => IsMember(r, t)
  /\ answer = "no" => ~IsMember(r, t)
  /\ answer = "endless" /\ Chain(above, t, target) =>
       \E c \in Roles : InCycle(c) /\ IsMember(c, target)

LEMMA AnswersRight ==
  ASSUME members \in [Roles -> Seq(Roles)], NEW r \in Roles, NEW target,
         NEW has, Searches(r, has)
  PROVE  \A above \in SUBSET Roles, t \in Roles :
           Right(r, target, above, t, has[<<above, t>>])
  <1> DEFINE T == {c \in Calls : Right(r, target, c[1], c[2], has[c])}
  <1>1. ASSUME NEW above \in SUBSET Roles, NEW t \in Roles,
               t \notin above => \A u \in Roles : <<above \cup {t}, u>> \in T
        PROVE  <<above, t>> \in T
    <2> DEFINE answer == [i \in DOMAIN members[t] |->
                            has[<<above \cup {t}, members[t][i]>>]]
               decided == {i \in DOMAIN members[t] : answer[i] # "no"}
               full == has[<<above, t>>]
    <2>1. full = IF t = r THEN "yes"
            ELSE IF t \in above THEN "endless"
            ELSE IF decided = {} THEN "no" ELSE answer[FirstOf(decided)]
      <3>1. full = Answer(r, has, above, t)
        BY DEF Searches
      <3>2. Answer(r, has, above, t) = IF t = r THEN "yes"
              ELSE IF t \in above THEN "endless"
              ELSE IF decided = {} THEN "no" ELSE answer[FirstOf(decided)]
        BY DEF Answer
      <3> HIDE DEF full, answer, decided
      <3>3. QED
        BY <3>1, <3>2
    <2>2. t \notin above => \A i \in DOMAIN members[t] :
            Right(r, target, above \cup {t}, members[t][i], answer[i])
      <3>1. ASSUME t \notin above, NEW i \in DOMAIN members[t]
            PROVE  Right(r, target, above \cup {t}, members[t][i], answer[i])
        <4>1. members[t][i] \in Roles
          OBVIOUS
        <4>2. <<above \cup {t}, members[t][i]>> \in T
          BY <1>1, <3>1, <4>1
        <4>3. QED
          BY <4>2
      <3>2. QED
        BY <3>1
    <2>3. decided # {} => FirstOf(decided) \in decided
      BY FirstIsOne
    <2> DEFINE i == FirstOf(decided)
    <2>4. \A j \in DOMAIN members[t] : answer[j] # "no" <=> j \in decided
      OBVIOUS
    <2>5. i \in decided => i \in DOMAIN members[t]
      OBVIOUS
    <2> HIDE DEF answer, decided, full, i, T
    <2>6. Right(r, target, above, t, full)
      <3>1. CASE t = r
        BY <2>1, <3>1, MemberSelf DEF Right
      <3>2. CASE t # r /\ t \in above
        <4>1. full = "endless"
          BY <2>1, <3>2
        <4>2. Chain(above, t, target) => InCycle(t) /\ IsMember(t, target)
          BY <3>2 DEF Chain, InCycle
        <4>3. QED
          BY <4>1, <4>2 DEF Right
      <3>3. CASE t # r /\ t \notin above /\ decided = {}
        <4>1. full = "no"
          BY <2>1, <3>3
        <4>2. ASSUME NEW j \in DOMAIN members[t]
              PROVE  ~IsMember(r, members[t][j])
          BY <2>2, <2>4, <3>3, <4>2 DEF Right
        <4>3. ~IsMember(r, t)
          BY <3>3, <4>2, MemberDown
        <4>4. QED
          BY <4>1, <4>3 DEF Right
      <3>4. CASE t # r /\ t \notin above /\ decided # {}
        <4>1. i \in DOMAIN members[t] /\ full = answer[i] /\ full # "no"
          BY <2>1, <2>3, <2>4, <2>5, <3>4 DEF i
        <4>2. Right(r, target, above \cup {t}, members[t][i], full)
          BY <2>2, <3>4, <4>1
        <4>3. full = "yes" => IsMember(r, t)
          BY <4>1, <4>2, MemberUp DEF Right
        <4>4. Chain(above, t, target) => Chain(above \cup {t}, members[t][i], target)
          BY <4>1, ChainGrows
        <4>5. QED
          BY <4>1, <4>2, <4>3, <4>4 DEF Right
      <3>5. QED
        BY <3>1, <3>2, <3>3, <3>4
    <2>7. QED
      BY <2>6 DEF T, full, Calls
  <1>2. Calls \subseteq T
    <2> HIDE DEF T
    <2>1. QED
      BY <1>1, CallInduction
  <1>3. QED
    BY <1>2 DEF Calls

LEMMA RolesAnswerTyped == AclTypeOK => RolesAnswer
  <1> SUFFICES ASSUME AclTypeOK, NEW r \in Roles, NEW target \in Roles
               PROVE  CASE HasPrivsOfRole(r, target) = "yes" -> IsMember(r, target)
                        [] HasPrivsOfRole(r, target) = "no"  -> ~IsMember(r, target)
                        [] OTHER -> \E t \in Roles : InCycle(t) /\ IsMember(t, target)
    BY DEF RolesAnswer
  <1> DEFINE answer == HasPrivsOfRole(r, target)
  <1>0. members \in [Roles -> Seq(Roles)]
    BY DEF AclTypeOK
  <1>1. Searches(r, TheSearch(r)) /\ answer = TheSearch(r)[<<{}, target>>]
    BY <1>0, SearchAnswers
  <1>2. answer \in Answers
    <2>1. <<{}, target>> \in Calls
      BY DEF Calls
    <2>2. QED
      BY <1>1, <2>1 DEF Searches
  <1>3. Right(r, target, {}, target, answer)
    <2>1. {} \in SUBSET Roles
      OBVIOUS
    <2>2. Right(r, target, {}, target, TheSearch(r)[<<{}, target>>])
      BY <1>0, <1>1, <2>1, AnswersRight
    <2>3. QED
      BY <1>1, <2>2
  <1>4. Chain({}, target, target)
    BY MemberSelf DEF Chain
  <1> HIDE DEF answer
  <1>5. CASE answer = "yes"
    <2>1. IsMember(r, target)
      BY <1>3, <1>5 DEF Right
    <2>2. QED
      BY <1>5, <2>1 DEF answer
  <1>6. CASE answer = "no"
    <2>1. ~IsMember(r, target)
      BY <1>3, <1>6 DEF Right
    <2>2. answer # "yes"
      BY <1>6
    <2>3. QED
      BY <1>6, <2>1, <2>2 DEF answer
  <1>7. CASE answer = "endless"
    <2>1. \E t \in Roles : InCycle(t) /\ IsMember(t, target)
      BY <1>3, <1>4, <1>7 DEF Right
    <2>2. answer # "yes" /\ answer # "no"
      BY <1>7
    <2>3. QED
      BY <2>1, <2>2 DEF answer
  <1>8. QED
    BY <1>2, <1>5, <1>6, <1>7 DEF Answers

-----------------------------------------------------------------------------
(* The loops of aclmask.                                                    *)

\* The two functions of MaskOf.
DirectOf(items, r, mask, how, start) ==
  CHOOSE f : f = [i \in 0 .. Len(items) |->
                    IF i = 0 THEN start
                    ELSE CollectDirect(f[i - 1], items[i], r, mask, how)]

AllOf(items, r, mask, how, start) ==
  CHOOSE f : f = [i \in 0 .. Len(items) |->
                    IF i = 0 THEN start
                    ELSE CollectIndirect(f[i - 1], items[i], r, mask, how)]

LEMMA MaskOfIs ==
  ASSUME NEW items, NEW r, NEW mask, NEW how, NEW start
  PROVE  MaskOf(items, r, mask, how, start) =
           AllOf(items, r, mask, how,
                 DirectOf(items, r, mask, how, start)[Len(items)])[Len(items)]
  BY DEF MaskOf, AllOf, DirectOf

\* What the functions are, one entry after another.
ScansDirect(f, items, r, mask, how, start) ==
  /\ f \in [0 .. Len(items) -> SUBSET mask]
  /\ f[0] = start
  /\ \A i \in 1 .. Len(items) : f[i] = CollectDirect(f[i - 1], items[i], r, mask, how)

ScansAll(f, items, r, mask, how, start) ==
  /\ f \in [0 .. Len(items) -> SUBSET mask]
  /\ f[0] = start
  /\ \A i \in 1 .. Len(items) : f[i] = CollectIndirect(f[i - 1], items[i], r, mask, how)

LEMMA DirectScans ==
  ASSUME NEW items, Len(items) \in Nat, NEW r, NEW mask, NEW how,
         NEW start \in SUBSET mask
  PROVE  ScansDirect(DirectOf(items, r, mask, how, start), items, r, mask, how, start)
  <1> DEFINE n == Len(items)
             S == SUBSET mask
             Step(i, result) == CollectDirect(result, items[i], r, mask, how)
             turn == [i \in 1 .. n |-> [result \in S |-> Step(i, result)]]
             Whole(f) == [i \in 0 .. n |-> IF i = 0 THEN start ELSE Step(i, f[i - 1])]
             chosen == DirectOf(items, r, mask, how, start)
  <1>1. \A i \in 1 .. n, result \in S : Step(i, result) \in S
    BY DEF CollectDirect
  <1>2. turn \in [1 .. n -> [S -> S]]
    BY <1>1
  <1>3. PICK f : Recurs(f, n, S, start, turn)
    <2> HIDE DEF turn, S, n
    <2>1. n \in Nat /\ start \in S
      BY DEF n, S
    <2>2. QED
      BY <1>2, <2>1, Recursion
  <1>4. f = Whole(f)
    <2>1. ASSUME NEW i \in 0 .. n
          PROVE  f[i] = IF i = 0 THEN start ELSE Step(i, f[i - 1])
      <3>1. CASE i = 0
        BY <1>3, <3>1 DEF Recurs
      <3>2. CASE i # 0
        <4>1. i \in 1 .. n /\ i - 1 \in 0 .. n
          BY <3>2
        <4>2. f[i] = turn[i][f[i - 1]] /\ f[i - 1] \in S
          BY <1>3, <4>1 DEF Recurs
        <4> HIDE DEF Step, S, n
        <4>3. QED
          BY <3>2, <4>1, <4>2
      <3>3. QED
        BY <3>1, <3>2
    <2>2. f = [i \in 0 .. n |-> f[i]]
      BY <1>3 DEF Recurs
    <2> HIDE DEF Step, n
    <2>3. QED
      BY <2>1, <2>2
  <1>5. chosen = Whole(chosen)
    <2>1. \E g : g = Whole(g)
      BY <1>4
    <2>2. chosen = CHOOSE g : g = Whole(g)
      BY DEF DirectOf
    <2> HIDE DEF Whole, chosen
    <2>3. QED
      BY <2>1, <2>2
  <1> HIDE DEF chosen
  <1>6. chosen = [i \in 0 .. n |-> chosen[i]]
    BY <1>5
  <1>7. chosen[0] = start
    BY <1>5
  <1>8. \A i \in 1 .. n : chosen[i] = Step(i, chosen[i - 1])
    <2> HIDE DEF Step
    <2>1. QED
      BY <1>5
  <1> DEFINE T == {i \in 0 .. n : chosen[i] \in S}
  <1> HIDE DEF Step
  <1>9. \A i \in 0 .. n : i \in T
    <2>1. 0 \in T
      BY <1>7
    <2>2. ASSUME NEW i \in 1 .. n, i - 1 \in T
          PROVE  i \in T
      BY <1>1, <1>8, <2>2
    <2>3. n \in Nat
      OBVIOUS
    <2> HIDE DEF T, n
    <2>4. QED
      BY <2>1, <2>2, <2>3, UpTo
  <1>10. chosen \in [0 .. n -> S]
    BY <1>6, <1>9
  <1>11. QED
    BY <1>7, <1>8, <1>10 DEF chosen, ScansDirect, Step

LEMMA AllScans ==
  ASSUME NEW items, Len(items) \in Nat, NEW r, NEW mask, NEW how,
         NEW start \in SUBSET mask
  PROVE  ScansAll(AllOf(items, r, mask, how, start), items, r, mask, how, start)
  <1> DEFINE n == Len(items)
             S == SUBSET mask
             Step(i, result) == CollectIndirect(result, items[i], r, mask, how)
             turn == [i \in 1 .. n |-> [result \in S |-> Step(i, result)]]
             Whole(f) == [i \in 0 .. n |-> IF i = 0 THEN start ELSE Step(i, f[i - 1])]
             chosen == AllOf(items, r, mask, how, start)
  <1>1. \A i \in 1 .. n, result \in S : Step(i, result) \in S
    BY DEF CollectIndirect
  <1>2. turn \in [1 .. n -> [S -> S]]
    BY <1>1
  <1>3. PICK f : Recurs(f, n, S, start, turn)
    <2> HIDE DEF turn, S, n
    <2>1. n \in Nat /\ start \in S
      BY DEF n, S
    <2>2. QED
      BY <1>2, <2>1, Recursion
  <1>4. f = Whole(f)
    <2>1. ASSUME NEW i \in 0 .. n
          PROVE  f[i] = IF i = 0 THEN start ELSE Step(i, f[i - 1])
      <3>1. CASE i = 0
        BY <1>3, <3>1 DEF Recurs
      <3>2. CASE i # 0
        <4>1. i \in 1 .. n /\ i - 1 \in 0 .. n
          BY <3>2
        <4>2. f[i] = turn[i][f[i - 1]] /\ f[i - 1] \in S
          BY <1>3, <4>1 DEF Recurs
        <4> HIDE DEF Step, S, n
        <4>3. QED
          BY <3>2, <4>1, <4>2
      <3>3. QED
        BY <3>1, <3>2
    <2>2. f = [i \in 0 .. n |-> f[i]]
      BY <1>3 DEF Recurs
    <2> HIDE DEF Step, n
    <2>3. QED
      BY <2>1, <2>2
  <1>5. chosen = Whole(chosen)
    <2>1. \E g : g = Whole(g)
      BY <1>4
    <2>2. chosen = CHOOSE g : g = Whole(g)
      BY DEF AllOf
    <2> HIDE DEF Whole, chosen
    <2>3. QED
      BY <2>1, <2>2
  <1> HIDE DEF chosen
  <1>6. chosen = [i \in 0 .. n |-> chosen[i]]
    BY <1>5
  <1>7. chosen[0] = start
    BY <1>5
  <1>8. \A i \in 1 .. n : chosen[i] = Step(i, chosen[i - 1])
    <2> HIDE DEF Step
    <2>1. QED
      BY <1>5
  <1> DEFINE T == {i \in 0 .. n : chosen[i] \in S}
  <1> HIDE DEF Step
  <1>9. \A i \in 0 .. n : i \in T
    <2>1. 0 \in T
      BY <1>7
    <2>2. ASSUME NEW i \in 1 .. n, i - 1 \in T
          PROVE  i \in T
      BY <1>1, <1>8, <2>2
    <2>3. n \in Nat
      OBVIOUS
    <2> HIDE DEF T, n
    <2>4. QED
      BY <2>1, <2>2, <2>3, UpTo
  <1>10. chosen \in [0 .. n -> S]
    BY <1>6, <1>9
  <1>11. QED
    BY <1>7, <1>8, <1>10 DEF chosen, ScansAll, Step

\* A mask has nothing that was not asked for.
LEMMA MaskOfAsked ==
  ASSUME NEW items, Len(items) \in Nat, NEW r, NEW mask, NEW how,
         NEW start \in SUBSET mask
  PROVE  MaskOf(items, r, mask, how, start) \subseteq mask
  <1> DEFINE direct == DirectOf(items, r, mask, how, start)[Len(items)]
  <1>1. Len(items) \in 0 .. Len(items)
    OBVIOUS
  <1>2. direct \in SUBSET mask
    BY <1>1, DirectScans DEF ScansDirect
  <1> HIDE DEF direct
  <1>3. AllOf(items, r, mask, how, direct)[Len(items)] \in SUBSET mask
    BY <1>1, <1>2, AllScans DEF ScansAll
  <1>4. QED
    BY <1>3, MaskOfIs DEF direct

LEMMA TableDecidesTyped == AclTypeOK => TableDecides
  <1> SUFFICES ASSUME AclTypeOK, NEW priv \in Privileges, NEW r \in Roles,
                      NEW cols \in (SUBSET Columns) \ {{}}
               PROVE  QueryPermitted(priv, cols, r) <=> ObjectAclMask(r, {priv}) = {priv}
    BY DEF TableDecides
  <1>1. ObjectAclMask(r, {priv}) \subseteq {priv}
    <2>1. Len(acl[Table]) \in Nat
      <3>1. Table \in Objects
        BY DEF Objects
      <3>2. acl[Table] \in Seq(AclItem)
        BY <3>1 DEF AclTypeOK
      <3>3. QED
        BY <3>2, LenProperties
    <2>2. MaskOf(acl[Table], r, {priv}, "all", {}) \subseteq {priv}
      BY <2>1, MaskOfAsked
    <2>3. QED
      BY <2>2 DEF ObjectAclMask, AclMask
  <1>2. ASSUME \A c \in cols : ColumnAclMask(c, r, {priv}) = {priv}
        PROVE  ObjectAclMask(r, {priv}) = {priv}
    <2>1. PICK c \in cols : TRUE
      OBVIOUS
    <2>2. ColumnAclMask(c, r, {priv}) = {priv}
      BY <1>2
    <2>3. priv \in ObjectAclMask(r, {priv})
      BY <2>2 DEF ColumnAclMask
    <2>4. QED
      BY <1>1, <2>3
  <1>3. QED
    BY <1>2 DEF QueryPermitted

-----------------------------------------------------------------------------
(* What the loops find when no role is its own member.                      *)

\* The entry gives its privileges to r.
Gives(r, item) ==
  \/ item.grantee = PUBLIC
  \/ item.grantee \in Roles /\ IsMember(r, item.grantee)

\* r acts as exactly the roles that it is a member of.
ActsByMembership(r) ==
  \A target : ActsAs(r, target) <=> target \in Roles /\ IsMember(r, target)

LEMMA WithoutCycles ==
  ASSUME AclTypeOK, \A t \in Roles : ~InCycle(t), NEW r \in Roles
  PROVE  ActsByMembership(r)
  <1>1. ASSUME NEW target \in Roles
        PROVE  HasPrivsOfRole(r, target) = "yes" <=> IsMember(r, target)
    <2>1. members \in [Roles -> Seq(Roles)]
      BY DEF AclTypeOK
    <2>2. /\ Searches(r, TheSearch(r))
          /\ HasPrivsOfRole(r, target) = TheSearch(r)[<<{}, target>>]
      BY <2>1, SearchAnswers
    <2>3. Right(r, target, {}, target, HasPrivsOfRole(r, target))
      BY <2>1, <2>2, AnswersRight
    <2>4. HasPrivsOfRole(r, target) \in Answers
      <3>1. <<{}, target>> \in Calls
        BY DEF Calls
      <3>2. QED
        BY <2>2, <3>1 DEF Searches
    <2>5. Chain({}, target, target)
      BY MemberSelf DEF Chain
    <2>6. QED
      BY <2>3, <2>4, <2>5 DEF Right, Answers
  <1>2. QED
    BY <1>1 DEF ActsByMembership, ActsAs

\* result has something of start and of what items give r, and all that the
\* items from 1 to n of a kind give unless it is enough already.
Within(result, items, r, mask, start) ==
  /\ start \subseteq result
  /\ result \subseteq start \cup mask
  /\ \A x \in result \ start : \E j \in 1 .. Len(items) : Gives(r, items[j]) /\ x \in items[j].privs

HasDirect(result, items, n, r, mask) ==
  \A j \in 1 .. n : Direct(r, items[j]) => items[j].privs \cap mask \subseteq result

HasGiven(result, items, n, r, mask) ==
  \A j \in 1 .. n : Gives(r, items[j]) => items[j].privs \cap mask \subseteq result

LEMMA DirectFinds ==
  ASSUME NEW items, Len(items) \in Nat, NEW r \in Roles, NEW mask, NEW how,
         NEW start \in SUBSET mask, NEW d, ScansDirect(d, items, r, mask, how, start)
  PROVE  /\ Within(d[Len(items)], items, r, mask, start)
         /\ \/ Enough(d[Len(items)], mask, how)
            \/ HasDirect(d[Len(items)], items, Len(items), r, mask)
  <1> DEFINE n == Len(items)
             Good(i) == /\ Within(d[i], items, r, mask, start)
                        /\ \/ Enough(d[i], mask, how)
                           \/ HasDirect(d[i], items, i, r, mask)
             T == {i \in 0 .. n : Good(i)}
  <1>1. 0 \in T
    <2>1. d[0] = start
      BY DEF ScansDirect
    <2>2. Good(0)
      BY <2>1 DEF Within, HasDirect
    <2> HIDE DEF Good
    <2>3. QED
      BY <2>2
  <1>2. ASSUME NEW i \in 1 .. n, i - 1 \in T
        PROVE  i \in T
    <2>1. Good(i - 1)
      BY <1>2
    <2>2. d[i] = CollectDirect(d[i - 1], items[i], r, mask, how)
      BY DEF ScansDirect
    <2>3. CASE Enough(d[i - 1], mask, how)
      BY <2>1, <2>2, <2>3 DEF CollectDirect
    <2>4. CASE ~Enough(d[i - 1], mask, how) /\ ~Direct(r, items[i])
      <3>1. d[i] = d[i - 1]
        BY <2>2, <2>4 DEF CollectDirect
      <3>2. HasDirect(d[i - 1], items, i - 1, r, mask)
        BY <2>1, <2>4
      <3>3. \A j \in 1 .. i : j # i => j \in 1 .. i - 1
        OBVIOUS
      <3>4. HasDirect(d[i], items, i, r, mask)
        BY <2>4, <3>1, <3>2, <3>3 DEF HasDirect
      <3>5. Good(i)
        BY <2>1, <3>1, <3>4
      <3> HIDE DEF Good
      <3>6. QED
        BY <3>5
    <2>5. CASE ~Enough(d[i - 1], mask, how) /\ Direct(r, items[i])
      <3>1. d[i] = d[i - 1] \cup (items[i].privs \cap mask)
        BY <2>2, <2>5 DEF CollectDirect
      <3>2. HasDirect(d[i - 1], items, i - 1, r, mask)
        BY <2>1, <2>5
      <3>3. \A j \in 1 .. i : j # i => j \in 1 .. i - 1
        OBVIOUS
      <3>4. HasDirect(d[i], items, i, r, mask)
        BY <3>1, <3>2, <3>3 DEF HasDirect
      <3>5. Gives(r, items[i])
        BY <2>5, MemberSelf DEF Direct, Gives
      <3>6. Within(d[i], items, r, mask, start)
        BY <2>1, <3>1, <3>5 DEF Within
      <3>7. Good(i)
        BY <3>4, <3>6
      <3> HIDE DEF Good
      <3>8. QED
        BY <3>7
    <2>6. QED
      BY <2>3, <2>4, <2>5
  <1>3. \A i \in 0 .. n : i \in T
    <2> HIDE DEF T
    <2>1. QED
      BY <1>1, <1>2, UpTo
  <1>4. n \in T
    BY <1>3
  <1> HIDE DEF Good
  <1>5. Good(n)
    BY <1>4
  <1>6. QED
    BY <1>5 DEF Good

LEMMA AllFinds ==
  ASSUME NEW items, Len(items) \in Nat, NEW r \in Roles, NEW mask, NEW how,
         ActsByMembership(r), \A j \in 1 .. Len(items) : items[j].grantee \in Grantees,
         NEW start \in SUBSET mask,
         NEW first \in SUBSET mask, Within(first, items, r, mask, start),
         \/ Enough(first, mask, how)
         \/ HasDirect(first, items, Len(items), r, mask),
         NEW a, ScansAll(a, items, r, mask, how, first)
  PROVE  /\ Within(a[Len(items)], items, r, mask, start)
         /\ \/ Enough(a[Len(items)], mask, how)
            \/ HasGiven(a[Len(items)], items, Len(items), r, mask)
  <1> DEFINE n == Len(items)
             Good(i) == /\ Within(a[i], items, r, mask, start)
                        /\ \/ Enough(a[i], mask, how)
                           \/ /\ HasDirect(a[i], items, n, r, mask)
                              /\ HasGiven(a[i], items, i, r, mask)
             T == {i \in 0 .. n : Good(i)}
  <1>1. 0 \in T
    <2>1. a[0] = first
      BY DEF ScansAll
    <2>2. HasGiven(a[0], items, 0, r, mask)
      BY DEF HasGiven
    <2>3. Good(0)
      BY <2>1, <2>2
    <2> HIDE DEF Good
    <2>4. QED
      BY <2>3
  <1>2. ASSUME NEW i \in 1 .. n, i - 1 \in T
        PROVE  i \in T
    <2>1. Good(i - 1)
      BY <1>2
    <2>2. a[i] = CollectIndirect(a[i - 1], items[i], r, mask, how)
      BY DEF ScansAll
    <2>3. CASE Enough(a[i - 1], mask, how)
      <3>1. a[i] = a[i - 1]
        BY <2>2, <2>3 DEF CollectIndirect
      <3>2. Good(i)
        BY <2>1, <2>3, <3>1
      <3> HIDE DEF Good
      <3>3. QED
        BY <3>2
    <2>4. CASE ~Enough(a[i - 1], mask, how)
      <3>1. /\ HasDirect(a[i - 1], items, n, r, mask)
            /\ HasGiven(a[i - 1], items, i - 1, r, mask)
            /\ Within(a[i - 1], items, r, mask, start)
        BY <2>1, <2>4
      <3>2. \A j \in 1 .. i : j # i => j \in 1 .. i - 1
        OBVIOUS
      <3>3. CASE ~Gives(r, items[i])
        <4>1. ~ActsAs(r, items[i].grantee)
          BY <3>3 DEF Gives, ActsByMembership
        <4>2. a[i] = a[i - 1]
          BY <2>2, <4>1 DEF CollectIndirect
        <4>3. HasGiven(a[i], items, i, r, mask)
          BY <3>1, <3>2, <3>3, <4>2 DEF HasGiven
        <4>4. QED
          BY <3>1, <4>2, <4>3
      <3>4. CASE Gives(r, items[i]) /\ items[i].privs \cap mask \subseteq a[i - 1]
        <4>1. a[i] = a[i - 1]
          BY <2>2, <3>4 DEF CollectIndirect
        <4>2. HasGiven(a[i], items, i, r, mask)
          BY <3>1, <3>2, <3>4, <4>1 DEF HasGiven
        <4>3. QED
          BY <3>1, <4>1, <4>2
      <3>5. CASE Gives(r, items[i]) /\ ~(items[i].privs \cap mask \subseteq a[i - 1])
        <4>1. ~Direct(r, items[i])
          BY <3>1, <3>5 DEF HasDirect
        <4>2. ActsAs(r, items[i].grantee)
          BY <3>5, <4>1 DEF Gives, Direct, ActsByMembership
        <4>3. items[i].privs \cap (mask \ a[i - 1]) # {}
          BY <3>5
        <4>4. a[i] = a[i - 1] \cup (items[i].privs \cap mask)
          BY <2>2, <2>4, <4>1, <4>2, <4>3 DEF CollectIndirect
        <4>5. HasGiven(a[i], items, i, r, mask)
          BY <3>1, <3>2, <4>4 DEF HasGiven
        <4>6. HasDirect(a[i], items, n, r, mask)
          BY <3>1, <4>4 DEF HasDirect
        <4>7. Within(a[i], items, r, mask, start)
          BY <3>1, <3>5, <4>4 DEF Within
        <4>8. QED
          BY <4>5, <4>6, <4>7
      <3>6. Good(i)
        BY <3>3, <3>4, <3>5
      <3> HIDE DEF Good
      <3>7. QED
        BY <3>6
    <2>5. QED
      BY <2>3, <2>4
  <1>3. \A i \in 0 .. n : i \in T
    <2> HIDE DEF T
    <2>1. QED
      BY <1>1, <1>2, UpTo
  <1>4. n \in T
    BY <1>3
  <1> HIDE DEF Good
  <1>5. Good(n)
    BY <1>4
  <1>6. QED
    BY <1>5 DEF Good

\* The privileges of the mask that are there at the start or that an entry of
\* o gives to r.
Union(o, r, mask, start) == start \cup (mask \cap GrantedTo(o, r))

LEMMA MaskOfIsUnion ==
  ASSUME AclTypeOK, NEW o \in Objects, NEW r \in Roles, ActsByMembership(r),
         NEW mask, mask # {}, NEW start \in SUBSET mask, NEW how \in {"all", "any"}
  PROVE  LET found == MaskOf(acl[o], r, mask, how, start)
         IN  /\ found \subseteq Union(o, r, mask, start)
             /\ how = "all" => found = Union(o, r, mask, start)
             /\ how = "any" /\ found = {} => Union(o, r, mask, start) = {}
  <1> DEFINE items == acl[o]
             d == DirectOf(items, r, mask, how, start)
             first == d[Len(items)]
             a == AllOf(items, r, mask, how, first)
             found == a[Len(items)]
             all == Union(o, r, mask, start)
  <1>1. items \in Seq(AclItem)
    BY DEF AclTypeOK
  <1>2. Len(items) \in Nat /\ DOMAIN items = 1 .. Len(items)
    BY <1>1, LenProperties
  <1>3. \A j \in 1 .. Len(items) : items[j].grantee \in Grantees
    <2>1. ASSUME NEW j \in 1 .. Len(items)
          PROVE  items[j].grantee \in Grantees
      <3>1. items[j] \in AclItem
        BY <1>1, <1>2
      <3> HIDE DEF items
      <3>2. QED
        BY <3>1 DEF AclItem
    <2>2. QED
      BY <2>1
  <1>4. \A x : x \in GrantedTo(o, r) <=>
                \E j \in 1 .. Len(items) : Gives(r, items[j]) /\ x \in items[j].privs
    BY <1>2 DEF GrantedTo, Gives
  <1> HIDE DEF items
  <1>5. ScansDirect(d, items, r, mask, how, start)
    BY <1>2, DirectScans
  <1>6. /\ Within(first, items, r, mask, start)
        /\ \/ Enough(first, mask, how)
           \/ HasDirect(first, items, Len(items), r, mask)
    <2> HIDE DEF d
    <2>1. QED
      BY <1>2, <1>5, DirectFinds
  <1>7. first \in SUBSET mask
    BY <1>6 DEF Within
  <1> HIDE DEF first
  <1>8. ScansAll(a, items, r, mask, how, first)
    BY <1>2, <1>7, AllScans
  <1> HIDE DEF a
  <1>9. /\ Within(found, items, r, mask, start)
        /\ \/ Enough(found, mask, how)
           \/ HasGiven(found, items, Len(items), r, mask)
    BY <1>2, <1>3, <1>6, <1>7, <1>8, AllFinds
  <1>10. MaskOf(acl[o], r, mask, how, start) = found
    BY MaskOfIs DEF items, first, a
  <1> HIDE DEF found
  <1>11. found \subseteq all
    <2>1. ASSUME NEW x \in found
          PROVE  x \in all
      <3>1. x \in start \cup mask
        BY <1>9 DEF Within
      <3>2. x \notin start => x \in GrantedTo(o, r)
        BY <1>4, <1>9 DEF Within
      <3>3. QED
        BY <3>1, <3>2 DEF Union
    <2>2. QED
      BY <2>1
  <1>12. all \subseteq mask
    BY DEF Union
  <1>13. CASE Enough(found, mask, how)
    <2>1. how = "all" => found = mask
      BY <1>13 DEF Enough
    <2>2. how = "any" => found # {}
      BY <1>13 DEF Enough
    <2> HIDE DEF all
    <2>3. QED
      BY <1>10, <1>11, <1>12, <2>1, <2>2 DEF all
  <1>14. CASE HasGiven(found, items, Len(items), r, mask)
    <2>1. ASSUME NEW x \in all
          PROVE  x \in found
      <3>1. CASE x \in start
        BY <1>9, <3>1 DEF Within
      <3>2. CASE x \notin start
        <4>1. x \in mask /\ x \in GrantedTo(o, r)
          BY <3>2 DEF Union
        <4>2. PICK j \in 1 .. Len(items) : Gives(r, items[j]) /\ x \in items[j].privs
          BY <1>4, <4>1
        <4>3. QED
          BY <1>14, <4>1, <4>2 DEF HasGiven
      <3>3. QED
        BY <3>1, <3>2
    <2>2. found = all
      BY <1>11, <2>1
    <2> HIDE DEF all
    <2>3. QED
      BY <1>10, <2>2 DEF all
  <1>15. QED
    BY <1>9, <1>13, <1>14

LEMMA MasksAreUnionsTyped == AclTypeOK => MasksAreUnions
  <1> SUFFICES ASSUME AclTypeOK, \A t \in Roles : ~InCycle(t),
                      NEW o \in Objects, NEW r \in Roles, NEW mask \in Modes
               PROVE  LET owns == IsMember(r, Owner)
                          basic == mask \cap (GrantedTo(o, r) \cup
                                              (IF owns THEN GrantOptions ELSE {}))
                          any == BasicAclMask(acl[o], r, mask, "any")
                      IN  /\ AclMask(acl[o], r, mask) =
                               IF owns THEN mask ELSE mask \cap GrantedTo(o, r)
                          /\ BasicAclMask(acl[o], r, mask, "all") = basic
                          /\ any \subseteq basic /\ (any = {} <=> basic = {})
    BY DEF MasksAreUnions
  <1> DEFINE owns == IsMember(r, Owner)
             owned == IF owns THEN mask \cap GrantOptions ELSE {}
             basic == mask \cap (GrantedTo(o, r) \cup (IF owns THEN GrantOptions ELSE {}))
             any == BasicAclMask(acl[o], r, mask, "any")
  <1>1. ActsByMembership(r)
    BY WithoutCycles
  <1>2. ActsAs(r, Owner) <=> owns
    BY <1>1, AclAssumption DEF ActsByMembership
  <1>3. basic = Union(o, r, mask, owned)
    BY DEF Union
  <1>4. mask \cap (Privileges \cup GrantOptions) = mask
    BY DEF Modes
  <1>5. \A how : BasicAclMask(acl[o], r, mask, how) =
                   IF mask = {} THEN {} ELSE MaskOf(acl[o], r, mask, how, owned)
    BY <1>2 DEF BasicAclMask
  <1>6. AclMask(acl[o], r, mask) =
          IF mask = {} \/ owns THEN mask ELSE MaskOf(acl[o], r, mask, "all", {})
    BY <1>2, <1>4 DEF AclMask
  <1>7. mask = {} => basic = {}
    OBVIOUS
  <1>8. owned \in SUBSET mask
    OBVIOUS
  <1> HIDE DEF owns, owned, basic
  <1>9. AclMask(acl[o], r, mask) = IF owns THEN mask ELSE mask \cap GrantedTo(o, r)
    <2>1. mask # {} => MaskOf(acl[o], r, mask, "all", {}) = Union(o, r, mask, {})
      BY <1>1, MaskOfIsUnion
    <2>2. Union(o, r, mask, {}) = mask \cap GrantedTo(o, r)
      BY DEF Union
    <2>3. QED
      BY <1>6, <2>1, <2>2
  <1>10. BasicAclMask(acl[o], r, mask, "all") = basic
    <2>1. mask # {} => MaskOf(acl[o], r, mask, "all", owned) = Union(o, r, mask, owned)
      BY <1>1, <1>8, MaskOfIsUnion
    <2>2. QED
      BY <1>3, <1>5, <1>7, <2>1
  <1>11. any \subseteq basic /\ (any = {} <=> basic = {})
    <2>1. mask # {} =>
            /\ MaskOf(acl[o], r, mask, "any", owned) \subseteq Union(o, r, mask, owned)
            /\ MaskOf(acl[o], r, mask, "any", owned) = {} => Union(o, r, mask, owned) = {}
      BY <1>1, <1>8, MaskOfIsUnion
    <2>2. QED
      BY <1>3, <1>5, <1>7, <2>1
  <1>12. QED
    BY <1>9, <1>10, <1>11 DEF owns, basic, owned

\* has_privs_of_role answers true only for the roles that r is, directly or
\* through others, a member of, and false only for the others, whatever the
\* memberships and the order they were added in; it fails to return only below
\* a role that is its own indirect member.
THEOREM SearchAnswersRight == AclSpec => []RolesAnswer
  <1>1. AclTypeOK => RolesAnswer
    BY RolesAnswerTyped
  <1>2. QED
    BY <1>1, AclTyping, PTL

\* Where no role is its own indirect member, aclmask finds exactly the
\* privileges that the entries of an object give a role, itself, through PUBLIC
\* and through the roles it is a member of, in two loops with early returns;
\* with ACLMASK_ANY it finds one of them if there is one.
THEOREM LoopsFindUnions == AclSpec => []MasksAreUnions
  <1>1. AclTypeOK => MasksAreUnions
    BY MasksAreUnionsTyped
  <1>2. QED
    BY <1>1, AclTyping, PTL

\* A query that names a column passes exactly when the list of the table lets
\* it pass, whatever is granted on columns.
THEOREM TableListDecides == AclSpec => []TableDecides
  <1>1. AclTypeOK => TableDecides
    BY TableDecidesTyped
  <1>2. QED
    BY <1>1, AclTyping, PTL

-----------------------------------------------------------------------------
(* The first of some positions.                                             *)

MemberOf(ec, item) == \E i \in DOMAIN ec.members : ec.members[i] = item

LEMMA FirstConstIsMember ==
  ASSUME NEW ec \in Classes, ConstIndices(ec) # {}
  PROVE  \E i \in ConstIndices(ec) : FirstConst(ec) = ec.members[i]
  <1>1. ec.members \in Seq(Items)
    BY DEF Classes
  <1>2. DOMAIN ec.members = 1 .. Len(ec.members) /\ Len(ec.members) \in Nat
    BY <1>1, LenProperties
  <1>3. ConstIndices(ec) \subseteq Nat
    BY <1>2 DEF ConstIndices
  <1>4. \E i \in ConstIndices(ec) : \A j \in ConstIndices(ec) : i <= j
    BY <1>3, LeastExists
  <1>5. (CHOOSE i \in ConstIndices(ec) : \A j \in ConstIndices(ec) : i <= j)
          \in ConstIndices(ec)
    BY <1>4
  <1>6. QED
    BY <1>5 DEF FirstConst

-----------------------------------------------------------------------------
(* The inductive invariant.                                                 *)

\* The clauses that a class has as sources are about its members.
Sourced ==
  \A c \in DOMAIN eq_classes : \A n \in eq_classes[c].sources :
    /\ n \in 1 .. Len(clauses)
    /\ Holds(c, clauses[n][1]) /\ Holds(c, clauses[n][2])

\* Members of a class are equal in every row that the clauses let pass.
MembersEqual ==
  \A row \in Rows : SatisfiesClauses(row) =>
    \A c \in DOMAIN eq_classes : \A x, y \in Items :
      Holds(c, x) /\ Holds(c, y) => ValueIn(row, x) = ValueIn(row, y)

\* The right side of a clause that was skipped is in another class, and will
\* be as long as classes are disjoint.
SkippedBetween(n) ==
  /\ marks[n] \in DOMAIN eq_classes /\ Holds(marks[n], clauses[n][1])
  /\ \E d \in DOMAIN eq_classes : d # marks[n] /\ Holds(d, clauses[n][2])

HasSource(n) ==
  \E c \in DOMAIN eq_classes :
    /\ n \in eq_classes[c].sources /\ marks[n] \in {0, c}
    /\ Holds(c, clauses[n][1]) /\ Holds(c, clauses[n][2])

Marked ==
  /\ Len(marks) = Len(clauses)
  /\ \A n \in DOMAIN clauses : IF Skipped(n) THEN SkippedBetween(n) ELSE HasSource(n)

EquivInv ==
  /\ EquivTypeOK
  /\ ClassesDisjoint
  /\ Sourced
  /\ MembersEqual
  /\ Marked

LEMMA EquivInitInv == EquivInit => EquivInv
  <1> SUFFICES ASSUME EquivInit PROVE EquivInv
    OBVIOUS
  <1>1. DOMAIN eq_classes = {} /\ DOMAIN clauses = {} /\ Len(marks) = Len(clauses)
    BY DEF EquivInit
  <1>2. EquivTypeOK
    BY DEF EquivInit, EquivTypeOK
  <1>3. QED
    BY <1>1, <1>2 DEF EquivInv, ClassesDisjoint, Sourced, MembersEqual, Marked

-----------------------------------------------------------------------------
(* What a step of process_equivalence_demo does.                            *)

LEMMA ClassOfFacts ==
  ASSUME EquivInv, NEW item \in Items
  PROVE  \/ /\ ClassOf(item) = 0
            /\ \A c \in DOMAIN eq_classes : ~Holds(c, item)
         \/ /\ ClassOf(item) # 0
            /\ ClassOf(item) \in DOMAIN eq_classes /\ Holds(ClassOf(item), item)
            /\ \A c \in DOMAIN eq_classes : Holds(c, item) => c = ClassOf(item)
  <1> DEFINE found == {c \in DOMAIN eq_classes : Holds(c, item)}
  <1>1. DOMAIN eq_classes = 1 .. Len(eq_classes) /\ Len(eq_classes) \in Nat
    BY LenProperties DEF EquivInv, EquivTypeOK
  <1>2. found \subseteq Nat /\ 0 \notin found
    BY <1>1
  <1>3. CASE found = {}
    BY <1>3 DEF ClassOf
  <1>4. CASE found # {}
    <2>1. \E c \in found : \A d \in found : c <= d
      BY <1>2, <1>4, LeastExists
    <2>2. ClassOf(item) = CHOOSE c \in found : \A d \in found : c <= d
      BY <1>4 DEF ClassOf
    <2>3. ClassOf(item) \in found
      BY <2>1, <2>2
    <2>4. \A c \in DOMAIN eq_classes : Holds(c, item) => c = ClassOf(item)
      BY <2>3 DEF EquivInv, ClassesDisjoint
    <2>5. QED
      BY <1>2, <2>3, <2>4
  <1>5. QED
    BY <1>3, <1>4

\* One class, the k-th one, is new or takes in what it does not have yet of a
\* clause; no other class has a side of the clause in it.
Grows(item1, item2, k, X) ==
  /\ X \in Classes /\ k \in Nat
  /\ eq_classes' \in Seq(Classes)
  /\ DOMAIN eq_classes' = DOMAIN eq_classes \cup {k}
  /\ eq_classes'[k] = X
  /\ \A c \in DOMAIN eq_classes : c # k => eq_classes'[c] = eq_classes[c]
  /\ \A x \in Items : MemberOf(X, x) <=>
       \/ x = item1 \/ x = item2
       \/ k \in DOMAIN eq_classes /\ Holds(k, x)
  /\ \A m : m \in X.sources <=>
       \/ m = Len(clauses) + 1
       \/ k \in DOMAIN eq_classes /\ m \in eq_classes[k].sources
  /\ k \in DOMAIN eq_classes => Holds(k, item1) \/ Holds(k, item2)
  /\ \A d \in DOMAIN eq_classes : d # k => ~Holds(d, item1) /\ ~Holds(d, item2)
  /\ \E m \in {0, k} : marks' = Append(marks, m)

\* The clause is between two classes, which stay apart.
Skips(item1, item2) ==
  \E c, d \in DOMAIN eq_classes :
    /\ c # d /\ Holds(c, item1) /\ Holds(d, item2)
    /\ eq_classes' = eq_classes
    /\ marks' = Append(marks, c)

LEMMA AddSourceFacts ==
  ASSUME NEW ec \in Classes, NEW n \in Nat
  PROVE  LET X == AddSource(ec, n)
         IN  /\ X \in Classes
             /\ \A x : MemberOf(X, x) <=> MemberOf(ec, x)
             /\ \A m : m \in X.sources <=> m = n \/ m \in ec.sources
  BY DEF AddSource, Classes, MemberOf

LEMMA AppendedMember ==
  ASSUME NEW s \in Seq(Items), NEW item \in Items, NEW x
  PROVE  (\E i \in DOMAIN Append(s, item) : Append(s, item)[i] = x) <=>
           x = item \/ \E i \in DOMAIN s : s[i] = x
  <1> DEFINE t == Append(s, item)
  <1>1. /\ t \in Seq(Items) /\ Len(t) = Len(s) + 1 /\ t[Len(s) + 1] = item
        /\ \A i \in 1 .. Len(s) : t[i] = s[i]
        /\ Len(s) \in Nat
    OBVIOUS
  <1>2. DOMAIN t = 1 .. Len(s) + 1 /\ DOMAIN s = 1 .. Len(s)
    BY <1>1, LenProperties
  <1> HIDE DEF t
  <1>3. DOMAIN t = DOMAIN s \cup {Len(s) + 1}
    BY <1>1, <1>2
  <1>4. (\E i \in DOMAIN t : t[i] = x) <=> x = item \/ \E i \in DOMAIN s : s[i] = x
    BY <1>1, <1>2, <1>3
  <1>5. QED
    BY <1>4 DEF t

LEMMA AddMemberFacts ==
  ASSUME NEW ec \in Classes, NEW item \in Items, NEW n \in Nat
  PROVE  LET X == AddMember(ec, item, n)
         IN  /\ X \in Classes
             /\ \A x : MemberOf(X, x) <=> x = item \/ MemberOf(ec, x)
             /\ \A m : m \in X.sources <=> m = n \/ m \in ec.sources
  <1> DEFINE Y == [ec EXCEPT !.members = Append(@, item)]
  <1>1. /\ ec.members \in Seq(Items) /\ Append(ec.members, item) \in Seq(Items)
    BY DEF Classes
  <1>2. /\ Y \in Classes /\ Y.sources = ec.sources
        /\ Y.members = Append(ec.members, item)
    BY <1>1 DEF Classes
  <1>3. AddMember(ec, item, n) = AddSource(Y, n)
    BY DEF AddMember
  <1> HIDE DEF Y
  <1>4. \A x : MemberOf(Y, x) <=> x = item \/ MemberOf(ec, x)
    BY <1>1, <1>2, AppendedMember, SMTT(30) DEF MemberOf
  <1>5. QED
    BY <1>2, <1>3, <1>4, AddSourceFacts

\* A class takes the place of another one with at least its members.
LEMMA Replaced ==
  ASSUME EquivInv, NEW k \in DOMAIN eq_classes, NEW X \in Classes,
         eq_classes' = [eq_classes EXCEPT ![k] = X]
  PROVE  /\ eq_classes' \in Seq(Classes) /\ k \in Nat
         /\ DOMAIN eq_classes' = DOMAIN eq_classes \cup {k}
         /\ eq_classes'[k] = X
         /\ \A c \in DOMAIN eq_classes : c # k => eq_classes'[c] = eq_classes[c]
  <1>1. /\ eq_classes \in Seq(Classes)
        /\ DOMAIN eq_classes = 1 .. Len(eq_classes) /\ Len(eq_classes) \in Nat
    BY LenProperties DEF EquivInv, EquivTypeOK
  <1>2. eq_classes' \in Seq(Classes)
    BY <1>1, ExceptSeq
  <1>3. QED
    BY <1>1, <1>2

LEMMA StepCases ==
  ASSUME EquivInv, NEW item1 \in Items, NEW item2 \in Items,
         ProcessEquivalence(item1, item2)
  PROVE  /\ clauses' = Append(clauses, <<item1, item2>>)
         /\ \/ Skips(item1, item2)
            \/ \E k, X : Grows(item1, item2, k, X)
  <1> DEFINE n == Len(clauses) + 1
             ec1 == ClassOf(item1)
             ec2 == ClassOf(item2)
             mark == IF ec1 # 0 THEN ec1 ELSE ec2
  <1>1. clauses' = Append(clauses, <<item1, item2>>) /\ marks' = Append(marks, mark)
    BY DEF ProcessEquivalence
  <1>2. /\ n \in Nat
        /\ eq_classes \in Seq(Classes)
        /\ DOMAIN eq_classes = 1 .. Len(eq_classes) /\ Len(eq_classes) \in Nat
        /\ \A c \in DOMAIN eq_classes : eq_classes[c] \in Classes
    BY LenProperties, ElementOfSeq DEF EquivInv, EquivTypeOK
  <1>3. \/ ec1 = 0 /\ \A c \in DOMAIN eq_classes : ~Holds(c, item1)
        \/ /\ ec1 # 0 /\ ec1 \in DOMAIN eq_classes /\ Holds(ec1, item1)
           /\ \A c \in DOMAIN eq_classes : Holds(c, item1) => c = ec1
    BY ClassOfFacts
  <1>4. \/ ec2 = 0 /\ \A c \in DOMAIN eq_classes : ~Holds(c, item2)
        \/ /\ ec2 # 0 /\ ec2 \in DOMAIN eq_classes /\ Holds(ec2, item2)
           /\ \A c \in DOMAIN eq_classes : Holds(c, item2) => c = ec2
    BY ClassOfFacts
  <1>5. \A c, x : Holds(c, x) <=> MemberOf(eq_classes[c], x)
    BY DEF Holds, MemberOf
  <1>6. \/ ec1 # 0 /\ ec1 = ec2
           /\ eq_classes' = [eq_classes EXCEPT ![ec1] = AddSource(eq_classes[ec1], n)]
        \/ ec1 # 0 /\ ec2 # 0 /\ ec1 # ec2 /\ eq_classes' = eq_classes
        \/ ec1 # 0 /\ ec2 = 0
           /\ eq_classes' = [eq_classes EXCEPT ![ec1] = AddMember(eq_classes[ec1], item2, n)]
        \/ ec1 = 0 /\ ec2 # 0
           /\ eq_classes' = [eq_classes EXCEPT ![ec2] = AddMember(eq_classes[ec2], item1, n)]
        \/ ec1 = 0 /\ ec2 = 0
           /\ eq_classes' = Append(eq_classes,
                [members |-> <<item1, item2>>, sources |-> {n}])
    BY DEF ProcessEquivalence
  <1> HIDE DEF n, ec1, ec2
  <1>7. CASE ec1 # 0 /\ ec1 = ec2
             /\ eq_classes' = [eq_classes EXCEPT ![ec1] = AddSource(eq_classes[ec1], n)]
    <2> DEFINE X == AddSource(eq_classes[ec1], n)
    <2>1. /\ X \in Classes
          /\ \A x : MemberOf(X, x) <=> MemberOf(eq_classes[ec1], x)
          /\ \A m : m \in X.sources <=> m = n \/ m \in eq_classes[ec1].sources
      BY <1>2, <1>3, <1>7, AddSourceFacts
    <2>2. /\ eq_classes' \in Seq(Classes) /\ ec1 \in Nat
          /\ DOMAIN eq_classes' = DOMAIN eq_classes \cup {ec1}
          /\ eq_classes'[ec1] = X
          /\ \A c \in DOMAIN eq_classes : c # ec1 => eq_classes'[c] = eq_classes[c]
      BY <1>3, <1>7, <2>1, Replaced
    <2> HIDE DEF X
    <2>3. mark = ec1
      BY <1>7
    <2>4. Grows(item1, item2, ec1, X)
      BY <1>1, <1>3, <1>4, <1>5, <1>7, <2>1, <2>2, <2>3 DEF Grows, n
    <2>5. QED
      BY <1>1, <2>4
  <1>8. CASE ec1 # 0 /\ ec2 # 0 /\ ec1 # ec2 /\ eq_classes' = eq_classes
    BY <1>1, <1>3, <1>4, <1>8 DEF Skips
  <1>9. CASE ec1 # 0 /\ ec2 = 0
             /\ eq_classes' = [eq_classes EXCEPT ![ec1] = AddMember(eq_classes[ec1], item2, n)]
    <2> DEFINE X == AddMember(eq_classes[ec1], item2, n)
    <2>1. /\ X \in Classes
          /\ \A x : MemberOf(X, x) <=> x = item2 \/ MemberOf(eq_classes[ec1], x)
          /\ \A m : m \in X.sources <=> m = n \/ m \in eq_classes[ec1].sources
      BY <1>2, <1>3, <1>9, AddMemberFacts
    <2>2. /\ eq_classes' \in Seq(Classes) /\ ec1 \in Nat
          /\ DOMAIN eq_classes' = DOMAIN eq_classes \cup {ec1}
          /\ eq_classes'[ec1] = X
          /\ \A c \in DOMAIN eq_classes : c # ec1 => eq_classes'[c] = eq_classes[c]
      BY <1>3, <1>9, <2>1, Replaced
    <2> HIDE DEF X
    <2>3. mark = ec1
      BY <1>9
    <2>4. Grows(item1, item2, ec1, X)
      BY <1>1, <1>3, <1>4, <1>5, <1>9, <2>1, <2>2, <2>3 DEF Grows, n
    <2>5. QED
      BY <1>1, <2>4
  <1>10. CASE ec1 = 0 /\ ec2 # 0
              /\ eq_classes' = [eq_classes EXCEPT ![ec2] = AddMember(eq_classes[ec2], item1, n)]
    <2> DEFINE X == AddMember(eq_classes[ec2], item1, n)
    <2>1. /\ X \in Classes
          /\ \A x : MemberOf(X, x) <=> x = item1 \/ MemberOf(eq_classes[ec2], x)
          /\ \A m : m \in X.sources <=> m = n \/ m \in eq_classes[ec2].sources
      BY <1>2, <1>4, <1>10, AddMemberFacts
    <2>2. /\ eq_classes' \in Seq(Classes) /\ ec2 \in Nat
          /\ DOMAIN eq_classes' = DOMAIN eq_classes \cup {ec2}
          /\ eq_classes'[ec2] = X
          /\ \A c \in DOMAIN eq_classes : c # ec2 => eq_classes'[c] = eq_classes[c]
      BY <1>4, <1>10, <2>1, Replaced
    <2> HIDE DEF X
    <2>3. mark = ec2
      BY <1>10
    <2>4. Grows(item1, item2, ec2, X)
      BY <1>1, <1>3, <1>4, <1>5, <1>10, <2>1, <2>2, <2>3 DEF Grows, n
    <2>5. QED
      BY <1>1, <2>4
  <1>11. CASE ec1 = 0 /\ ec2 = 0
              /\ eq_classes' = Append(eq_classes,
                   [members |-> <<item1, item2>>, sources |-> {n}])
    <2> DEFINE X == [members |-> <<item1, item2>>, sources |-> {n}]
               k == Len(eq_classes) + 1
    <2>1. /\ X \in Classes
          /\ \A x : MemberOf(X, x) <=> x = item1 \/ x = item2
          /\ X.sources = {n}
      <3>1. <<item1, item2>> \in Seq(Items)
        OBVIOUS
      <3>2. DOMAIN <<item1, item2>> = {1, 2}
        OBVIOUS
      <3>3. QED
        BY <1>2, <3>1, <3>2 DEF Classes, MemberOf
    <2> HIDE DEF X
    <2>2. /\ eq_classes' \in Seq(Classes) /\ k \in Nat
          /\ DOMAIN eq_classes' = DOMAIN eq_classes \cup {k}
          /\ eq_classes'[k] = X
          /\ \A c \in DOMAIN eq_classes : eq_classes'[c] = eq_classes[c]
          /\ k \notin DOMAIN eq_classes
      <3>1. eq_classes' = Append(eq_classes, X)
        BY <1>11 DEF X
      <3>2. /\ eq_classes' \in Seq(Classes) /\ Len(eq_classes') = Len(eq_classes) + 1
            /\ eq_classes'[k] = X
            /\ \A c \in 1 .. Len(eq_classes) : eq_classes'[c] = eq_classes[c]
        BY <1>2, <2>1, <3>1
      <3>3. DOMAIN eq_classes' = 1 .. Len(eq_classes) + 1
        BY <3>2, LenProperties
      <3>4. QED
        BY <1>2, <3>2, <3>3
    <2> HIDE DEF k
    <2>3. mark = 0
      BY <1>11
    <2>4. Grows(item1, item2, k, X)
      BY <1>1, <1>3, <1>4, <1>11, <2>1, <2>2, <2>3 DEF Grows, n
    <2>5. QED
      BY <1>1, <2>4
  <1>12. QED
    BY <1>6, <1>7, <1>8, <1>9, <1>10, <1>11
-----------------------------------------------------------------------------
(* Each part of the invariant is preserved by a step.                       *)

\* What both kinds of steps have in common.
LEMMA StepFacts ==
  ASSUME EquivInv, NEW item1 \in Items, NEW item2 \in Items,
         clauses' = Append(clauses, <<item1, item2>>)
  PROVE  /\ Len(clauses) \in Nat
         /\ DOMAIN clauses = 1 .. Len(clauses)
         /\ clauses' \in Seq(Items \X Items) /\ Len(clauses') = Len(clauses) + 1
         /\ DOMAIN clauses' = 1 .. Len(clauses) + 1
         /\ clauses'[Len(clauses) + 1] = <<item1, item2>>
         /\ \A n \in 1 .. Len(clauses) :
              clauses'[n] = clauses[n] /\ clauses[n] \in Items \X Items
  <1>1. clauses \in Seq(Items \X Items) /\ <<item1, item2>> \in Items \X Items
    BY DEF EquivInv, EquivTypeOK
  <1>2. Len(clauses) \in Nat /\ DOMAIN clauses = 1 .. Len(clauses)
    BY <1>1, LenProperties
  <1>3. /\ clauses' \in Seq(Items \X Items) /\ Len(clauses') = Len(clauses) + 1
        /\ clauses'[Len(clauses) + 1] = <<item1, item2>>
        /\ \A n \in 1 .. Len(clauses) : clauses'[n] = clauses[n]
    BY <1>1, <1>2
  <1>4. DOMAIN clauses' = 1 .. Len(clauses) + 1
    BY <1>3, LenProperties
  <1>5. QED
    BY <1>1, <1>2, <1>3, <1>4, ElementOfSeq

\* Members after a step.
LEMMA HoldsAfterGrowth ==
  ASSUME EquivInv, NEW item1 \in Items, NEW item2 \in Items, NEW k, NEW X,
         Grows(item1, item2, k, X)
  PROVE  /\ \A c \in DOMAIN eq_classes : c # k =>
              \A x : Holds(c, x)' <=> Holds(c, x)
         /\ \A x \in Items : Holds(k, x)' <=>
              x = item1 \/ x = item2 \/ (k \in DOMAIN eq_classes /\ Holds(k, x))
         /\ \A c \in DOMAIN eq_classes : \A x \in Items : Holds(c, x) => Holds(c, x)'
  <1>1. \A c \in DOMAIN eq_classes : c # k => \A x : Holds(c, x)' <=> Holds(c, x)
    BY DEF Grows, Holds
  <1>2. \A x : Holds(k, x)' <=> MemberOf(X, x)
    BY DEF Grows, Holds, MemberOf
  <1>3. QED
    BY <1>1, <1>2 DEF Grows

LEMMA TypePreserved ==
  ASSUME EquivInv, NEW item1 \in Items, NEW item2 \in Items,
         clauses' = Append(clauses, <<item1, item2>>),
         Skips(item1, item2) \/ \E k, X : Grows(item1, item2, k, X)
  PROVE  EquivTypeOK'
  <1>1. clauses' \in Seq(Items \X Items)
    BY StepFacts
  <1>2. eq_classes' \in Seq(Classes)
    BY DEF Skips, Grows, EquivInv, EquivTypeOK
  <1>3. \E m \in Nat : marks' = Append(marks, m)
    <2>1. DOMAIN eq_classes \subseteq Nat
      BY LenProperties DEF EquivInv, EquivTypeOK
    <2>2. QED
      BY <2>1 DEF Skips, Grows
  <1>4. marks' \in Seq(Nat)
    BY <1>3 DEF EquivInv, EquivTypeOK
  <1>5. QED
    BY <1>1, <1>2, <1>4 DEF EquivTypeOK

LEMMA DisjointPreserved ==
  ASSUME EquivInv, NEW item1 \in Items, NEW item2 \in Items,
         Skips(item1, item2) \/ \E k, X : Grows(item1, item2, k, X)
  PROVE  ClassesDisjoint'
  <1>1. CASE Skips(item1, item2)
    BY <1>1 DEF Skips, EquivInv, ClassesDisjoint, Holds
  <1>2. ASSUME NEW k, NEW X, Grows(item1, item2, k, X)
        PROVE  ClassesDisjoint'
    <2>1. DOMAIN eq_classes' = DOMAIN eq_classes \cup {k}
      BY <1>2 DEF Grows
    <2>2. /\ \A c \in DOMAIN eq_classes : c # k => \A x : Holds(c, x)' <=> Holds(c, x)
          /\ \A x \in Items : Holds(k, x)' <=>
               x = item1 \/ x = item2 \/ (k \in DOMAIN eq_classes /\ Holds(k, x))
      BY <1>2, HoldsAfterGrowth
    <2>3. \A d \in DOMAIN eq_classes : d # k => ~Holds(d, item1) /\ ~Holds(d, item2)
      BY <1>2 DEF Grows
    <2>4. \A c, d \in DOMAIN eq_classes : \A x \in Items :
            Holds(c, x) /\ Holds(d, x) => c = d
      BY DEF EquivInv, ClassesDisjoint
    <2>5. ASSUME NEW c \in DOMAIN eq_classes', NEW d \in DOMAIN eq_classes',
                 NEW x \in Items, Holds(c, x)', Holds(d, x)'
          PROVE  c = d
      BY <2>1, <2>2, <2>3, <2>4, <2>5
    <2>6. QED
      BY <2>5 DEF ClassesDisjoint
  <1>3. QED
    BY <1>1, <1>2

LEMMA SourcedPreserved ==
  ASSUME EquivInv, NEW item1 \in Items, NEW item2 \in Items,
         clauses' = Append(clauses, <<item1, item2>>),
         Skips(item1, item2) \/ \E k, X : Grows(item1, item2, k, X)
  PROVE  Sourced'
  <1>1. /\ Len(clauses) \in Nat /\ Len(clauses') = Len(clauses) + 1
        /\ clauses'[Len(clauses) + 1] = <<item1, item2>>
        /\ \A n \in 1 .. Len(clauses) :
             clauses'[n] = clauses[n] /\ clauses[n] \in Items \X Items
    BY StepFacts
  <1>2. CASE Skips(item1, item2)
    BY <1>1, <1>2 DEF Skips, EquivInv, Sourced, Holds
  <1>3. ASSUME NEW k, NEW X, Grows(item1, item2, k, X)
        PROVE  Sourced'
    <2>1. /\ DOMAIN eq_classes' = DOMAIN eq_classes \cup {k} /\ eq_classes'[k] = X
          /\ \A c \in DOMAIN eq_classes : c # k => eq_classes'[c] = eq_classes[c]
          /\ \A m : m \in X.sources <=>
               \/ m = Len(clauses) + 1
               \/ k \in DOMAIN eq_classes /\ m \in eq_classes[k].sources
      BY <1>3 DEF Grows
    <2>2. /\ MemberOf(eq_classes'[k], item1) /\ MemberOf(eq_classes'[k], item2)
          /\ \A c \in DOMAIN eq_classes : \A x \in Items :
               Holds(c, x) => MemberOf(eq_classes'[c], x)
      BY <1>3, HoldsAfterGrowth DEF Holds, MemberOf
    <2>3. ASSUME NEW c \in DOMAIN eq_classes, NEW n \in eq_classes[c].sources
          PROVE  /\ n \in 1 .. Len(clauses')
                 /\ MemberOf(eq_classes'[c], clauses'[n][1])
                 /\ MemberOf(eq_classes'[c], clauses'[n][2])
      <3>1. /\ n \in 1 .. Len(clauses)
            /\ Holds(c, clauses[n][1]) /\ Holds(c, clauses[n][2])
        BY <2>3 DEF EquivInv, Sourced
      <3>2. clauses[n][1] \in Items /\ clauses[n][2] \in Items
        BY <1>1, <3>1
      <3>3. n \in 1 .. Len(clauses') /\ clauses'[n] = clauses[n]
        BY <1>1, <3>1
      <3>4. QED
        BY <2>2, <3>1, <3>2, <3>3
    <2>4. ASSUME NEW c \in DOMAIN eq_classes', NEW n \in eq_classes'[c].sources
          PROVE  /\ n \in 1 .. Len(clauses')
                 /\ MemberOf(eq_classes'[c], clauses'[n][1])
                 /\ MemberOf(eq_classes'[c], clauses'[n][2])
      <3>1. CASE n = Len(clauses) + 1 /\ c = k
        BY <1>1, <2>2, <3>1
      <3>2. CASE c \in DOMAIN eq_classes /\ n \in eq_classes[c].sources
        BY <2>3, <3>2
      <3>3. QED
        BY <2>1, <3>1, <3>2
    <2>5. QED
      BY <2>4 DEF Sourced, Holds, MemberOf
  <1>4. QED
    BY <1>2, <1>3

LEMMA MembersEqualPreserved ==
  ASSUME EquivInv, NEW item1 \in Items, NEW item2 \in Items,
         clauses' = Append(clauses, <<item1, item2>>),
         Skips(item1, item2) \/ \E k, X : Grows(item1, item2, k, X)
  PROVE  MembersEqual'
  <1>1. /\ DOMAIN clauses = 1 .. Len(clauses) /\ Len(clauses) \in Nat
        /\ DOMAIN clauses' = 1 .. Len(clauses) + 1
        /\ clauses'[Len(clauses) + 1] = <<item1, item2>>
        /\ \A n \in 1 .. Len(clauses) : clauses'[n] = clauses[n]
    BY StepFacts
  <1>2. ASSUME NEW row \in Rows, SatisfiesClauses(row)'
        PROVE  /\ SatisfiesClauses(row)
               /\ ValueIn(row, item1) = ValueIn(row, item2)
    <2>1. \A n \in 1 .. Len(clauses) + 1 :
            ValueIn(row, clauses'[n][1]) = ValueIn(row, clauses'[n][2])
      BY <1>1, <1>2 DEF SatisfiesClauses, Satisfies, ValueIn
    <2>2. \A n \in 1 .. Len(clauses) :
            ValueIn(row, clauses[n][1]) = ValueIn(row, clauses[n][2])
      BY <1>1, <2>1
    <2>3. ValueIn(row, item1) = ValueIn(row, item2)
      BY <1>1, <2>1
    <2>4. QED
      BY <1>1, <2>2, <2>3 DEF SatisfiesClauses, Satisfies
  <1>3. \A row \in Rows : SatisfiesClauses(row) =>
          \A c \in DOMAIN eq_classes : \A x, y \in Items :
            Holds(c, x) /\ Holds(c, y) => ValueIn(row, x) = ValueIn(row, y)
    BY DEF EquivInv, MembersEqual
  <1>4. CASE Skips(item1, item2)
    <2>1. eq_classes' = eq_classes
      BY <1>4 DEF Skips
    <2>2. \A c, x : Holds(c, x)' <=> Holds(c, x)
      BY <2>1 DEF Holds
    <2>3. QED
      BY <1>2, <1>3, <2>1, <2>2 DEF MembersEqual, ValueIn
  <1>5. ASSUME NEW k, NEW X, Grows(item1, item2, k, X)
        PROVE  MembersEqual'
    <2>1. /\ DOMAIN eq_classes' = DOMAIN eq_classes \cup {k}
          /\ k \in DOMAIN eq_classes => Holds(k, item1) \/ Holds(k, item2)
      BY <1>5 DEF Grows
    <2>2. /\ \A c \in DOMAIN eq_classes : c # k => \A x : Holds(c, x)' <=> Holds(c, x)
          /\ \A x \in Items : Holds(k, x)' <=>
               x = item1 \/ x = item2 \/ (k \in DOMAIN eq_classes /\ Holds(k, x))
      BY <1>5, HoldsAfterGrowth
    <2>3. ASSUME NEW row \in Rows, SatisfiesClauses(row)',
                 NEW c \in DOMAIN eq_classes', NEW x \in Items, NEW y \in Items,
                 Holds(c, x)', Holds(c, y)'
          PROVE  ValueIn(row, x) = ValueIn(row, y)
      <3>1. SatisfiesClauses(row) /\ ValueIn(row, item1) = ValueIn(row, item2)
        BY <1>2, <2>3
      <3>2. CASE c # k
        BY <1>3, <2>1, <2>2, <2>3, <3>1, <3>2
      <3>3. CASE c = k
        <4>1. ASSUME NEW z \in Items, Holds(k, z)'
              PROVE  ValueIn(row, z) = ValueIn(row, item1)
          BY <1>3, <2>1, <2>2, <3>1, <4>1
        <4>2. QED
          BY <2>3, <3>3, <4>1
      <3>4. QED
        BY <3>2, <3>3
    <2>4. QED
      BY <2>3 DEF MembersEqual, ValueIn
  <1>6. QED
    BY <1>4, <1>5

\* The part of Marked that a step adds or keeps, in terms of the lists after it.
LEMMA MarkedByLists ==
  ASSUME NEW classes, NEW said, NEW mark, NEW n,
         eq_classes' = classes, clauses' = said, marks' = mark,
         \/ /\ \A c \in DOMAIN classes : n \notin classes[c].sources
            /\ mark[n] \in DOMAIN classes /\ MemberOf(classes[mark[n]], said[n][1])
            /\ \E d \in DOMAIN classes :
                 d # mark[n] /\ MemberOf(classes[d], said[n][2])
         \/ \E c \in DOMAIN classes :
              /\ n \in classes[c].sources /\ mark[n] \in {0, c}
              /\ MemberOf(classes[c], said[n][1]) /\ MemberOf(classes[c], said[n][2])
  PROVE  (IF Skipped(n) THEN SkippedBetween(n) ELSE HasSource(n))'
  BY DEF Skipped, SkippedBetween, HasSource, Holds, MemberOf

LEMMA MarkedPreserved ==
  ASSUME EquivInv, NEW item1 \in Items, NEW item2 \in Items,
         clauses' = Append(clauses, <<item1, item2>>),
         Skips(item1, item2) \/ \E k, X : Grows(item1, item2, k, X)
  PROVE  Marked'
  <1> DEFINE new == Len(clauses) + 1
  <1>1. /\ Len(clauses) \in Nat
        /\ DOMAIN clauses = 1 .. Len(clauses)
        /\ Len(clauses') = new /\ DOMAIN clauses' = 1 .. new
        /\ clauses'[new] = <<item1, item2>>
        /\ \A n \in 1 .. Len(clauses) :
             clauses'[n] = clauses[n] /\ clauses[n] \in Items \X Items
    BY StepFacts
  <1>2. marks \in Seq(Nat) /\ Len(marks) = Len(clauses)
    BY DEF EquivInv, EquivTypeOK, Marked
  <1>3. \A m \in Nat : marks' = Append(marks, m) =>
          /\ Len(marks') = new /\ marks'[new] = m
          /\ \A n \in 1 .. Len(clauses) : marks'[n] = marks[n]
    BY <1>1, <1>2
  <1>4. DOMAIN eq_classes \subseteq Nat /\ \A c \in DOMAIN eq_classes : c # 0
    BY LenProperties DEF EquivInv, EquivTypeOK
  \* An old clause keeps its mark and its class.
  <1>5. ASSUME NEW n \in 1 .. Len(clauses)
        PROVE  \/ /\ \A c \in DOMAIN eq_classes : n \notin eq_classes[c].sources
                  /\ marks[n] \in DOMAIN eq_classes
                  /\ MemberOf(eq_classes[marks[n]], clauses[n][1])
                  /\ \E d \in DOMAIN eq_classes :
                       d # marks[n] /\ MemberOf(eq_classes[d], clauses[n][2])
               \/ \E c \in DOMAIN eq_classes :
                    /\ n \in eq_classes[c].sources /\ marks[n] \in {0, c}
                    /\ MemberOf(eq_classes[c], clauses[n][1])
                    /\ MemberOf(eq_classes[c], clauses[n][2])
    BY <1>1 DEF EquivInv, Marked, Skipped, SkippedBetween, HasSource, Holds, MemberOf
  <1>6. \A c \in DOMAIN eq_classes : new \notin eq_classes[c].sources
    BY <1>1 DEF EquivInv, Sourced
  <1>7. CASE Skips(item1, item2)
    <2>1. PICK c \in DOMAIN eq_classes, d \in DOMAIN eq_classes :
            /\ c # d /\ MemberOf(eq_classes[c], item1) /\ MemberOf(eq_classes[d], item2)
            /\ eq_classes' = eq_classes /\ marks' = Append(marks, c)
      BY <1>7 DEF Skips, Holds, MemberOf
    <2>2. /\ Len(marks') = new /\ marks'[new] = c
          /\ \A n \in 1 .. Len(clauses) : marks'[n] = marks[n]
      BY <1>3, <1>4, <2>1
    <2>3. ASSUME NEW n \in 1 .. new
          PROVE  (IF Skipped(n) THEN SkippedBetween(n) ELSE HasSource(n))'
      <3>1. CASE n = new
        <4>1. /\ eq_classes' = eq_classes /\ clauses'[n] = <<item1, item2>>
              /\ marks'[n] = c
          BY <1>1, <2>1, <2>2, <3>1
        <4>2. /\ \A b \in DOMAIN eq_classes' : n \notin eq_classes'[b].sources
              /\ marks'[n] \in DOMAIN eq_classes'
              /\ MemberOf(eq_classes'[marks'[n]], clauses'[n][1])
              /\ d # marks'[n] /\ MemberOf(eq_classes'[d], clauses'[n][2])
          BY <1>6, <2>1, <3>1, <4>1
        <4>3. d \in DOMAIN eq_classes'
          BY <4>1
        <4>4. QED
          BY <4>2, <4>3, MarkedByLists
      <3>2. CASE n \in 1 .. Len(clauses)
        <4>1. /\ eq_classes' = eq_classes /\ clauses'[n] = clauses[n]
              /\ marks'[n] = marks[n]
          BY <1>1, <2>1, <2>2, <3>2
        <4>2. \/ /\ \A b \in DOMAIN eq_classes' : n \notin eq_classes'[b].sources
                 /\ marks'[n] \in DOMAIN eq_classes'
                 /\ MemberOf(eq_classes'[marks'[n]], clauses'[n][1])
                 /\ \E b \in DOMAIN eq_classes' :
                      b # marks'[n] /\ MemberOf(eq_classes'[b], clauses'[n][2])
              \/ \E b \in DOMAIN eq_classes' :
                   /\ n \in eq_classes'[b].sources /\ marks'[n] \in {0, b}
                   /\ MemberOf(eq_classes'[b], clauses'[n][1])
                   /\ MemberOf(eq_classes'[b], clauses'[n][2])
          BY <1>5, <3>2, <4>1
        <4>3. QED
          BY <4>2, MarkedByLists
      <3>3. QED
        BY <1>1, <3>1, <3>2
    <2>4. QED
      BY <1>1, <2>2, <2>3 DEF Marked
  <1>8. ASSUME NEW k, NEW X, Grows(item1, item2, k, X)
        PROVE  Marked'
    <2>1. /\ k \in Nat
          /\ DOMAIN eq_classes' = DOMAIN eq_classes \cup {k} /\ eq_classes'[k] = X
          /\ \A c \in DOMAIN eq_classes : c # k => eq_classes'[c] = eq_classes[c]
          /\ \A m : m \in X.sources <=>
               m = new \/ (k \in DOMAIN eq_classes /\ m \in eq_classes[k].sources)
      BY <1>8 DEF Grows
    <2>2. /\ MemberOf(eq_classes'[k], item1) /\ MemberOf(eq_classes'[k], item2)
          /\ \A c \in DOMAIN eq_classes : \A x \in Items :
               MemberOf(eq_classes[c], x) => MemberOf(eq_classes'[c], x)
      BY <1>8, HoldsAfterGrowth DEF Holds, MemberOf
    <2>3. PICK m \in {0, k} : marks' = Append(marks, m)
      BY <1>8 DEF Grows
    <2>4. /\ Len(marks') = new /\ marks'[new] \in {0, k}
          /\ \A n \in 1 .. Len(clauses) : marks'[n] = marks[n]
      BY <1>3, <2>1, <2>3
    <2>5. \A n \in 1 .. Len(clauses) : \A c \in DOMAIN eq_classes :
            n \in eq_classes'[c].sources <=> n \in eq_classes[c].sources
      BY <1>1, <2>1
    <2>6. ASSUME NEW n \in 1 .. Len(clauses), k \notin DOMAIN eq_classes
          PROVE  n \notin eq_classes'[k].sources
      BY <1>1, <2>1, <2>6
    <2>7. ASSUME NEW n \in 1 .. new
          PROVE  (IF Skipped(n) THEN SkippedBetween(n) ELSE HasSource(n))'
      <3>1. CASE n = new
        BY <1>1, <2>1, <2>2, <2>4, <3>1, MarkedByLists
      <3>2. CASE n \in 1 .. Len(clauses)
        <4>1. /\ clauses'[n] = clauses[n] /\ marks'[n] = marks[n]
              /\ clauses[n][1] \in Items /\ clauses[n][2] \in Items
          BY <1>1, <2>4, <3>2
        <4>2. CASE /\ \A c \in DOMAIN eq_classes : n \notin eq_classes[c].sources
                   /\ marks[n] \in DOMAIN eq_classes
                   /\ MemberOf(eq_classes[marks[n]], clauses[n][1])
                   /\ \E d \in DOMAIN eq_classes :
                        d # marks[n] /\ MemberOf(eq_classes[d], clauses[n][2])
          <5>1. \A c \in DOMAIN eq_classes' : n \notin eq_classes'[c].sources
            BY <2>1, <2>5, <2>6, <3>2, <4>2
          <5>2. /\ marks'[n] \in DOMAIN eq_classes'
                /\ MemberOf(eq_classes'[marks'[n]], clauses'[n][1])
                /\ \E d \in DOMAIN eq_classes' :
                     d # marks'[n] /\ MemberOf(eq_classes'[d], clauses'[n][2])
            BY <2>1, <2>2, <4>1, <4>2
          <5>3. QED
            BY <5>1, <5>2, MarkedByLists
        <4>3. CASE \E c \in DOMAIN eq_classes :
                     /\ n \in eq_classes[c].sources /\ marks[n] \in {0, c}
                     /\ MemberOf(eq_classes[c], clauses[n][1])
                     /\ MemberOf(eq_classes[c], clauses[n][2])
          <5>1. \E c \in DOMAIN eq_classes' :
                  /\ n \in eq_classes'[c].sources /\ marks'[n] \in {0, c}
                  /\ MemberOf(eq_classes'[c], clauses'[n][1])
                  /\ MemberOf(eq_classes'[c], clauses'[n][2])
            BY <2>1, <2>2, <2>5, <3>2, <4>1, <4>3
          <5>2. QED
            BY <5>1, MarkedByLists
        <4>4. QED
          BY <1>5, <3>2, <4>2, <4>3
      <3>3. QED
        BY <1>1, <3>1, <3>2
    <2>8. QED
      BY <1>1, <2>4, <2>7 DEF Marked
  <1>9. QED
    BY <1>7, <1>8

LEMMA EquivNextInv == EquivInv /\ [EquivNext]_equivVars => EquivInv'
  <1> SUFFICES ASSUME EquivInv, [EquivNext]_equivVars PROVE EquivInv'
    OBVIOUS
  <1>1. CASE UNCHANGED equivVars
    BY <1>1 DEF equivVars, EquivInv, EquivTypeOK, ClassesDisjoint, Sourced, MembersEqual,
       Marked, Skipped, SkippedBetween, HasSource, Holds, SatisfiesClauses, Satisfies,
       ValueIn
  <1>2. ASSUME NEW item1 \in Items, NEW item2 \in Items, ProcessEquivalence(item1, item2)
        PROVE  EquivInv'
    <2>1. /\ clauses' = Append(clauses, <<item1, item2>>)
          /\ Skips(item1, item2) \/ \E k, X : Grows(item1, item2, k, X)
      BY <1>2, StepCases
    <2>2. EquivTypeOK' /\ ClassesDisjoint' /\ Sourced' /\ MembersEqual' /\ Marked'
      BY <2>1, TypePreserved, DisjointPreserved, SourcedPreserved,
         MembersEqualPreserved, MarkedPreserved
    <2>3. QED
      BY <2>2 DEF EquivInv
  <1>3. QED
    BY <1>1, <1>2 DEF EquivNext

LEMMA EquivInvariance == EquivSpec => []EquivInv
  BY EquivInitInv, EquivNextInv, PTL DEF EquivSpec

-----------------------------------------------------------------------------
(* The theorems.                                                            *)

\* Classes, clauses and marks have their types.
THEOREM EquivTyping == EquivSpec => []EquivTypeOK
  <1>1. EquivInv => EquivTypeOK
    BY DEF EquivInv
  <1>2. QED
    BY <1>1, EquivInvariance, PTL

\* The search of process_equivalence_demo may stop at the first class.
THEOREM Disjoint == EquivSpec => []ClassesDisjoint
  <1>1. EquivInv => ClassesDisjoint
    BY DEF EquivInv
  <1>2. QED
    BY <1>1, EquivInvariance, PTL

\* left_ec and right_ec of a clause name the class that has it as a source, if
\* they name one at all.
THEOREM MarksRight == EquivSpec => []MarksNameSources
  <1>1. ASSUME EquivInv, NEW n \in DOMAIN clauses
        PROVE  IF Skipped(n)
               THEN /\ marks[n] # 0
                    /\ Holds(marks[n], clauses[n][1]) /\ ~Holds(marks[n], clauses[n][2])
               ELSE \E c \in DOMAIN eq_classes :
                      /\ n \in eq_classes[c].sources /\ marks[n] \in {0, c}
                      /\ Holds(c, clauses[n][1]) /\ Holds(c, clauses[n][2])
    <2>1. clauses[n][2] \in Items
      <3>1. clauses \in Seq(Items \X Items)
        BY <1>1 DEF EquivInv, EquivTypeOK
      <3>2. clauses[n] \in Items \X Items
        BY <3>1, LenProperties, ElementOfSeq
      <3>3. QED
        BY <3>2
    <2>2. 0 \notin DOMAIN eq_classes
      BY <1>1, LenProperties DEF EquivInv, EquivTypeOK
    <2>3. CASE Skipped(n)
      BY <1>1, <2>1, <2>2, <2>3 DEF EquivInv, Marked, SkippedBetween, ClassesDisjoint
    <2>4. CASE ~Skipped(n)
      BY <1>1, <2>4 DEF EquivInv, Marked, HasSource
    <2>5. QED
      BY <2>3, <2>4
  <1>2. EquivInv => MarksNameSources
    BY <1>1 DEF MarksNameSources
  <1>3. QED
    BY <1>2, EquivInvariance, PTL

\* The constant of a class as a member of it.
LEMMA ConstHolds ==
  ASSUME EquivInv, NEW c \in DOMAIN eq_classes, ConstIndices(eq_classes[c]) # {}
  PROVE  /\ FirstConst(eq_classes[c]) \in Items
         /\ Holds(c, FirstConst(eq_classes[c]))
         /\ \E i \in ConstIndices(eq_classes[c]) :
              FirstConst(eq_classes[c]) = eq_classes[c].members[i]
  <1>1. eq_classes[c] \in Classes
    BY ElementOfSeq, LenProperties DEF EquivInv, EquivTypeOK
  <1>2. PICK i \in ConstIndices(eq_classes[c]) :
          FirstConst(eq_classes[c]) = eq_classes[c].members[i]
    BY <1>1, FirstConstIsMember
  <1>3. i \in DOMAIN eq_classes[c].members
    BY DEF ConstIndices
  <1>4. eq_classes[c].members[i] \in Items
    BY <1>1, <1>3, ElementOfSeq, LenProperties DEF Classes
  <1>5. QED
    BY <1>2, <1>3, <1>4 DEF Holds

\* What is generated from a class is about its members.
LEMMA GeneratedFromMembers ==
  ASSUME EquivInv, NEW eq \in Generated
  PROVE  \E c \in DOMAIN eq_classes :
           /\ eq[1] \in Items /\ Holds(c, eq[1])
           /\ eq[2] \in Items /\ Holds(c, eq[2])
  <1>1. PICK c \in DOMAIN eq_classes :
          eq \in ImpliedEqualities(eq_classes[c]) \cup JoinEqualities(eq_classes[c])
    BY DEF Generated
  <1>2. eq_classes[c] \in Classes
    BY ElementOfSeq, LenProperties DEF EquivInv, EquivTypeOK
  <1>3. \A i \in DOMAIN eq_classes[c].members :
          /\ eq_classes[c].members[i] \in Items
          /\ Holds(c, eq_classes[c].members[i])
    BY <1>2, ElementOfSeq, LenProperties DEF Classes, Holds
  <1>4. CASE eq \in ImpliedEqualities(eq_classes[c])
    <2>1. ConstIndices(eq_classes[c]) # {}
      BY <1>4 DEF ImpliedEqualities
    <2>2. \E i \in DOMAIN eq_classes[c].members :
            eq = <<eq_classes[c].members[i], FirstConst(eq_classes[c])>>
      BY <1>4, <2>1 DEF ImpliedEqualities
    <2>3. QED
      BY <1>3, <2>1, <2>2, ConstHolds
  <1>5. CASE eq \in JoinEqualities(eq_classes[c])
    <2>1. \E i, j \in DOMAIN eq_classes[c].members :
            eq = <<eq_classes[c].members[i], eq_classes[c].members[j]>>
      BY <1>5 DEF JoinEqualities
    <2>2. QED
      BY <1>3, <2>1
  <1>6. QED
    BY <1>1, <1>4, <1>5

\* Every row that the clauses let pass also passes the generated conditions:
\* they lose no row of a join.
THEOREM ConditionsFollow == EquivSpec => []OutputsFollow
  <1>1. ASSUME EquivInv, NEW row \in Rows, SatisfiesClauses(row), NEW eq \in Generated
        PROVE  Satisfies(row, eq)
    <2>1. PICK c \in DOMAIN eq_classes :
            /\ eq[1] \in Items /\ Holds(c, eq[1])
            /\ eq[2] \in Items /\ Holds(c, eq[2])
      BY <1>1, GeneratedFromMembers
    <2>2. ValueIn(row, eq[1]) = ValueIn(row, eq[2])
      BY <1>1, <2>1 DEF EquivInv, MembersEqual
    <2>3. QED
      BY <2>2 DEF Satisfies
  <1>2. EquivInv => OutputsFollow
    BY <1>1 DEF OutputsFollow
  <1>3. QED
    BY <1>2, EquivInvariance, PTL

\* The conditions generated from a class with one constant at most make any
\* two of its members equal.
LEMMA ConditionsJoinMembers ==
  ASSUME EquivInv, NEW row \in Rows, NEW c \in DOMAIN eq_classes,
         \A eq \in Generated : Satisfies(row, eq), OneConst(eq_classes[c]),
         NEW x \in Items, NEW y \in Items, Holds(c, x), Holds(c, y)
  PROVE  ValueIn(row, x) = ValueIn(row, y)
  <1> DEFINE ec == eq_classes[c]
  <1>1. ec \in Classes
    BY ElementOfSeq, LenProperties DEF EquivInv, EquivTypeOK
  <1>2. DOMAIN ec.members \subseteq Nat
    BY <1>1, LenProperties DEF Classes
  <1>3. PICK i \in DOMAIN ec.members, j \in DOMAIN ec.members :
          x = ec.members[i] /\ y = ec.members[j]
    BY DEF Holds
  <1>4. \A eq \in ImpliedEqualities(ec) \cup JoinEqualities(ec) :
          ValueIn(row, eq[1]) = ValueIn(row, eq[2])
    BY DEF Generated, Satisfies
  <1>5. ASSUME NEW k \in DOMAIN ec.members \ ConstIndices(ec), ConstIndices(ec) # {}
        PROVE  ValueIn(row, ec.members[k]) = ValueIn(row, FirstConst(ec))
    <2>1. <<ec.members[k], FirstConst(ec)>> \in ImpliedEqualities(ec)
      BY <1>5 DEF ImpliedEqualities
    <2>2. QED
      BY <1>4, <2>1
  <1>6. ASSUME NEW k \in ConstIndices(ec)
        PROVE  ec.members[k] = FirstConst(ec)
    <2>1. \E m \in ConstIndices(ec) : FirstConst(ec) = ec.members[m]
      BY <1>1, <1>6, FirstConstIsMember
    <2>2. QED
      BY <2>1 DEF OneConst
  <1>7. ASSUME NEW k \in DOMAIN ec.members \ ConstIndices(ec),
               NEW m \in DOMAIN ec.members \ ConstIndices(ec), k < m
        PROVE  ValueIn(row, ec.members[k]) = ValueIn(row, ec.members[m])
    <2>1. <<ec.members[k], ec.members[m]>> \in JoinEqualities(ec)
      <3> DEFINE open == DOMAIN ec.members \ ConstIndices(ec)
                 p == <<k, m>>
      <3>1. p \in {q \in open \X open : q[1] < q[2]}
        BY <1>7
      <3>2. <<ec.members[k], ec.members[m]>> = <<ec.members[p[1]], ec.members[p[2]]>>
        OBVIOUS
      <3> HIDE DEF p
      <3>3. QED
        BY <3>1, <3>2 DEF JoinEqualities
    <2>2. QED
      BY <1>4, <2>1
  <1> HIDE DEF ec
  <1>8. CASE ConstIndices(ec) = {}
    <2>1. i < j \/ j < i \/ i = j
      BY <1>2
    <2>2. QED
      BY <1>3, <1>7, <1>8, <2>1
  <1>9. CASE ConstIndices(ec) # {}
    <2>1. \A k \in DOMAIN ec.members :
            ValueIn(row, ec.members[k]) = ValueIn(row, FirstConst(ec))
      BY <1>5, <1>6, <1>9
    <2>2. QED
      BY <1>3, <2>1
  <1>10. QED
    BY <1>8, <1>9

\* Clauses whose class has at most one constant, and that were not skipped,
\* can be left to the generated conditions.
THEOREM ConditionsSuffice == EquivSpec => []OutputsSuffice
  <1>1. ASSUME EquivInv, NEW row \in Rows, \A eq \in Generated : Satisfies(row, eq),
               NEW n \in DOMAIN clauses, NEW c \in DOMAIN eq_classes,
               n \in eq_classes[c].sources, OneConst(eq_classes[c])
        PROVE  Satisfies(row, clauses[n])
    <2>1. clauses[n][1] \in Items /\ clauses[n][2] \in Items
      <3>1. clauses \in Seq(Items \X Items)
        BY <1>1 DEF EquivInv, EquivTypeOK
      <3>2. clauses[n] \in Items \X Items
        BY <3>1, LenProperties, ElementOfSeq
      <3>3. QED
        BY <3>2
    <2>2. Holds(c, clauses[n][1]) /\ Holds(c, clauses[n][2])
      BY <1>1 DEF EquivInv, Sourced
    <2>3. ValueIn(row, clauses[n][1]) = ValueIn(row, clauses[n][2])
      BY <1>1, <2>1, <2>2, ConditionsJoinMembers
    <2>4. QED
      BY <2>3 DEF Satisfies
  <1>2. EquivInv => OutputsSuffice
    BY <1>1 DEF OutputsSuffice, Skipped
  <1>3. QED
    BY <1>2, EquivInvariance, PTL

-----------------------------------------------------------------------------
(* The two formats.                                                         *)

\* Numbers below the width of a word are kept, multiples of four stay such.
LEMMA WordKeeps ==
  ASSUME NEW x \in Nat
  PROVE  /\ 4 * x < Word => (4 * x) % Word = 4 * x
         /\ (4 * x) % Word \in 0 .. Word - 1
         /\ \E y \in Nat : (4 * x) % Word = 4 * y
  <1> DEFINE q == (4 * x) \div Word
             r == (4 * x) % Word
  <1>1. Word \in Nat /\ Word > 0
    BY TextAssumption
  <1>2. PICK w \in Int : Word = 4 * w
    BY TextAssumption
  <1>3. q \in Int /\ r \in Int /\ 0 <= r /\ r < Word /\ 4 * x = Word * q + r
    BY <1>1
  <1>4. 4 * x < Word => r = 4 * x
    BY <1>1
  <1> HIDE DEF q, r
  <1>5. r = 4 * (x - w * q)
    BY <1>1, <1>2, <1>3
  <1>6. x - w * q \in Nat
    BY <1>1, <1>2, <1>3, <1>5
  <1>7. QED
    BY <1>1, <1>3, <1>4, <1>5, <1>6 DEF r

LEMMA ShortText ==
  ASSUME NEW str, Len(str) \in Nat, Len(str) + VARHDRSZ_SHORT <= VARATT_SHORT_MAX
  PROVE  /\ IsShort(Varlena(str)) /\ Size(Varlena(str)) = Len(str) + VARHDRSZ_SHORT
         /\ Intact(Varlena(str))
  <1> DEFINE n == Len(str) + VARHDRSZ_SHORT
             m == 2 * VARATT_SHORT_MAX + 2
             t == Varlena(str)
  <1>1. n \in Nat /\ n <= VARATT_SHORT_MAX /\ m \in Nat /\ 2 * n + 1 < m
    BY TextAssumption
  <1>2. t.header = (2 * n + 1) % m /\ t.bytes = str
    BY DEF Varlena
  <1> HIDE DEF n, m, t
  <1>3. t.header = 2 * n + 1
    BY <1>1, <1>2
  <1>4. IsShort(t) /\ Size(t) = n
    BY <1>1, <1>3 DEF IsShort, Size
  <1>5. TextLength(t) = Len(str)
    BY <1>4, TextAssumption DEF TextLength, n
  <1>6. QED
    BY <1>2, <1>4, <1>5 DEF Intact, t, n

LEMMA LongText ==
  ASSUME NEW str, Len(str) \in Nat, ~(Len(str) + VARHDRSZ_SHORT <= VARATT_SHORT_MAX)
  PROVE  /\ ~IsShort(Varlena(str))
         /\ Len(str) + VARHDRSZ < Word \div 4 =>
              Size(Varlena(str)) = Len(str) + VARHDRSZ /\ Intact(Varlena(str))
         /\ ~(Len(str) + VARHDRSZ < Word \div 4) => ~Intact(Varlena(str))
  <1> DEFINE n == Len(str) + VARHDRSZ
             t == Varlena(str)
  <1>1. n \in Nat /\ Word \in Nat /\ VARHDRSZ \in Nat
    BY TextAssumption
  <1>2. t.header = (4 * n) % Word /\ t.bytes = str
    BY DEF Varlena
  <1> HIDE DEF n, t
  <1>3. PICK y \in Nat : /\ t.header = 4 * y
                         /\ 4 * n < Word => t.header = 4 * n
                         /\ t.header \in 0 .. Word - 1
    BY <1>1, <1>2, WordKeeps
  <1>4. ~IsShort(t) /\ Size(t) = y
    BY <1>3 DEF IsShort, Size
  <1>5. TextLength(t) = y - VARHDRSZ
    BY <1>4 DEF TextLength
  <1>6. Word % 4 = 0
    BY TextAssumption
  <1>7. CASE n < Word \div 4
    <2>1. y = n
      BY <1>1, <1>3, <1>7
    <2>2. QED
      BY <1>1, <1>2, <1>4, <1>5, <1>7, <2>1 DEF Intact, n, t
  <1>8. CASE ~(n < Word \div 4)
    <2>1. y < n
      BY <1>1, <1>3, <1>6, <1>8
    <2>2. TextLength(t) # Len(t.bytes)
      BY <1>1, <1>2, <1>5, <2>1 DEF n
    <2>3. QED
      BY <1>4, <1>8, <2>2 DEF Intact, n, t
  <1>9. QED
    BY <1>7, <1>8

LEMMA TextIsBytes ==
  ASSUME NEW S, NEW str \in Seq(S), Intact(Varlena(str))
  PROVE  TextLength(Varlena(str)) = Len(str) /\ TextToCString(Varlena(str)) = str
  <1>1. Varlena(str).bytes = str
    BY DEF Varlena
  <1>2. TextLength(Varlena(str)) = Len(str)
    BY <1>1 DEF Intact
  <1>3. QED
    BY <1>1, <1>2, SubSeqFull DEF TextToCString

-----------------------------------------------------------------------------
(* A text is always what its content makes it.                              *)

TextInv == content \in Seq(Characters) /\ text = Varlena(content)

LEMMA InvKeeps == TextInv => TextKept
  <1> SUFFICES ASSUME TextInv
               PROVE  TextKept
    OBVIOUS
  <1> DEFINE n == Len(content)
  <1>1. n \in Nat /\ text = Varlena(content) /\ content \in Seq(Characters)
    BY DEF TextInv
  <1>2. Intact(text) => TextToCString(text) = content
    BY <1>1, TextIsBytes
  <1>3. CASE n + VARHDRSZ_SHORT <= VARATT_SHORT_MAX
    <2>1. IsShort(text) /\ Size(text) = n + VARHDRSZ_SHORT /\ Intact(text)
      BY <1>1, <1>3, ShortText
    <2>2. n + VARHDRSZ < Word \div 4
      BY <1>1, <1>3, TextAssumption
    <2>3. QED
      BY <1>2, <1>3, <2>1, <2>2 DEF TextKept
  <1>4. CASE ~(n + VARHDRSZ_SHORT <= VARATT_SHORT_MAX)
    <2>1. /\ ~IsShort(text)
          /\ n + VARHDRSZ < Word \div 4 => Size(text) = n + VARHDRSZ /\ Intact(text)
          /\ ~(n + VARHDRSZ < Word \div 4) => ~Intact(text)
      BY <1>1, <1>4, LongText
    <2>2. ~(n + VARHDRSZ <= VARATT_SHORT_MAX)
      BY <1>1, <1>4, TextAssumption
    <2>3. QED
      BY <1>2, <2>1, <2>2 DEF TextKept
  <1>5. QED
    BY <1>3, <1>4

LEMMA SubstringKeeps ==
  ASSUME TextInv, NEW start \in Int, NEW length \in Int, Substring(start, length)
  PROVE  TextInv'
  <1> DEFINE n == Len(content)
             from == (IF start <= 0 THEN 1 ELSE start) - 1
             rest == n - from
             len == IF length < 0 \/ length > rest THEN rest ELSE length
             first == IF start < 1 THEN 1 ELSE start
             last == IF length < 0 THEN n ELSE first + length - 1
             end == IF last < n THEN last ELSE n
  <1>1. /\ content \in Seq(Characters) /\ n \in Nat
        /\ text = Varlena(content) /\ Intact(text)
        /\ text' = TextSubstring(text, start, length)
        /\ content' = SubSeq(content, first, end)
    BY DEF TextInv, Substring, Part
  <1>2. TextLength(text) = n /\ text.bytes = content
    BY <1>1, TextIsBytes DEF Varlena
  <1>3. text' = IF from >= n THEN Varlena(<<>>)
                ELSE Varlena(SubSeq(content, from + 1, from + len))
    BY <1>1, <1>2 DEF TextSubstring
  <1>4. first \in Int /\ from \in Int /\ from + 1 = first /\ end \in Int /\ end <= n
        /\ first >= 1 /\ len \in Int
    BY <1>1
  <1>5. content' \in Seq(Characters)
    <2>1. \A i \in first .. end : content[i] \in Characters
      BY <1>1, <1>4
    <2>2. QED
      BY <1>1, <1>4, <2>1, SubSeqProperties
  <1>6. CASE from >= n
    <2>1. end < first
      BY <1>1, <1>4, <1>6
    <2>2. content' = <<>>
      BY <1>1, <1>4, <2>1, SubSeqEmpty
    <2>3. QED
      BY <1>3, <1>5, <1>6, <2>2 DEF TextInv
  <1>7. CASE ~(from >= n)
    <2>1. from + len = end
      <3> HIDE DEF n
      <3>1. n \in Nat /\ from < n /\ from + 1 = first /\ from \in Int
        BY <1>1, <1>4, <1>7
      <3>2. CASE length < 0
        BY <3>1, <3>2
      <3>3. CASE ~(length < 0)
        BY <3>1, <3>3
      <3>4. QED
        BY <3>2, <3>3
    <2>2. text' = Varlena(content')
      BY <1>1, <1>3, <1>4, <1>7, <2>1
    <2>3. QED
      BY <1>5, <2>2 DEF TextInv
  <1>8. QED
    BY <1>6, <1>7

LEMMA TextStep == TextInv /\ [TextNext]_textVars => TextInv'
  <1> SUFFICES ASSUME TextInv, [TextNext]_textVars
               PROVE  TextInv'
    OBVIOUS
  <1>1. ASSUME NEW str \in Strings, Create(str)
        PROVE  TextInv'
    BY <1>1, TextAssumption DEF Create, TextInv
  <1>2. ASSUME NEW str \in Strings, Concat(str)
        PROVE  TextInv'
    <2>1. /\ str \in Seq(Characters) /\ content \in Seq(Characters)
          /\ text = Varlena(content)
          /\ Intact(text) /\ Intact(Varlena(str))
      BY <1>2, TextAssumption DEF Concat, TextInv
    <2>2. TextToCString(text) = content /\ TextToCString(Varlena(str)) = str
      BY <2>1, TextIsBytes
    <2>3. content \o str \in Seq(Characters) /\ str \o content \in Seq(Characters)
      BY <2>1
    <2>4. QED
      BY <1>2, <2>2, <2>3 DEF Concat, TextInv
  <1>3. ASSUME NEW start \in -1 .. MaxText + 1, NEW length \in -1 .. MaxText,
               Substring(start, length)
        PROVE  TextInv'
    <2>1. start \in Int /\ length \in Int
      BY TextAssumption
    <2>2. QED
      BY <1>3, <2>1, SubstringKeeps
  <1>4. CASE UNCHANGED textVars
    BY <1>4 DEF textVars, TextInv
  <1>5. QED
    BY <1>1, <1>2, <1>3, <1>4 DEF TextNext

\* Through any sequence of concatenations and substrings of strings of any
\* length, a text is read back as the bytes it should have, in the format that
\* its length calls for, as long as its size fits the long header.
THEOREM TextsAreKept == TextSpec => []TextKept
  <1>1. TextInit => TextInv
    BY EmptySeq DEF TextInit, TextInv
  <1>2. TextInv => TextKept
    BY InvKeeps
  <1>3. QED
    BY <1>1, <1>2, TextStep, PTL DEF TextSpec

-----------------------------------------------------------------------------
(* The inductive invariant.                                                 *)

(* TypeOK in two parts: what is true or false, and the rest.                *)
Switches ==
  /\ InterruptPending \in BOOLEAN /\ QueryCancelPending \in BOOLEAN
  /\ QueryRunning \in BOOLEAN
  /\ ReadingFromFrontend \in BOOLEAN /\ InTransaction \in BOOLEAN
  /\ second \in BOOLEAN /\ aimed \in BOOLEAN

Numbers ==
  /\ InterruptHoldoffCount \in Nat /\ QueryCancelHoldoffCount \in Nat
  /\ CritSectionCount \in Nat
  /\ at \in {"menu", "query", "read", "readHeld", "readDone", "commit",
             "commitHeld", "commitDone", "wal", "walCrit", "exited"}
  /\ step \in Nat /\ step <= Limit
  /\ phase \in {"work", "check", "entered", "cleared", "cancel"}
  /\ signals \in 0 .. MaxSignals

\* Where main is when it is not at work, and what it is reading from.
Places ==
  /\ at \in {"menu", "exited"} => phase = "work"
  /\ ReadingFromFrontend <=> at \in {"read", "readHeld"}

\* ProcessInterrupts gets past its test outside the regions of the counters
\* only, and to the cancel outside those of a frontend message.
Passed ==
  /\ phase \in {"cleared", "cancel"} => at \notin {"readHeld", "commitHeld", "walCrit"}
  /\ phase = "cancel" => at # "read"

\* A signal that arrived in time stays pending until its query is told to
\* stop, which happens before the last check is over.
Aimed ==
  at = "query" /\ aimed /\ QueryRunning =>
    QueryCancelPending /\ ~(phase = "work" /\ step = TotalSteps)

IInv ==
  /\ TypeOK
  /\ Places
  /\ CountersMatchRegions
  /\ CancelIsNoticed
  /\ Passed
  /\ Aimed

LEMMA InitInv == Init => IInv
  <1> SUFFICES ASSUME Init PROVE IInv
    OBVIOUS
  <1>1. Switches
    BY DEF Init, Switches
  <1>2. Numbers
    BY StepsAssumption DEF Init, Numbers, Limit
  <1>3. TypeOK
    BY <1>1, <1>2 DEF TypeOK, Switches, Numbers
  <1>4. Places /\ CountersMatchRegions /\ CancelIsNoticed /\ Passed /\ Aimed
    BY DEF Init, Places, CountersMatchRegions, CancelIsNoticed, Passed, Aimed
  <1>5. QED
    BY <1>3, <1>4 DEF IInv

-----------------------------------------------------------------------------
(* Each conjunct is preserved by every action.                              *)

LEMMA SwitchesPreserved ==
  ASSUME IInv, [Next]_vars
  PROVE  Switches'
  <1>1. CASE StatementCancelHandler
    BY <1>1 DEF StatementCancelHandler, counts, modes, IInv, TypeOK, Switches
  <1>2. CASE Choose
    BY <1>2 DEF Choose, StartQuery, Goto, Keep, counts, modes, flags, IInv, TypeOK, Switches
  <1>3. CASE Work
    BY <1>3 DEF Work, Keep, counts, modes, flags, IInv, TypeOK, Switches
  <1>4. CASE Check
    BY <1>4 DEF Check, flags, counts, modes, IInv, TypeOK, Switches
  <1>5. CASE Enter
    BY <1>5 DEF Enter, counts, modes, IInv, TypeOK, Switches
  <1>6. CASE TestCancel
    BY <1>6 DEF TestCancel, counts, modes, IInv, TypeOK, Switches
  <1>7. CASE Cancel
    BY <1>7 DEF Cancel, counts, modes, IInv, TypeOK, Switches
  <1>8. CASE QueryReturns
    BY <1>8 DEF QueryReturns, Goto, Keep, counts, flags, IInv, TypeOK, Switches
  <1>9. CASE HoldRead
    BY <1>9 DEF HoldRead, Goto, Keep, modes, flags, IInv, TypeOK, Switches
  <1>10. CASE ReadReturns
    BY <1>10 DEF ReadReturns, GotoCheck, Resume, Keep, flags, IInv, TypeOK, Switches
  <1>11. CASE SecondQuery
    BY <1>11 DEF SecondQuery, StartQuery, Goto, Keep, counts, modes, flags, IInv, TypeOK, Switches
  <1>12. CASE HoldCommit
    BY <1>12 DEF HoldCommit, Goto, Keep, modes, flags, IInv, TypeOK, Switches
  <1>13. CASE CommitReturns
    BY <1>13 DEF CommitReturns, GotoCheck, Resume, Keep, flags, IInv, TypeOK, Switches
  <1>14. CASE BackToMenu
    BY <1>14 DEF BackToMenu, Goto, Keep, counts, modes, flags, IInv, TypeOK, Switches
  <1>15. CASE ReportError
    BY <1>15 DEF ReportError, Goto, Keep, modes, flags, IInv, TypeOK, Switches
  <1>16. CASE UNCHANGED vars
    BY <1>16 DEF vars, flags, counts, modes, IInv, TypeOK, Switches
  <1>17. QED
    BY <1>1, <1>2, <1>3, <1>4, <1>5, <1>6, <1>7, <1>8, <1>9, <1>10, <1>11, <1>12, <1>13, <1>14, <1>15, <1>16 DEF Next, Main

LEMMA NumbersPreserved ==
  ASSUME IInv, [Next]_vars
  PROVE  Numbers'
  <1>1. CASE StatementCancelHandler
    BY <1>1, StepsAssumption DEF StatementCancelHandler, counts, modes, IInv, TypeOK, Limit, Numbers
  <1>2. CASE Choose
    BY <1>2, StepsAssumption DEF Choose, StartQuery, Goto, Keep, counts, modes, flags, IInv, TypeOK, Limit, Numbers
  <1>3. CASE Work
    BY <1>3, StepsAssumption DEF Work, Keep, counts, modes, flags, IInv, TypeOK, Limit, Numbers
  <1>4. CASE Check
    BY <1>4, StepsAssumption DEF Check, flags, counts, modes, IInv, TypeOK, Limit, Numbers
  <1>5. CASE Enter
    BY <1>5, StepsAssumption DEF Enter, counts, modes, IInv, TypeOK, Limit, Numbers
  <1>6. CASE TestCancel
    BY <1>6, StepsAssumption DEF TestCancel, counts, modes, IInv, TypeOK, Limit, Numbers
  <1>7. CASE Cancel
    BY <1>7, StepsAssumption DEF Cancel, counts, modes, IInv, TypeOK, Limit, Numbers
  <1>8. CASE QueryReturns
    BY <1>8, StepsAssumption DEF QueryReturns, Goto, Keep, counts, flags, IInv, TypeOK, Limit, Numbers
  <1>9. CASE HoldRead
    BY <1>9, StepsAssumption DEF HoldRead, Goto, Keep, modes, flags, IInv, TypeOK, Limit, Numbers
  <1>10. CASE ReadReturns
    BY <1>10, StepsAssumption DEF ReadReturns, GotoCheck, Resume, Keep, flags, IInv, TypeOK, Limit, Numbers
  <1>11. CASE SecondQuery
    BY <1>11, StepsAssumption DEF SecondQuery, StartQuery, Goto, Keep, counts, modes, flags, IInv, TypeOK, Limit, Numbers
  <1>12. CASE HoldCommit
    BY <1>12, StepsAssumption DEF HoldCommit, Goto, Keep, modes, flags, IInv, TypeOK, Limit, Numbers
  <1>13. CASE CommitReturns
    BY <1>13, StepsAssumption DEF CommitReturns, GotoCheck, Resume, Keep, flags, IInv, TypeOK, Limit, Numbers
  <1>14. CASE BackToMenu
    BY <1>14, StepsAssumption DEF BackToMenu, Goto, Keep, counts, modes, flags, IInv, TypeOK, Limit, Numbers
  <1>15. CASE ReportError
    BY <1>15, StepsAssumption DEF ReportError, Goto, Keep, modes, flags, IInv, TypeOK, Limit, Numbers
  <1>16. CASE UNCHANGED vars
    BY <1>16 DEF vars, flags, counts, modes, IInv, TypeOK, Limit, Numbers
  <1>17. QED
    BY <1>1, <1>2, <1>3, <1>4, <1>5, <1>6, <1>7, <1>8, <1>9, <1>10, <1>11, <1>12, <1>13, <1>14, <1>15, <1>16 DEF Next, Main

LEMMA FlagTypesPreserved ==
  ASSUME IInv, [Next]_vars
  PROVE  TypeOK'
  <1>1. Switches' /\ Numbers'
    BY SwitchesPreserved, NumbersPreserved
  <1>2. QED
    BY <1>1 DEF TypeOK, Switches, Numbers

LEMMA PlacesPreserved ==
  ASSUME IInv, [Next]_vars
  PROVE  Places'
  <1>1. CASE StatementCancelHandler
    BY <1>1 DEF StatementCancelHandler, counts, modes, IInv, TypeOK, Limit, Places
  <1>2. CASE Choose
    BY <1>2 DEF Choose, StartQuery, Goto, Keep, counts, modes, flags, IInv, TypeOK, Limit, Places
  <1>3. CASE Work
    BY <1>3 DEF Work, Keep, counts, modes, flags, IInv, TypeOK, Limit, Places
  <1>4. CASE Check
    BY <1>4 DEF Check, flags, counts, modes, IInv, TypeOK, Limit, Places
  <1>5. CASE Enter
    BY <1>5 DEF Enter, counts, modes, IInv, TypeOK, Limit, Places
  <1>6. CASE TestCancel
    BY <1>6 DEF TestCancel, counts, modes, IInv, TypeOK, Limit, Places
  <1>7. CASE Cancel
    BY <1>7 DEF Cancel, counts, modes, IInv, TypeOK, Limit, Places
  <1>8. CASE QueryReturns
    BY <1>8 DEF QueryReturns, Goto, Keep, counts, flags, IInv, TypeOK, Limit, Places
  <1>9. CASE HoldRead
    BY <1>9 DEF HoldRead, Goto, Keep, modes, flags, IInv, TypeOK, Limit, Places
  <1>10. CASE ReadReturns
    BY <1>10 DEF ReadReturns, GotoCheck, Resume, Keep, flags, IInv, TypeOK, Limit, Places
  <1>11. CASE SecondQuery
    BY <1>11 DEF SecondQuery, StartQuery, Goto, Keep, counts, modes, flags, IInv, TypeOK, Limit, Places
  <1>12. CASE HoldCommit
    BY <1>12 DEF HoldCommit, Goto, Keep, modes, flags, IInv, TypeOK, Limit, Places
  <1>13. CASE CommitReturns
    BY <1>13 DEF CommitReturns, GotoCheck, Resume, Keep, flags, IInv, TypeOK, Limit, Places
  <1>14. CASE BackToMenu
    BY <1>14 DEF BackToMenu, Goto, Keep, counts, modes, flags, IInv, TypeOK, Limit, Places
  <1>15. CASE ReportError
    BY <1>15 DEF ReportError, Goto, Keep, modes, flags, IInv, TypeOK, Limit, Places
  <1>16. CASE UNCHANGED vars
    BY <1>16 DEF vars, flags, counts, modes, IInv, TypeOK, Limit, Places
  <1>17. QED
    BY <1>1, <1>2, <1>3, <1>4, <1>5, <1>6, <1>7, <1>8, <1>9, <1>10, <1>11, <1>12, <1>13, <1>14, <1>15, <1>16 DEF Next, Main

LEMMA CountersPreserved ==
  ASSUME IInv, [Next]_vars
  PROVE  CountersMatchRegions'
  <1>1. CASE StatementCancelHandler
    BY <1>1 DEF StatementCancelHandler, counts, modes, IInv, TypeOK, Places, CountersMatchRegions
  <1>2. CASE Choose
    BY <1>2 DEF Choose, StartQuery, Goto, Keep, counts, modes, flags, IInv, TypeOK, Places, CountersMatchRegions
  <1>3. CASE Work
    BY <1>3 DEF Work, Keep, counts, modes, flags, IInv, TypeOK, Places, CountersMatchRegions
  <1>4. CASE Check
    BY <1>4 DEF Check, flags, counts, modes, IInv, TypeOK, Places, CountersMatchRegions
  <1>5. CASE Enter
    BY <1>5 DEF Enter, counts, modes, IInv, TypeOK, Places, CountersMatchRegions
  <1>6. CASE TestCancel
    BY <1>6 DEF TestCancel, counts, modes, IInv, TypeOK, Places, CountersMatchRegions
  <1>7. CASE Cancel
    BY <1>7 DEF Cancel, counts, modes, IInv, TypeOK, Places, CountersMatchRegions
  <1>8. CASE QueryReturns
    BY <1>8 DEF QueryReturns, Goto, Keep, counts, flags, IInv, TypeOK, Places, CountersMatchRegions
  <1>9. CASE HoldRead
    BY <1>9 DEF HoldRead, Goto, Keep, modes, flags, IInv, TypeOK, Places, CountersMatchRegions
  <1>10. CASE ReadReturns
    BY <1>10 DEF ReadReturns, GotoCheck, Resume, Keep, flags, IInv, TypeOK, Places, CountersMatchRegions
  <1>11. CASE SecondQuery
    BY <1>11 DEF SecondQuery, StartQuery, Goto, Keep, counts, modes, flags, IInv, TypeOK, Places, CountersMatchRegions
  <1>12. CASE HoldCommit
    BY <1>12 DEF HoldCommit, Goto, Keep, modes, flags, IInv, TypeOK, Places, CountersMatchRegions
  <1>13. CASE CommitReturns
    BY <1>13 DEF CommitReturns, GotoCheck, Resume, Keep, flags, IInv, TypeOK, Places, CountersMatchRegions
  <1>14. CASE BackToMenu
    BY <1>14 DEF BackToMenu, Goto, Keep, counts, modes, flags, IInv, TypeOK, Places, CountersMatchRegions
  <1>15. CASE ReportError
    BY <1>15 DEF ReportError, Goto, Keep, modes, flags, IInv, TypeOK, Places, CountersMatchRegions
  <1>16. CASE UNCHANGED vars
    BY <1>16 DEF vars, flags, counts, modes, IInv, TypeOK, Places, CountersMatchRegions
  <1>17. QED
    BY <1>1, <1>2, <1>3, <1>4, <1>5, <1>6, <1>7, <1>8, <1>9, <1>10, <1>11, <1>12, <1>13, <1>14, <1>15, <1>16 DEF Next, Main

LEMMA NoticePreserved ==
  ASSUME IInv, [Next]_vars
  PROVE  CancelIsNoticed'
  <1>1. CASE StatementCancelHandler
    BY <1>1 DEF StatementCancelHandler, counts, modes, IInv, Places, CancelIsNoticed
  <1>2. CASE Choose
    BY <1>2 DEF Choose, StartQuery, Goto, Keep, counts, modes, flags, IInv, Places, CancelIsNoticed
  <1>3. CASE Work
    BY <1>3 DEF Work, Keep, counts, modes, flags, IInv, Places, CancelIsNoticed
  <1>4. CASE Check
    BY <1>4 DEF Check, flags, counts, modes, IInv, Places, CancelIsNoticed
  <1>5. CASE Enter
    BY <1>5 DEF Enter, counts, modes, IInv, Places, CancelIsNoticed
  <1>6. CASE TestCancel
    BY <1>6 DEF TestCancel, counts, modes, IInv, Places, CancelIsNoticed
  <1>7. CASE Cancel
    BY <1>7 DEF Cancel, counts, modes, IInv, Places, CancelIsNoticed
  <1>8. CASE QueryReturns
    BY <1>8 DEF QueryReturns, Goto, Keep, counts, flags, IInv, Places, CancelIsNoticed
  <1>9. CASE HoldRead
    BY <1>9 DEF HoldRead, Goto, Keep, modes, flags, IInv, Places, CancelIsNoticed
  <1>10. CASE ReadReturns
    BY <1>10 DEF ReadReturns, GotoCheck, Resume, Keep, flags, IInv, Places, CancelIsNoticed
  <1>11. CASE SecondQuery
    BY <1>11 DEF SecondQuery, StartQuery, Goto, Keep, counts, modes, flags, IInv, Places, CancelIsNoticed
  <1>12. CASE HoldCommit
    BY <1>12 DEF HoldCommit, Goto, Keep, modes, flags, IInv, Places, CancelIsNoticed
  <1>13. CASE CommitReturns
    BY <1>13 DEF CommitReturns, GotoCheck, Resume, Keep, flags, IInv, Places, CancelIsNoticed
  <1>14. CASE BackToMenu
    BY <1>14 DEF BackToMenu, Goto, Keep, counts, modes, flags, IInv, Places, CancelIsNoticed
  <1>15. CASE ReportError
    BY <1>15 DEF ReportError, Goto, Keep, modes, flags, IInv, Places, CancelIsNoticed
  <1>16. CASE UNCHANGED vars
    BY <1>16 DEF vars, flags, counts, modes, IInv, Places, CancelIsNoticed
  <1>17. QED
    BY <1>1, <1>2, <1>3, <1>4, <1>5, <1>6, <1>7, <1>8, <1>9, <1>10, <1>11, <1>12, <1>13, <1>14, <1>15, <1>16 DEF Next, Main

LEMMA PassedPreserved ==
  ASSUME IInv, [Next]_vars
  PROVE  Passed'
  <1>1. CASE StatementCancelHandler
    BY <1>1 DEF StatementCancelHandler, counts, modes, IInv, Places, CountersMatchRegions, Passed
  <1>2. CASE Choose
    BY <1>2 DEF Choose, StartQuery, Goto, Keep, counts, modes, flags, IInv, Places, CountersMatchRegions, Passed
  <1>3. CASE Work
    BY <1>3 DEF Work, Keep, counts, modes, flags, IInv, Places, CountersMatchRegions, Passed
  <1>4. CASE Check
    BY <1>4 DEF Check, flags, counts, modes, IInv, Places, CountersMatchRegions, Passed
  <1>5. CASE Enter
    BY <1>5 DEF Enter, counts, modes, IInv, Places, CountersMatchRegions, Passed, INTERRUPTS_CAN_BE_PROCESSED
  <1>6. CASE TestCancel
    BY <1>6 DEF TestCancel, counts, modes, IInv, Places, CountersMatchRegions, Passed
  <1>7. CASE Cancel
    BY <1>7 DEF Cancel, counts, modes, IInv, Places, CountersMatchRegions, Passed
  <1>8. CASE QueryReturns
    BY <1>8 DEF QueryReturns, Goto, Keep, counts, flags, IInv, Places, CountersMatchRegions, Passed
  <1>9. CASE HoldRead
    BY <1>9 DEF HoldRead, Goto, Keep, modes, flags, IInv, Places, CountersMatchRegions, Passed
  <1>10. CASE ReadReturns
    BY <1>10 DEF ReadReturns, GotoCheck, Resume, Keep, flags, IInv, Places, CountersMatchRegions, Passed
  <1>11. CASE SecondQuery
    BY <1>11 DEF SecondQuery, StartQuery, Goto, Keep, counts, modes, flags, IInv, Places, CountersMatchRegions, Passed
  <1>12. CASE HoldCommit
    BY <1>12 DEF HoldCommit, Goto, Keep, modes, flags, IInv, Places, CountersMatchRegions, Passed
  <1>13. CASE CommitReturns
    BY <1>13 DEF CommitReturns, GotoCheck, Resume, Keep, flags, IInv, Places, CountersMatchRegions, Passed
  <1>14. CASE BackToMenu
    BY <1>14 DEF BackToMenu, Goto, Keep, counts, modes, flags, IInv, Places, CountersMatchRegions, Passed
  <1>15. CASE ReportError
    BY <1>15 DEF ReportError, Goto, Keep, modes, flags, IInv, Places, CountersMatchRegions, Passed
  <1>16. CASE UNCHANGED vars
    BY <1>16 DEF vars, flags, counts, modes, IInv, Places, CountersMatchRegions, Passed
  <1>17. QED
    BY <1>1, <1>2, <1>3, <1>4, <1>5, <1>6, <1>7, <1>8, <1>9, <1>10, <1>11, <1>12, <1>13, <1>14, <1>15, <1>16 DEF Next, Main

LEMMA AimedPreserved ==
  ASSUME IInv, [Next]_vars
  PROVE  Aimed'
  <1>1. CASE StatementCancelHandler
    BY <1>1 DEF StatementCancelHandler, counts, modes, IInv, TypeOK, Places, CountersMatchRegions, CancelIsNoticed, Aimed, QueryOver
  <1>2. CASE Choose
    BY <1>2 DEF Choose, StartQuery, Goto, Keep, counts, modes, flags, IInv, TypeOK, Places, CountersMatchRegions, CancelIsNoticed, Aimed
  <1>3. CASE Work
    BY <1>3 DEF Work, Keep, counts, modes, flags, IInv, TypeOK, Places, CountersMatchRegions, CancelIsNoticed, Aimed, Limit
  <1>4. CASE Check
    BY <1>4 DEF Check, flags, counts, modes, IInv, TypeOK, Places, CountersMatchRegions, CancelIsNoticed, Aimed
  <1>5. CASE Enter
    BY <1>5 DEF Enter, counts, modes, IInv, TypeOK, Places, CountersMatchRegions, CancelIsNoticed, Aimed, INTERRUPTS_CAN_BE_PROCESSED
  <1>6. CASE TestCancel
    BY <1>6 DEF TestCancel, counts, modes, IInv, TypeOK, Places, CountersMatchRegions, CancelIsNoticed, Aimed
  <1>7. CASE Cancel
    BY <1>7 DEF Cancel, counts, modes, IInv, TypeOK, Places, CountersMatchRegions, CancelIsNoticed, Aimed
  <1>8. CASE QueryReturns
    BY <1>8 DEF QueryReturns, Goto, Keep, counts, flags, IInv, TypeOK, Places, CountersMatchRegions, CancelIsNoticed, Aimed
  <1>9. CASE HoldRead
    BY <1>9 DEF HoldRead, Goto, Keep, modes, flags, IInv, TypeOK, Places, CountersMatchRegions, CancelIsNoticed, Aimed
  <1>10. CASE ReadReturns
    BY <1>10 DEF ReadReturns, GotoCheck, Resume, Keep, flags, IInv, TypeOK, Places, CountersMatchRegions, CancelIsNoticed, Aimed
  <1>11. CASE SecondQuery
    BY <1>11 DEF SecondQuery, StartQuery, Goto, Keep, counts, modes, flags, IInv, TypeOK, Places, CountersMatchRegions, CancelIsNoticed, Aimed
  <1>12. CASE HoldCommit
    BY <1>12 DEF HoldCommit, Goto, Keep, modes, flags, IInv, TypeOK, Places, CountersMatchRegions, CancelIsNoticed, Aimed
  <1>13. CASE CommitReturns
    BY <1>13 DEF CommitReturns, GotoCheck, Resume, Keep, flags, IInv, TypeOK, Places, CountersMatchRegions, CancelIsNoticed, Aimed
  <1>14. CASE BackToMenu
    BY <1>14 DEF BackToMenu, Goto, Keep, counts, modes, flags, IInv, TypeOK, Places, CountersMatchRegions, CancelIsNoticed, Aimed
  <1>15. CASE ReportError
    BY <1>15 DEF ReportError, Goto, Keep, modes, flags, IInv, TypeOK, Places, CountersMatchRegions, CancelIsNoticed, Aimed
  <1>16. CASE UNCHANGED vars
    BY <1>16 DEF vars, flags, counts, modes, IInv, TypeOK, Places, CountersMatchRegions, CancelIsNoticed, Aimed
  <1>17. QED
    BY <1>1, <1>2, <1>3, <1>4, <1>5, <1>6, <1>7, <1>8, <1>9, <1>10, <1>11, <1>12, <1>13, <1>14, <1>15, <1>16 DEF Next, Main

LEMMA NextInv == IInv /\ [Next]_vars => IInv'
  BY FlagTypesPreserved, PlacesPreserved, CountersPreserved, NoticePreserved,
     PassedPreserved, AimedPreserved DEF IInv

LEMMA Invariance == Spec => []IInv
  BY InitInv, NextInv, PTL DEF Spec

-----------------------------------------------------------------------------
(* The theorems.                                                            *)

\* Flags, counters and places of main have their types; no loop runs on.
THEOREM Typing == Spec => []TypeOK
  <1>1. IInv => TypeOK
    BY DEF IInv
  <1>2. QED
    BY <1>1, Invariance, PTL

\* At whatever statement of ProcessInterrupts a SIGINT arrives, the cancel it
\* asks for is seen by the next check.
THEOREM NothingLostBetweenFlags == Spec => []CancelIsNoticed
  <1>1. IInv => CancelIsNoticed
    BY DEF IInv
  <1>2. QED
    BY <1>1, Invariance, PTL

\* HOLD_, RESUME_ and the critical section leave their counters balanced, also
\* when an error jumps out.
THEOREM CountersBalanced == Spec => []CountersMatchRegions
  <1>1. IInv => CountersMatchRegions
    BY DEF IInv
  <1>2. QED
    BY <1>1, Invariance, PTL

\* A query of any length that is signalled before its last check is over does
\* not complete.
THEOREM SignalStopsQuery == Spec => []SignalledQueryStops
  <1>1. IInv => SignalledQueryStops
    BY DEF IInv, Aimed, SignalledQueryStops
  <1>2. QED
    BY <1>1, Invariance, PTL

LEMMA OnlyCancelClears ==
  ASSUME IInv, [Next]_vars, QueryCancelPending, ~QueryCancelPending'
  PROVE  Cancel
  <1>1. CASE StatementCancelHandler
    BY <1>1 DEF StatementCancelHandler, counts, modes
  <1>2. CASE Choose
    BY <1>2 DEF Choose, Keep, flags, counts, modes
  <1>3. CASE Work
    BY <1>3 DEF Work, Keep, flags, counts, modes
  <1>4. CASE Check
    BY <1>4 DEF Check, flags, counts, modes
  <1>5. CASE Enter
    BY <1>5 DEF Enter, counts, modes
  <1>6. CASE TestCancel
    BY <1>6 DEF TestCancel, counts, modes
  <1>7. CASE QueryReturns
    BY <1>7 DEF QueryReturns, Keep, flags, counts
  <1>8. CASE HoldRead
    BY <1>8 DEF HoldRead, Keep, flags, modes
  <1>9. CASE ReadReturns
    BY <1>9 DEF ReadReturns, Keep, flags
  <1>10. CASE SecondQuery
    BY <1>10 DEF SecondQuery, Keep, flags, counts, modes
  <1>11. CASE HoldCommit
    BY <1>11 DEF HoldCommit, Keep, flags, modes
  <1>12. CASE CommitReturns
    BY <1>12 DEF CommitReturns, Keep, flags
  <1>13. CASE BackToMenu
    BY <1>13 DEF BackToMenu, Keep, flags, counts, modes
  <1>14. CASE ReportError
    BY <1>14 DEF ReportError, Keep, flags, modes
  <1>15. CASE UNCHANGED vars
    BY <1>15 DEF vars, flags
  <1>16. QED
    BY <1>1, <1>2, <1>3, <1>4, <1>5, <1>6, <1>7, <1>8, <1>9, <1>10, <1>11, <1>12, <1>13, <1>14, <1>15 DEF Next, Main

\* No cancel is acted on while a commit, a frontend message or a critical
\* section is under way.
THEOREM RegionsProtected == Spec => ProtectedRegions
  <1>1. ASSUME IInv, [Next]_vars
        PROVE  QueryCancelPending /\ ~QueryCancelPending' =>
                 at \notin {"read", "readHeld", "commitHeld", "walCrit"}
    BY <1>1, OnlyCancelClears DEF IInv, Passed, Cancel
  <1>2. QED
    BY <1>1, Invariance, PTL DEF Spec, ProtectedRegions
=============================================================================
