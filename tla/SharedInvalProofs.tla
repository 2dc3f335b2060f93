-------------------------- MODULE SharedInvalProofs --------------------------
(***************************************************************************)
(* Theorems about SharedInval, for every value of its constants: its type   *)
(* invariant, that minMsgNum stays behind every reader, and, while          *)
(* transactions are small enough, that no unread message is overwritten and *)
(* no commit is forgotten by any cache.                                     *)
(***************************************************************************)
EXTENDS SharedInval, SequenceTheorems, TLAPS

-----------------------------------------------------------------------------
(* Operators.                                                               *)

\* An int8_t holds what the conversion stores into it.
LEMMA Int8Range == \A n \in Int : Int8(n) \in -128 .. 127
  BY DEF Int8

\* What the register_... functions build is an InvalidationMessage.
LEMMA MessageTypes ==
  ASSUME NEW b \in Slots
  PROVE  /\ \A relId \in RelIds : RelMsg(DbOf[b], relId) \in Message
         /\ \A cacheId \in CacheIds, hash \in Hashes :
              SysMsg(DbOf[b], cacheId, hash) \in Message
  <1>1. DbOf[b] \in Nat /\ RelIds \subseteq Nat /\ CacheIds \subseteq Nat
        /\ Hashes \subseteq Nat
    BY KeysAssumption
  <1>2. \A relId \in RelIds : RelMsg(DbOf[b], relId) \in Message
    BY <1>1 DEF RelMsg, Message, CACHE_INVAL_RELCACHE
  <1>3. \A cacheId \in CacheIds, hash \in Hashes :
          SysMsg(DbOf[b], cacheId, hash) \in Message
    BY <1>1, Int8Range DEF SysMsg, Message
  <1>4. QED
    BY <1>2, <1>3

\* A capped append never invents messages and never grows by more than it is
\* given (the `if (count < 100)` loops of backend_process.h).
LEMMA AppendCappedType ==
  ASSUME NEW S, NEW list \in Seq(S), NEW msgs \in Seq(S)
  PROVE  /\ AppendCapped(list, msgs) \in Seq(S)
         /\ Len(AppendCapped(list, msgs)) <= Len(list) + Len(msgs)
  <1> DEFINE room == ListMax - Len(list)
             n == IF Len(msgs) < room THEN Len(msgs) ELSE room
  <1>1. room \in Int /\ n \in Int /\ n <= Len(msgs) /\ Len(list) \in Nat
        /\ Len(msgs) \in Nat
    BY SizesAssumption
  <1>2. SubSeq(msgs, 1, n) \in Seq(S)
        /\ Len(SubSeq(msgs, 1, n)) <= Len(msgs)
    BY <1>1, SubSeqProperties
  <1>3. AppendCapped(list, msgs) = list \o SubSeq(msgs, 1, n)
    BY DEF AppendCapped
  <1>4. QED
    BY <1>1, <1>2, <1>3, ConcatProperties

\* Publishing writes messages into the slots of the ring and nowhere else.
LEMMA WriteRingType ==
  ASSUME NEW out \in Seq(Message), maxMsgNum \in Nat,
         messages \in [0 .. MaxMessages - 1 -> Message]
  PROVE  WriteRing(out) \in [0 .. MaxMessages - 1 -> Message]
  <1> DEFINE newest == maxMsgNum + Len(out) - 1
             num(slot) == newest - ((newest - slot) % MaxMessages)
  <1>1. Len(out) \in Nat /\ newest \in Int
    OBVIOUS
  <1>2. ASSUME NEW slot \in 0 .. MaxMessages - 1, ~(num(slot) < maxMsgNum)
        PROVE  out[num(slot) - maxMsgNum + 1] \in Message
    <2>1. (newest - slot) % MaxMessages \in 0 .. MaxMessages - 1
      BY <1>1, SizesAssumption
    <2>2. num(slot) - maxMsgNum + 1 \in 1 .. Len(out)
      BY <1>1, <1>2, <2>1
    <2>3. QED
      BY <2>2, ElementOfSeq
  <1>3. QED
    BY <1>2 DEF WriteRing

\* accept copies messages of the ring into its local array.
LEMMA ReadType ==
  ASSUME TypeOK, NEW next \in Nat, NEW count \in Int
  PROVE  [i \in 1 .. count |-> messages[(next + i - 1) % MaxMessages]]
           \in Seq(Message)
  <1> DEFINE n == IF count < 0 THEN 0 ELSE count
             s == [i \in 1 .. n |-> messages[(next + i - 1) % MaxMessages]]
  <1>1. n \in Nat /\ 1 .. count = 1 .. n
    OBVIOUS
  <1>2. \A i \in 1 .. n : (next + i - 1) % MaxMessages \in 0 .. MaxMessages - 1
    BY <1>1, SizesAssumption
  <1>3. s \in [1 .. n -> Message]
    BY <1>1, <1>2 DEF TypeOK
  <1>4. s \in Seq(Message)
    <2> HIDE DEF n, s
    <2>1. s \in UNION {[1 .. k -> Message] : k \in Nat}
      BY <1>1, <1>3, Zenon
    <2>2. QED
      BY <2>1, SeqDef, Zenon
  <1>5. [i \in 1 .. count |-> messages[(next + i - 1) % MaxMessages]] = s
    <2> HIDE DEF n
    <2> QED
      BY <1>1, Zenon
  <1>6. QED
    BY <1>4, <1>5
-----------------------------------------------------------------------------
(* The type invariant.                                                      *)

LEMMA InitType == Init => TypeOK
  <1>1. ZeroMsg \in Message
    BY DEF ZeroMsg, Message
  <1>2. <<>> \in Seq(Message)
    OBVIOUS
  <1>3. QED
    BY <1>1, <1>2, SizesAssumption DEF Init, TypeOK

\* Invalidating entries keeps the caches and the history well typed.
LEMMA InvalidateType ==
  ASSUME TypeOK, NEW b \in Slots, NEW entries, Invalidate(b, entries)
  PROVE  /\ valid' \in [Slots -> SUBSET Entries]
         /\ owed' \in [Slots -> SUBSET Entries]
  BY DEF TypeOK, Invalidate

LEMMA ReturnType ==
  ASSUME TypeOK, NEW b \in Slots, Return(b),
         valid' \in [Slots -> SUBSET Entries],
         owed' \in [Slots -> SUBSET Entries]
  PROVE  TypeOK'
  <1>1. <<>> \in Seq(Message)
    OBVIOUS
  <1>2. active' \subseteq Slots /\ currentCmd' \in [Slots -> Seq(Message)]
        /\ priorCmd' \in [Slots -> Seq(Message)]
        /\ intent' \in [Slots -> SUBSET Entries]
    <2>1. CASE b \in beginning
      <3>1. active' \subseteq Slots
        BY <2>1 DEF TypeOK, Return
      <3>2. currentCmd' \in [Slots -> Seq(Message)]
        BY <1>1, <2>1 DEF TypeOK, Return
      <3>3. priorCmd' \in [Slots -> Seq(Message)]
        BY <1>1, <2>1 DEF TypeOK, Return
      <3>4. intent' \in [Slots -> SUBSET Entries]
        BY <2>1 DEF TypeOK, Return
      <3>5. QED
        BY <3>1, <3>2, <3>3, <3>4
    <2>2. CASE b \notin beginning
      BY <2>2 DEF TypeOK, Return, trans
    <2>3. QED
      BY <2>1, <2>2
  <1>3. QED
    BY <1>1, <1>2 DEF TypeOK, Return, shared

LEMMA AcceptLockedType ==
  ASSUME TypeOK, NEW b \in Slots, AcceptLocked(b),
         beginning' \subseteq Slots
  PROVE  TypeOK'
  <1> DEFINE next == nextMsgNum[b]
             count == ReadCount(b)
  <1>1. next \in Nat /\ count \in Int /\ next + count \in Nat
        /\ maxMsgNum \in Nat
    BY SizesAssumption DEF TypeOK, Unread, ReadCount
  <1>2. CASE SkipToReset(b)
    BY <1>1, <1>2 DEF AcceptLocked, SkipToReset, TypeOK, trans
  <1>3. CASE ReadUnread(b)
    <2>1. batch' \in [Slots -> Seq(Message)]
      BY <1>1, <1>3, ReadType DEF ReadUnread, TypeOK
    <2>2. QED
      BY <1>1, <1>3, <2>1 DEF AcceptLocked, ReadUnread, TypeOK, trans
  <1>4. QED
    BY <1>2, <1>3 DEF AcceptLocked

LEMMA AddMessageType ==
  ASSUME TypeOK, NEW b \in Slots, NEW msg \in Message,
         NEW entries \in SUBSET Entries, AddMessage(b, msg, entries)
  PROVE  TypeOK'
  <1>1. <<msg>> \in Seq(Message) /\ currentCmd[b] \in Seq(Message)
    BY DEF TypeOK
  <1>2. AppendCapped(currentCmd[b], <<msg>>) \in Seq(Message)
    BY <1>1, AppendCappedType
  <1>3. QED
    BY <1>2 DEF AddMessage, TypeOK, shared, calls

LEMMA EndTransactionType ==
  ASSUME TypeOK, NEW b \in Slots, EndTransaction(b)
  PROVE  /\ active' \subseteq Slots
         /\ currentCmd' \in [Slots -> Seq(Message)]
         /\ priorCmd' \in [Slots -> Seq(Message)]
         /\ intent' \in [Slots -> SUBSET Entries]
  <1>1. <<>> \in Seq(Message)
    OBVIOUS
  <1>2. QED
    BY <1>1 DEF TypeOK, EndTransaction

\* What a commit sends: the prior commands' messages, then the current one's.
LEMMA OutType ==
  ASSUME TypeOK, NEW b \in Slots
  PROVE  LET out == AppendCapped(priorCmd[b], currentCmd[b])
         IN  /\ out \in Seq(Message)
             /\ Len(out) \in Nat
             /\ Len(out) <= Len(priorCmd[b]) + Len(currentCmd[b])
  <1>1. priorCmd[b] \in Seq(Message) /\ currentCmd[b] \in Seq(Message)
    BY DEF TypeOK
  <1>2. QED
    BY <1>1, AppendCappedType, LenProperties

LEMMA RegisteredType ==
  ASSUME TypeOK
  PROVE  Registered \subseteq Slots /\ Laggards \subseteq Slots
  BY SizesAssumption DEF Registered, Slots, Laggards, TypeOK

LEMMA CleanupType ==
  ASSUME TypeOK, Cleanup
  PROVE  minMsgNum' \in Nat /\ nextThreshold' \in Nat
  <1>1. CASE CleanupDue
    <2>1. PICK num \in {maxMsgNum} \cup {nextMsgNum[i] : i \in Registered} :
            /\ IsOldestUnread(num)
            /\ minMsgNum' = num
            /\ nextThreshold' = maxMsgNum - num + ThresholdStep
      BY <1>1 DEF Cleanup
    <2>2. num \in Nat /\ num <= maxMsgNum
      BY <2>1, RegisteredType DEF TypeOK, IsOldestUnread
    <2>3. QED
      BY <2>1, <2>2, SizesAssumption DEF TypeOK
  <1>2. CASE ~CleanupDue
    BY <1>2 DEF Cleanup, TypeOK
  <1>3. QED
    BY <1>1, <1>2

LEMMA CommitType ==
  ASSUME TypeOK, NEW b \in Slots, Commit(b)
  PROVE  TypeOK'
  <1> DEFINE out == Published(b)
  <1>1. out \in Seq(Message) /\ Len(out) \in Nat
    BY OutType DEF Published
  <1>2. Send(b, out) /\ EndTransaction(b)
    BY DEF Commit
  <1>3. minMsgNum' \in Nat /\ nextThreshold' \in Nat
    BY <1>2, CleanupType DEF Send
  <1>4. messages' \in [0 .. MaxMessages - 1 -> Message]
    BY <1>1, <1>2, WriteRingType DEF Send, TypeOK
  <1>5. Registered \subseteq Slots /\ Laggards \subseteq Slots
    BY RegisteredType
  <1>6. /\ resetState' \subseteq Slots /\ hasMessages' \subseteq Slots
        /\ signaled' \subseteq Slots /\ signals' \subseteq Slots
    BY <1>2, <1>5 DEF Send, TypeOK
  <1>7. maxMsgNum' \in Nat
    BY <1>1, <1>2 DEF Send, TypeOK
  <1>8. owed' \in [Slots -> SUBSET Entries]
    BY DEF Commit, TypeOK
  <1>9. QED
    BY <1>2, <1>3, <1>4, <1>6, <1>7, <1>8, EndTransactionType
       DEF Commit, TypeOK, calls

LEMMA TypeInvariance == TypeOK /\ [Next]_vars => TypeOK'
  <1> SUFFICES ASSUME TypeOK, [Next]_vars
               PROVE  TypeOK'
    OBVIOUS
  <1>1. ASSUME NEW b \in Slots, Register(b)
        PROVE  TypeOK'
    <2>1. lastBackendId' \in 0 .. MaxBackends
      BY <1>1, SizesAssumption DEF Register, TypeOK, Slots
    <2>2. QED
      BY <1>1, <2>1 DEF Register, TypeOK, trans
  <1>2. ASSUME NEW b \in Slots, Exit(b)
        PROVE  TypeOK'
    BY <1>2 DEF Exit, TypeOK, shared, trans
  <1>3. ASSUME NEW b \in Slots, HandleSignal(b)
        PROVE  TypeOK'
    BY <1>3 DEF HandleSignal, TypeOK, shared, calls, trans
  <1>4. ASSUME NEW b \in Slots, BeginTransaction(b)
        PROVE  TypeOK'
    <2>1. beginning' \subseteq Slots
      BY <1>4 DEF BeginTransaction, TypeOK
    <2>2. QED
      BY <1>4, <2>1, AcceptLockedType DEF BeginTransaction
  <1>5. ASSUME NEW b \in Slots, Poll(b)
        PROVE  TypeOK'
    <2>1. beginning' \subseteq Slots
      BY <1>5 DEF Poll, TypeOK
    <2>2. QED
      BY <1>5, <2>1, AcceptLockedType DEF Poll
  <1>6. ASSUME NEW b \in Slots, ApplyBatch(b)
        PROVE  TypeOK'
    BY <1>6, InvalidateType, ReturnType DEF ApplyBatch
  <1>7. ASSUME NEW b \in Slots, ApplyReset(b)
        PROVE  TypeOK'
    BY <1>7, InvalidateType, ReturnType DEF ApplyReset
  <1>8. ASSUME NEW b \in Slots, NEW entry \in Entries, AddItem(b, entry)
        PROVE  TypeOK'
    BY <1>8 DEF AddItem, TypeOK, shared, calls, trans
  <1>9. ASSUME NEW b \in Slots, NEW relId \in RelIds, RegisterRelcache(b, relId)
        PROVE  TypeOK'
    <2>1. RelMsg(DbOf[b], relId) \in Message
      BY MessageTypes
    <2>2. (IF relId = 0 THEN RelEntries ELSE {<<"rel", relId>>}) \in SUBSET Entries
      BY DEF RelEntries, Entries
    <2>3. QED
      BY <1>9, <2>1, <2>2, AddMessageType DEF RegisterRelcache
  <1>10. ASSUME NEW b \in Slots, NEW cacheId \in CacheIds, NEW hash \in Hashes,
                RegisterSyscache(b, cacheId, hash)
         PROVE  TypeOK'
    <2>1. SysMsg(DbOf[b], cacheId, hash) \in Message
      BY MessageTypes
    <2>2. {<<"sys", hash>>} \in SUBSET Entries
      BY DEF SysEntries, Entries
    <2>3. QED
      BY <1>10, <2>1, <2>2, AddMessageType DEF RegisterSyscache
  <1>11. ASSUME NEW b \in Slots, CommandEnd(b)
         PROVE  TypeOK'
    <2>1. AppendCapped(priorCmd[b], currentCmd[b]) \in Seq(Message)
      BY OutType
    <2>2. <<>> \in Seq(Message)
      OBVIOUS
    <2>3. QED
      BY <1>11, <2>1, <2>2, InvalidateType DEF CommandEnd, TypeOK, shared, calls
  <1>12. ASSUME NEW b \in Slots, Rollback(b)
         PROVE  TypeOK'
    BY <1>12, InvalidateType, EndTransactionType DEF Rollback, TypeOK, shared, calls
  <1>13. ASSUME NEW b \in Slots, Commit(b)
         PROVE  TypeOK'
    BY <1>13, CommitType
  <1>14. CASE UNCHANGED vars
    BY <1>14 DEF TypeOK, vars, shared, calls, trans
  <1>15. QED
    BY <1>1, <1>2, <1>3, <1>4, <1>5, <1>6, <1>7, <1>8, <1>9, <1>10, <1>11,
       <1>12, <1>13, <1>14 DEF Next

\* Shared memory, caches and message lists keep their types: in particular
\* message ids fit an int8_t and counters never go negative.
THEOREM Typing == Spec => []TypeOK
  BY InitType, TypeInvariance, PTL DEF Spec
-----------------------------------------------------------------------------
(* The window of unread messages.                                           *)

IInv == TypeOK /\ MinIsBehindReaders /\ WindowBounds

LEMMA HalfType == MaxMessages \div 2 \in Nat
  BY SizesAssumption

LEMMA InitInv == Init => IInv
  <1> SUFFICES ASSUME Init
               PROVE  IInv
    OBVIOUS
  <1>1. TypeOK
    BY InitType
  <1>2. Registered = {}
    BY DEF Init, Registered
  <1>3. Len(<<>>) = 0
    OBVIOUS
  <1>4. QED
    BY <1>1, <1>2, <1>3, SizesAssumption
       DEF IInv, MinIsBehindReaders, WindowBounds, Init

\* A step that leaves the counters of the shared buffer and the readers alone,
\* and makes no transaction longer than TxMax, keeps the window.
LEMMA QuietStep ==
  ASSUME IInv, UNCHANGED <<minMsgNum, maxMsgNum, nextThreshold, lastBackendId,
                           nextMsgNum, resetState>>,
         \A b \in Slots : Len(priorCmd'[b]) + Len(currentCmd'[b]) <= TxMax
  PROVE  MinIsBehindReaders' /\ WindowBounds'
  BY DEF IInv, MinIsBehindReaders, WindowBounds, Registered, Unread

\* Emptying the lists of one transaction, or leaving them alone, keeps TxMax.
LEMMA ListsShrink ==
  ASSUME IInv, NEW b \in Slots,
         \/ UNCHANGED <<currentCmd, priorCmd>>
         \/ /\ currentCmd' = [currentCmd EXCEPT ![b] = <<>>]
            /\ priorCmd' = [priorCmd EXCEPT ![b] = <<>>]
  PROVE  \A c \in Slots : Len(priorCmd'[c]) + Len(currentCmd'[c]) <= TxMax
  <1>1. Len(<<>>) = 0
    OBVIOUS
  <1>2. \A c \in Slots : Len(priorCmd[c]) + Len(currentCmd[c]) <= TxMax
    BY DEF IInv, WindowBounds
  <1>3. currentCmd \in [Slots -> Seq(Message)] /\ priorCmd \in [Slots -> Seq(Message)]
    BY DEF IInv, TypeOK
  <1>4. TxMax \in Nat
    BY SizesAssumption
  <1>5. CASE UNCHANGED <<currentCmd, priorCmd>>
    BY <1>2, <1>5
  <1>6. CASE /\ currentCmd' = [currentCmd EXCEPT ![b] = <<>>]
             /\ priorCmd' = [priorCmd EXCEPT ![b] = <<>>]
    <2> SUFFICES ASSUME NEW c \in Slots
                 PROVE  Len(priorCmd'[c]) + Len(currentCmd'[c]) <= TxMax
      OBVIOUS
    <2>1. CASE c = b
      <3>1. priorCmd'[c] = <<>> /\ currentCmd'[c] = <<>>
        BY <1>3, <1>6, <2>1
      <3>2. QED
        BY <1>1, <1>4, <3>1
    <2>2. CASE c # b
      BY <1>2, <1>3, <1>6, <2>2
    <2>3. QED
      BY <2>1, <2>2
  <1>7. QED
    BY <1>5, <1>6

\* Reading only moves one reader forward, up to maxMsgNum at most.
LEMMA AcceptLockedInv ==
  ASSUME IInv, NEW b \in Slots, AcceptLocked(b)
  PROVE  MinIsBehindReaders' /\ WindowBounds'
  <1> DEFINE next == nextMsgNum[b]
             count == ReadCount(b)
  <1>1. /\ nextMsgNum \in [Slots -> Nat] /\ maxMsgNum \in Nat
        /\ minMsgNum \in Nat /\ nextThreshold \in Nat
        /\ Registered \subseteq Slots
    BY RegisteredType DEF IInv, TypeOK
  <1>2. /\ UNCHANGED <<minMsgNum, maxMsgNum, nextThreshold, lastBackendId,
                       currentCmd, priorCmd>>
        /\ Registered' = Registered
    BY DEF AcceptLocked, trans, Registered
  <1>3. \E n \in Nat :
          /\ nextMsgNum' = [nextMsgNum EXCEPT ![b] = n]
          /\ \/ n = maxMsgNum /\ resetState' = resetState \ {b}
             \/ /\ resetState' = resetState
                /\ b \in Registered => next <= n /\ n <= maxMsgNum
    <2>1. CASE SkipToReset(b)
      BY <1>1, <2>1 DEF SkipToReset
    <2>2. CASE ReadUnread(b)
      <3>1. next + count \in Nat
        BY <1>1, SizesAssumption DEF Unread, ReadCount
      <3>2. nextMsgNum' = [nextMsgNum EXCEPT ![b] = next + count]
            /\ resetState' = resetState
        BY <2>2 DEF ReadUnread
      <3>3. b \in Registered => next <= next + count /\ next + count <= maxMsgNum
        BY <1>1, SizesAssumption DEF IInv, MinIsBehindReaders, Unread, ReadCount
      <3>4. QED
        BY <3>1, <3>2, <3>3
    <2>3. QED
      BY <2>1, <2>2 DEF AcceptLocked
  <1>4. PICK n \in Nat :
          /\ nextMsgNum' = [nextMsgNum EXCEPT ![b] = n]
          /\ \/ n = maxMsgNum /\ resetState' = resetState \ {b}
             \/ /\ resetState' = resetState
                /\ b \in Registered => next <= n /\ n <= maxMsgNum
    BY <1>3
  <1>5. ASSUME NEW c \in Registered
        PROVE  /\ minMsgNum <= nextMsgNum'[c] /\ nextMsgNum'[c] <= maxMsgNum
               /\ c \notin resetState' =>
                    maxMsgNum - nextMsgNum'[c] <= MaxMessages \div 2
                       + (maxMsgNum - minMsgNum) - (nextThreshold - ThresholdStep)
    <2>1. minMsgNum <= nextMsgNum[c] /\ nextMsgNum[c] <= maxMsgNum
          /\ minMsgNum <= maxMsgNum
          /\ nextThreshold - ThresholdStep <= maxMsgNum - minMsgNum
      BY <1>1 DEF IInv, MinIsBehindReaders, WindowBounds
    <2>2. c \notin resetState =>
            maxMsgNum - nextMsgNum[c] <= MaxMessages \div 2
               + (maxMsgNum - minMsgNum) - (nextThreshold - ThresholdStep)
      BY DEF IInv, WindowBounds, Unread
    <2>3. CASE c # b
      BY <1>1, <1>4, <2>1, <2>2, <2>3
    <2>4. CASE c = b
      <3>1. nextMsgNum'[c] = n
        BY <1>1, <1>4, <2>4
      <3>2. CASE n = maxMsgNum
        BY <1>1, <2>1, <3>1, <3>2, HalfType, SizesAssumption
      <3>3. CASE resetState' = resetState /\ next <= n /\ n <= maxMsgNum
        BY <1>1, <2>1, <2>2, <2>4, <3>1, <3>3, HalfType, SizesAssumption
      <3>4. QED
        BY <1>4, <2>4, <3>2, <3>3
    <2>5. QED
      BY <2>3, <2>4
  <1>6. QED
    BY <1>2, <1>5 DEF IInv, MinIsBehindReaders, WindowBounds, Unread

\* The client keeps to TxMax, and a capped append adds no more than it is given.
LEMMA AddMessageInv ==
  ASSUME IInv, NEW b \in Slots, NEW msg \in Message, NEW entries,
         AddMessage(b, msg, entries)
  PROVE  MinIsBehindReaders' /\ WindowBounds'
  <1> DEFINE new == AppendCapped(currentCmd[b], <<msg>>)
  <1>1. /\ currentCmd \in [Slots -> Seq(Message)]
        /\ priorCmd \in [Slots -> Seq(Message)]
    BY DEF IInv, TypeOK
  <1>2. <<msg>> \in Seq(Message) /\ Len(<<msg>>) = 1
    OBVIOUS
  <1>3. new \in Seq(Message) /\ Len(new) <= Len(currentCmd[b]) + 1
    BY <1>1, <1>2, AppendCappedType
  <1>4. /\ currentCmd' = [currentCmd EXCEPT ![b] = new] /\ priorCmd' = priorCmd
        /\ Len(currentCmd[b]) + Len(priorCmd[b]) < TxMax
    BY DEF AddMessage
  <1>5. Len(new) \in Nat /\ Len(currentCmd[b]) \in Nat /\ Len(priorCmd[b]) \in Nat
    BY <1>1, <1>3, LenProperties
  <1>6. Len(new) + Len(priorCmd[b]) <= TxMax
    <2>1. \A p, q, r \in Nat : r <= q + 1 /\ q + p < TxMax => r + p <= TxMax
      BY SizesAssumption
    <2> HIDE DEF new
    <2>2. QED
      BY <1>3, <1>4, <1>5, <2>1, Zenon
  <1>7. ASSUME NEW c \in Slots
        PROVE  Len(priorCmd'[c]) + Len(currentCmd'[c]) <= TxMax
    <2> HIDE DEF new
    <2>1. CASE c = b
      BY <1>1, <1>4, <1>5, <1>6, <2>1
    <2>2. CASE c # b
      BY <1>1, <1>4, <2>2 DEF IInv, WindowBounds
    <2>3. QED
      BY <2>1, <2>2
  <1>8. QED
    BY <1>7, QuietStep DEF AddMessage, shared

\* Ending a command moves messages from one list to the other.
LEMMA CommandEndInv ==
  ASSUME IInv, NEW b \in Slots, CommandEnd(b)
  PROVE  MinIsBehindReaders' /\ WindowBounds'
  <1> DEFINE new == AppendCapped(priorCmd[b], currentCmd[b])
  <1>1. /\ currentCmd \in [Slots -> Seq(Message)]
        /\ priorCmd \in [Slots -> Seq(Message)]
    BY DEF IInv, TypeOK
  <1>2. Len(new) \in Nat /\ Len(new) <= Len(priorCmd[b]) + Len(currentCmd[b])
    BY OutType DEF IInv
  <1>3. currentCmd' = [currentCmd EXCEPT ![b] = <<>>]
        /\ priorCmd' = [priorCmd EXCEPT ![b] = new]
    BY DEF CommandEnd
  <1>4. Len(<<>>) = 0
    OBVIOUS
  <1>5. ASSUME NEW c \in Slots
        PROVE  Len(priorCmd'[c]) + Len(currentCmd'[c]) <= TxMax
    <2> HIDE DEF new
    <2>1. Len(priorCmd[c]) + Len(currentCmd[c]) <= TxMax
      BY DEF IInv, WindowBounds
    <2>2. CASE c = b
      <3>1. priorCmd'[c] = new /\ currentCmd'[c] = <<>>
        BY <1>1, <1>3, <2>2
      <3>2. Len(priorCmd[b]) \in Nat /\ Len(currentCmd[b]) \in Nat
        BY <1>1, LenProperties
      <3>3. \A n, p, q \in Nat : n <= p + q /\ p + q <= TxMax => n + 0 <= TxMax
        BY SizesAssumption
      <3>4. Len(new) + 0 <= TxMax
        BY <1>2, <2>1, <2>2, <3>2, <3>3, Zenon
      <3>5. QED
        BY <1>4, <3>1, <3>4, Zenon
    <2>3. CASE c # b
      BY <1>1, <1>3, <2>1, <2>3
    <2>4. QED
      BY <2>2, <2>3
  <1>6. QED
    BY <1>5, QuietStep DEF CommandEnd, shared

\* A new reader has nothing to read.
LEMMA RegisterInv ==
  ASSUME IInv, NEW b \in Slots, Register(b)
  PROVE  MinIsBehindReaders' /\ WindowBounds'
  <1>1. /\ nextMsgNum \in [Slots -> Nat] /\ maxMsgNum \in Nat
        /\ minMsgNum \in Nat /\ nextThreshold \in Nat
        /\ Registered \subseteq Slots /\ lastBackendId \in Nat
    BY RegisteredType, SMTT(30) DEF IInv, TypeOK
  <1>2. /\ b = lastBackendId /\ lastBackendId' = lastBackendId + 1
        /\ nextMsgNum' = [nextMsgNum EXCEPT ![b] = maxMsgNum]
        /\ resetState' = resetState \ {b}
        /\ UNCHANGED <<minMsgNum, maxMsgNum, nextThreshold, currentCmd, priorCmd>>
    BY DEF Register, trans
  <1>3. Registered' = Registered \cup {b} /\ b \notin Registered
    BY <1>1, <1>2 DEF Registered
  <1>4. nextMsgNum'[b] = maxMsgNum
    BY <1>1, <1>2
  <1>5. \A c \in Registered : nextMsgNum'[c] = nextMsgNum[c]
    BY <1>1, <1>2, <1>3
  <1>6. MinIsBehindReaders'
    BY <1>1, <1>2, <1>3, <1>4, <1>5
       DEF IInv, MinIsBehindReaders, WindowBounds
  <1>7. \A c \in Registered' \ resetState' :
          Unread(c)' <= MaxMessages \div 2
            + (maxMsgNum - minMsgNum) - (nextThreshold - ThresholdStep)
    <2>1. \A c \in Registered \ resetState :
            maxMsgNum - nextMsgNum[c] <= MaxMessages \div 2
              + (maxMsgNum - minMsgNum) - (nextThreshold - ThresholdStep)
      BY DEF IInv, WindowBounds, Unread
    <2>2. nextThreshold - ThresholdStep <= maxMsgNum - minMsgNum
      BY DEF IInv, WindowBounds
    <2>3. QED
      BY <1>1, <1>2, <1>3, <1>4, <1>5, <2>1, <2>2, HalfType, SizesAssumption
         DEF Unread
  <1>8. QED
    BY <1>2, <1>6, <1>7 DEF IInv, WindowBounds

\* Publishing moves maxMsgNum by at most TxMax.  A cleanup before it leaves no
\* unmarked reader more than half a ring behind and restarts the threshold;
\* without one the window was still below the threshold.
LEMMA CommitInv ==
  ASSUME IInv, NEW b \in Slots, Commit(b)
  PROVE  MinIsBehindReaders' /\ WindowBounds'
  <1> DEFINE out == Published(b)
             len == Len(out)
             half == MaxMessages \div 2
  <1>1. /\ nextMsgNum \in [Slots -> Nat] /\ maxMsgNum \in Nat
        /\ minMsgNum \in Nat /\ nextThreshold \in Nat
        /\ Registered \subseteq Slots
    BY RegisteredType DEF IInv, TypeOK
  <1>2. len \in Nat /\ len <= TxMax
    <2>1. /\ currentCmd[b] \in Seq(Message) /\ priorCmd[b] \in Seq(Message)
      BY DEF IInv, TypeOK
    <2>2. Len(currentCmd[b]) \in Nat /\ Len(priorCmd[b]) \in Nat
      BY <2>1, LenProperties
    <2>3. len \in Nat /\ len <= Len(priorCmd[b]) + Len(currentCmd[b])
      BY OutType DEF IInv, Published
    <2>4. Len(priorCmd[b]) + Len(currentCmd[b]) <= TxMax
      BY DEF IInv, WindowBounds
    <2>5. \A n, p, q \in Nat : n <= p + q /\ p + q <= TxMax => n <= TxMax
      BY SizesAssumption
    <2> HIDE DEF len
    <2>6. QED
      BY <2>2, <2>3, <2>4, <2>5, Zenon
  <1>3. /\ Cleanup
        /\ maxMsgNum' = maxMsgNum + len
        /\ resetState' = resetState \cup Laggards
        /\ UNCHANGED <<lastBackendId, nextMsgNum>>
        /\ Registered' = Registered
    BY DEF Commit, Send, Registered
  <1>4. \A c \in Slots : Len(priorCmd'[c]) + Len(currentCmd'[c]) <= TxMax
    BY ListsShrink DEF Commit, EndTransaction
  <1>5. half \in Nat /\ ThresholdStep \in Nat \ {0} /\ TxMax \in Nat
    BY HalfType, SizesAssumption
  <1> HIDE DEF out, len, half
  <1>6. /\ minMsgNum <= maxMsgNum
        /\ nextThreshold - ThresholdStep <= maxMsgNum - minMsgNum
    BY DEF IInv, WindowBounds
  <1>7. \A c \in Registered : /\ minMsgNum <= nextMsgNum[c]
                              /\ nextMsgNum[c] <= maxMsgNum
    BY DEF IInv, MinIsBehindReaders
  <1>8. \A c \in Registered \ resetState :
          maxMsgNum - nextMsgNum[c] <=
            half + (maxMsgNum - minMsgNum) - (nextThreshold - ThresholdStep)
    BY DEF IInv, WindowBounds, Unread, half
  \* what the cleanup establishes before anything is published
  <1>9. /\ minMsgNum' \in Nat /\ nextThreshold' \in Nat
        /\ minMsgNum' <= maxMsgNum
        /\ \A c \in Registered : minMsgNum' <= nextMsgNum[c]
        /\ nextThreshold' - ThresholdStep <= maxMsgNum - minMsgNum'
        /\ maxMsgNum - minMsgNum' <= nextThreshold' - 1
        /\ \A c \in Registered \ resetState' :
             maxMsgNum - nextMsgNum[c] <=
               half + (maxMsgNum - minMsgNum') - (nextThreshold' - ThresholdStep)
    <2>1. minMsgNum' \in Nat /\ nextThreshold' \in Nat
      BY <1>3, CleanupType DEF IInv
    <2>2. CASE CleanupDue
      <3>1. PICK num \in {maxMsgNum} \cup {nextMsgNum[i] : i \in Registered} :
              /\ IsOldestUnread(num)
              /\ minMsgNum' = num
              /\ nextThreshold' = maxMsgNum - num + ThresholdStep
        BY <1>3, <2>2 DEF Cleanup
      <3>2. /\ minMsgNum' <= maxMsgNum
            /\ \A c \in Registered : minMsgNum' <= nextMsgNum[c]
        BY <3>1 DEF IsOldestUnread
      <3>3. nextThreshold' = maxMsgNum - minMsgNum' + ThresholdStep
        BY <3>1
      <3>4. \A c \in Registered \ resetState' :
              maxMsgNum - nextMsgNum[c] <= half
        BY <1>1, <1>3, <1>5, <2>2 DEF Laggards, Unread, half
      <3>5. QED
        BY <1>1, <1>5, <2>1, <3>2, <3>3, <3>4
    <2>3. CASE ~CleanupDue
      <3>1. minMsgNum' = minMsgNum /\ nextThreshold' = nextThreshold
        BY <1>3, <2>3 DEF Cleanup
      <3>2. resetState' = resetState
        BY <1>3, <2>3 DEF Laggards
      <3>3. maxMsgNum - minMsgNum <= nextThreshold - 1
        BY <1>1, <2>3 DEF CleanupDue
      <3>4. QED
        BY <1>1, <1>6, <1>7, <1>8, <2>1, <3>1, <3>2, <3>3
    <2>4. QED
      BY <2>2, <2>3
  <1>10. MinIsBehindReaders'
    BY <1>1, <1>2, <1>3, <1>7, <1>9 DEF MinIsBehindReaders
  <1>11. /\ minMsgNum' <= maxMsgNum'
         /\ nextThreshold' - ThresholdStep <= maxMsgNum' - minMsgNum'
         /\ maxMsgNum' - minMsgNum' <= nextThreshold' - 1 + TxMax
    <2>1. maxMsgNum' = maxMsgNum + len
      BY <1>3
    <2>2. /\ minMsgNum' \in Nat /\ nextThreshold' \in Nat
          /\ minMsgNum' <= maxMsgNum
          /\ nextThreshold' - ThresholdStep <= maxMsgNum - minMsgNum'
          /\ maxMsgNum - minMsgNum' <= nextThreshold' - 1
      BY <1>9
    <2>3. \A max, min, thr, n \in Nat :
            /\ min <= max /\ thr - ThresholdStep <= max - min
            /\ max - min <= thr - 1 /\ n <= TxMax
            => /\ min <= max + n /\ thr - ThresholdStep <= (max + n) - min
               /\ (max + n) - min <= thr - 1 + TxMax
      BY <1>5
    <2>4. QED
      BY <1>1, <1>2, <2>1, <2>2, <2>3, Zenon
  <1>12. \A c \in Registered' \ resetState' :
           Unread(c)' <= half + (maxMsgNum' - minMsgNum')
                              - (nextThreshold' - ThresholdStep)
    BY <1>1, <1>2, <1>3, <1>5, <1>9 DEF Unread
  <1>13. QED
    BY <1>4, <1>10, <1>11, <1>12 DEF WindowBounds, half

LEMMA InvInvariance == IInv /\ [Next]_vars => IInv'
  <1> SUFFICES ASSUME IInv, [Next]_vars
               PROVE  MinIsBehindReaders' /\ WindowBounds'
    BY TypeInvariance DEF IInv
  <1>1. ASSUME NEW b \in Slots, Register(b)
        PROVE  MinIsBehindReaders' /\ WindowBounds'
    BY <1>1, RegisterInv
  <1>2. ASSUME NEW b \in Slots, Exit(b) \/ HandleSignal(b)
        PROVE  MinIsBehindReaders' /\ WindowBounds'
    BY <1>2, QuietStep, ListsShrink DEF Exit, HandleSignal, shared, trans
  <1>3. ASSUME NEW b \in Slots, BeginTransaction(b) \/ Poll(b)
        PROVE  MinIsBehindReaders' /\ WindowBounds'
    BY <1>3, AcceptLockedInv DEF BeginTransaction, Poll
  <1>4. ASSUME NEW b \in Slots, ApplyBatch(b) \/ ApplyReset(b)
        PROVE  MinIsBehindReaders' /\ WindowBounds'
    BY <1>4, QuietStep, ListsShrink DEF ApplyBatch, ApplyReset, Return, shared, trans
  <1>5. ASSUME NEW b \in Slots, NEW entry \in Entries, AddItem(b, entry)
        PROVE  MinIsBehindReaders' /\ WindowBounds'
    BY <1>5, QuietStep, ListsShrink DEF AddItem, shared, trans
  <1>6. ASSUME NEW b \in Slots, NEW relId \in RelIds, RegisterRelcache(b, relId)
        PROVE  MinIsBehindReaders' /\ WindowBounds'
    BY <1>6, MessageTypes, AddMessageInv DEF RegisterRelcache
  <1>7. ASSUME NEW b \in Slots, NEW cacheId \in CacheIds, NEW hash \in Hashes,
               RegisterSyscache(b, cacheId, hash)
        PROVE  MinIsBehindReaders' /\ WindowBounds'
    BY <1>7, MessageTypes, AddMessageInv DEF RegisterSyscache
  <1>8. ASSUME NEW b \in Slots, CommandEnd(b)
        PROVE  MinIsBehindReaders' /\ WindowBounds'
    BY <1>8, CommandEndInv
  <1>9. ASSUME NEW b \in Slots, Rollback(b)
        PROVE  MinIsBehindReaders' /\ WindowBounds'
    BY <1>9, QuietStep, ListsShrink DEF Rollback, EndTransaction, shared
  <1>10. ASSUME NEW b \in Slots, Commit(b)
         PROVE  MinIsBehindReaders' /\ WindowBounds'
    BY <1>10, CommitInv
  <1>11. CASE UNCHANGED vars
    <2>1. \A b \in Slots : Len(priorCmd'[b]) + Len(currentCmd'[b]) <= TxMax
      BY <1>11 DEF vars, trans, IInv, WindowBounds
    <2>2. QED
      BY <1>11, <2>1, QuietStep DEF vars, shared
  <1>12. QED
    BY <1>1, <1>2, <1>3, <1>4, <1>5, <1>6, <1>7, <1>8, <1>9, <1>10, <1>11 DEF Next

LEMMA Invariance == Spec => []IInv
  BY InitInv, InvInvariance, PTL DEF Spec

\* The cleanup of send_shared_invalidation_messages never moves minMsgNum past
\* a message that some registered backend, alive or not, has still to read.
THEOREM MinStaysBehind == Spec => []MinIsBehindReaders
  BY Invariance, PTL DEF IInv

\* For every ring, threshold and transaction size the window of unread messages
\* is bounded by the threshold and one transaction.
THEOREM WindowIsBounded == Spec => []WindowBounds
  BY Invariance, PTL DEF IInv

\* What half a ring, the slack of the threshold and one transaction add up to
\* bounds the lag of every unmarked reader.
LEMMA LagFits == RingSuffices /\ IInv => UnreadFits
  <1> SUFFICES ASSUME RingSuffices, IInv, NEW b \in Registered \ resetState
               PROVE  Unread(b) <= MaxMessages
    BY DEF UnreadFits
  <1>1. /\ nextMsgNum[b] \in Nat /\ maxMsgNum \in Nat /\ minMsgNum \in Nat
        /\ nextThreshold \in Nat
    BY RegisteredType DEF IInv, TypeOK
  <1>2. /\ maxMsgNum - minMsgNum <= nextThreshold - 1 + TxMax
        /\ Unread(b) <= MaxMessages \div 2
             + (maxMsgNum - minMsgNum) - (nextThreshold - ThresholdStep)
    BY DEF IInv, WindowBounds
  <1>3. QED
    BY <1>1, <1>2, HalfType, SizesAssumption DEF RingSuffices, Unread

\* No message that an unmarked backend has still to read is overwritten, for
\* any number of backends, provided that half a ring, the slack of the
\* threshold and the largest transaction fit in the ring.
THEOREM NoOverwrite == RingSuffices => (Spec => []UnreadFits)
  <1> SUFFICES ASSUME RingSuffices
               PROVE  Spec => []UnreadFits
    OBVIOUS
  <1>1. IInv => UnreadFits
    BY LagFits
  <1>2. QED
    BY <1>1, Invariance, PTL

-----------------------------------------------------------------------------
(* No commit is forgotten.                                                  *)

\* Every cache id a client passes fits the int8_t field it is stored in; one
\* that does not turns negative and its message invalidates nothing.
CacheIdsFit == \A cacheId \in CacheIds : Int8(cacheId) >= 0

\* what a commit needs to reach every cache
CommitsFit == RingSuffices /\ TxMax <= ListMax /\ CacheIdsFit

\* The two lists of a transaction hold a message for each entry its client
\* declared stale.
IntentQueued ==
  \A b \in Slots :
    intent[b] \subseteq HitsOf(b, priorCmd[b]) \cup HitsOf(b, currentCmd[b])

\* A slot nobody registered has empty caches, and only a process inside accept
\* has messages that it read and did not apply.
Idle ==
  /\ \A b \in Slots \ Registered :
       pc[b] = "absent" /\ valid[b] = {} /\ owed[b] = {}
  /\ \A b \in Slots : pc[b] # "apply" => batch[b] = <<>>

\* the inductive invariant of StaleIsCovered
CInv == IInv /\ IntentQueued /\ Idle /\ StaleIsCovered

\* What a message invalidates depends on the backend's database only.
LEMMA HitsSameDb ==
  ASSUME NEW b, NEW c, DbOf[b] = DbOf[c]
  PROVE  /\ \A msg : Hits(b, msg) = Hits(c, msg)
         /\ \A msgs : HitsOf(b, msgs) = HitsOf(c, msgs)
  BY DEF Hits, HitsOf

LEMMA HitsEmpty == \A b : HitsOf(b, <<>>) = {}
  BY DEF HitsOf

\* Joining two lists loses no message and invents none.
LEMMA HitsConcat ==
  ASSUME NEW b, NEW s \in Seq(Message), NEW t \in Seq(Message)
  PROVE  HitsOf(b, s \o t) = HitsOf(b, s) \cup HitsOf(b, t)
  <1>1. Len(s) \in Nat /\ Len(t) \in Nat /\ DOMAIN s = 1 .. Len(s)
        /\ DOMAIN t = 1 .. Len(t)
    BY LenProperties
  <1>2. DOMAIN (s \o t) = 1 .. Len(s) + Len(t)
    BY ConcatProperties, LenProperties
  <1>3. /\ \A i \in 1 .. Len(s) : (s \o t)[i] = s[i]
        /\ \A i \in 1 .. Len(t) : (s \o t)[Len(s) + i] = t[i]
    BY ConcatProperties
  <1>4. ASSUME NEW e \in HitsOf(b, s \o t)
        PROVE  e \in HitsOf(b, s) \cup HitsOf(b, t)
    <2>1. PICK i \in 1 .. Len(s) + Len(t) : e \in Hits(b, (s \o t)[i])
      BY <1>2 DEF HitsOf
    <2>2. CASE i \in 1 .. Len(s)
      BY <1>1, <1>3, <2>1, <2>2 DEF HitsOf
    <2>3. CASE i \notin 1 .. Len(s)
      <3>1. i - Len(s) \in 1 .. Len(t) /\ Len(s) + (i - Len(s)) = i
        BY <1>1, <2>3
      <3>2. e \in Hits(b, t[i - Len(s)])
        BY <1>3, <2>1, <3>1
      <3>3. QED
        BY <1>1, <3>1, <3>2 DEF HitsOf
    <2>4. QED
      BY <2>2, <2>3
  <1>5. ASSUME NEW e \in HitsOf(b, s)
        PROVE  e \in HitsOf(b, s \o t)
    <2>1. PICK i \in 1 .. Len(s) : e \in Hits(b, s[i])
      BY <1>1, <1>5 DEF HitsOf
    <2>2. i \in 1 .. Len(s) + Len(t)
      BY <1>1
    <2>3. QED
      BY <1>2, <1>3, <2>1, <2>2 DEF HitsOf
  <1>6. ASSUME NEW e \in HitsOf(b, t)
        PROVE  e \in HitsOf(b, s \o t)
    <2>1. PICK i \in 1 .. Len(t) : e \in Hits(b, t[i])
      BY <1>1, <1>6 DEF HitsOf
    <2>2. Len(s) + i \in 1 .. Len(s) + Len(t)
      BY <1>1
    <2>3. QED
      BY <1>2, <1>3, <2>1, <2>2 DEF HitsOf
  <1>7. QED
    BY <1>4, <1>5, <1>6

\* The `if (count < 100)` of the appending loops drops nothing as long as the
\* two lists fit together.
LEMMA AppendCappedAll ==
  ASSUME NEW S, NEW list \in Seq(S), NEW msgs \in Seq(S),
         Len(list) + Len(msgs) <= ListMax
  PROVE  AppendCapped(list, msgs) = list \o msgs
  <1> DEFINE room == ListMax - Len(list)
             n == IF Len(msgs) < room THEN Len(msgs) ELSE room
  <1>1. Len(list) \in Nat /\ Len(msgs) \in Nat /\ ListMax \in Nat
    BY SizesAssumption, LenProperties
  <1>2. n = Len(msgs)
    BY <1>1
  <1>3. SubSeq(msgs, 1, Len(msgs)) = msgs
    OBVIOUS
  <1>4. AppendCapped(list, msgs) = list \o SubSeq(msgs, 1, n)
    BY DEF AppendCapped
  <1>5. QED
    BY <1>2, <1>3, <1>4

\* The message that a client's call builds invalidates what it declared stale.
LEMMA MessagesHit ==
  ASSUME CacheIdsFit, NEW b \in Slots
  PROVE  /\ \A relId \in RelIds :
              Hits(b, RelMsg(DbOf[b], relId)) =
                (IF relId = 0 THEN RelEntries ELSE {<<"rel", relId>>})
         /\ \A cacheId \in CacheIds, hash \in Hashes :
              Hits(b, SysMsg(DbOf[b], cacheId, hash)) = {<<"sys", hash>>}
  <1>1. \A relId \in RelIds :
          Hits(b, RelMsg(DbOf[b], relId)) =
            (IF relId = 0 THEN RelEntries ELSE {<<"rel", relId>>})
    BY DEF Hits, RelMsg, CACHE_INVAL_RELCACHE
  <1>2. ASSUME NEW cacheId \in CacheIds, NEW hash \in Hashes
        PROVE  Hits(b, SysMsg(DbOf[b], cacheId, hash)) = {<<"sys", hash>>}
    <2>1. Int8(cacheId) >= 0
      BY DEF CacheIdsFit
    <2>2. Int8(cacheId) # CACHE_INVAL_RELCACHE
      <3>1. Int8(cacheId) \in Int
        BY KeysAssumption, Int8Range
      <3>2. QED
        BY <2>1, <3>1 DEF CACHE_INVAL_RELCACHE
    <2>3. QED
      BY <2>1, <2>2 DEF Hits, SysMsg
  <1>3. QED
    BY <1>1, <1>2

\* Two numbers less than a ring apart do not share a slot.
LEMMA NewestOfSlot ==
  ASSUME NEW n \in Nat, NEW newest \in Int, n <= newest,
         newest - n < MaxMessages
  PROVE  newest - ((newest - (n % MaxMessages)) % MaxMessages) = n
  <1> DEFINE m == MaxMessages
             q == n \div m
             d == newest - n
  <1>1. m \in Nat \ {0} /\ d \in 0 .. m - 1 /\ q \in Nat
    BY SizesAssumption
  <1>2. n = m * q + (n % m)
    BY <1>1
  <1>3. newest - (n % m) = d + m * q
    BY <1>1, <1>2
  <1>4. (d + m * q) % m = d
    BY <1>1
  <1>5. QED
    BY <1>1, <1>3, <1>4

\* Publishing keeps every message less than a ring behind the newest one.
LEMMA WriteRingKeeps ==
  ASSUME NEW out \in Seq(Message), maxMsgNum \in Nat,
         NEW n \in Nat, n < maxMsgNum,
         maxMsgNum + Len(out) - n <= MaxMessages
  PROVE  WriteRing(out)[n % MaxMessages] = messages[n % MaxMessages]
  <1>1. n % MaxMessages \in 0 .. MaxMessages - 1
    BY SizesAssumption
  <1>2. Len(out) \in Nat
    BY LenProperties
  <1> DEFINE newest == maxMsgNum + Len(out) - 1
  <1>3. newest - ((newest - (n % MaxMessages)) % MaxMessages) = n
    <2>1. newest \in Int /\ n <= newest /\ newest - n < MaxMessages
      BY <1>2, SizesAssumption
    <2> HIDE DEF newest
    <2>2. QED
      BY <2>1, NewestOfSlot
  <1>4. QED
    BY <1>1, <1>3 DEF WriteRing

\* ... and leaves the messages published in the slots of their numbers.
LEMMA WriteRingPuts ==
  ASSUME NEW out \in Seq(Message), maxMsgNum \in Nat,
         Len(out) <= MaxMessages, NEW k \in 1 .. Len(out)
  PROVE  WriteRing(out)[(maxMsgNum + k - 1) % MaxMessages] = out[k]
  <1> DEFINE n == maxMsgNum + k - 1
             newest == maxMsgNum + Len(out) - 1
  <1>1. Len(out) \in Nat
    BY LenProperties
  <1>2. n \in Nat /\ newest \in Int /\ n <= newest /\ newest - n < MaxMessages
        /\ ~(n < maxMsgNum) /\ n - maxMsgNum + 1 = k
    BY <1>1, SizesAssumption
  <1>3. WriteRing(out) =
          [slot \in 0 .. MaxMessages - 1 |->
             LET num == newest - ((newest - slot) % MaxMessages)
             IN  IF num < maxMsgNum THEN messages[slot]
                 ELSE out[num - maxMsgNum + 1]]
    BY DEF WriteRing
  <1> HIDE DEF n, newest
  <1>4. n % MaxMessages \in 0 .. MaxMessages - 1
    BY <1>2, SizesAssumption
  <1>5. newest - ((newest - (n % MaxMessages)) % MaxMessages) = n
    BY <1>2, NewestOfSlot
  <1>6. WriteRing(out)[n % MaxMessages] = out[k]
    BY <1>2, <1>3, <1>4, <1>5
  <1>7. QED
    BY <1>6 DEF n

\* A transaction's two lists fit together in one message array.
LEMMA ListsFit ==
  ASSUME IInv, CommitsFit, NEW b \in Slots
  PROVE  /\ priorCmd[b] \in Seq(Message) /\ currentCmd[b] \in Seq(Message)
         /\ Len(priorCmd[b]) \in Nat /\ Len(currentCmd[b]) \in Nat
         /\ Len(priorCmd[b]) + Len(currentCmd[b]) <= ListMax
  <1>1. priorCmd[b] \in Seq(Message) /\ currentCmd[b] \in Seq(Message)
    BY DEF IInv, TypeOK
  <1>2. Len(priorCmd[b]) \in Nat /\ Len(currentCmd[b]) \in Nat
    BY <1>1, LenProperties
  <1>3. Len(priorCmd[b]) + Len(currentCmd[b]) <= TxMax /\ TxMax <= ListMax
    BY DEF IInv, WindowBounds, CommitsFit
  <1>4. \A p, q \in Nat : p + q <= TxMax /\ TxMax <= ListMax => p + q <= ListMax
    BY SizesAssumption
  <1>5. QED
    BY <1>1, <1>2, <1>3, <1>4, Zenon

\* What a commit publishes invalidates what the two lists did, in every
\* backend of the database.
LEMMA PublishedHits ==
  ASSUME IInv, CommitsFit, NEW b \in Slots, NEW c \in Slots, DbOf[c] = DbOf[b]
  PROVE  HitsOf(c, Published(b)) =
           HitsOf(b, priorCmd[b]) \cup HitsOf(b, currentCmd[b])
  <1>1. Published(b) = priorCmd[b] \o currentCmd[b]
    BY ListsFit, AppendCappedAll DEF Published
  <1>2. HitsOf(b, Published(b)) =
          HitsOf(b, priorCmd[b]) \cup HitsOf(b, currentCmd[b])
    <2>1. priorCmd[b] \in Seq(Message) /\ currentCmd[b] \in Seq(Message)
      BY ListsFit
    <2>2. HitsOf(b, priorCmd[b] \o currentCmd[b]) =
            HitsOf(b, priorCmd[b]) \cup HitsOf(b, currentCmd[b])
      BY <2>1, HitsConcat
    <2>3. QED
      BY <1>1, <2>2
  <1>3. QED
    BY <1>2, HitsSameDb

LEMMA AddMessageIntent ==
  ASSUME IInv, CommitsFit, IntentQueued, NEW b \in Slots, NEW msg \in Message,
         NEW entries, entries = Hits(b, msg), AddMessage(b, msg, entries)
  PROVE  IntentQueued'
  <1>1. /\ currentCmd' = [currentCmd EXCEPT ![b] = AppendCapped(@, <<msg>>)]
        /\ intent' = [intent EXCEPT ![b] = @ \cup entries]
        /\ priorCmd' = priorCmd
        /\ Len(currentCmd[b]) + Len(priorCmd[b]) < TxMax
    BY DEF AddMessage
  <1>2. <<msg>> \in Seq(Message) /\ Len(<<msg>>) = 1
    OBVIOUS
  <1>3. Len(currentCmd[b]) + Len(<<msg>>) <= ListMax
    <2>1. Len(currentCmd[b]) \in Nat /\ Len(priorCmd[b]) \in Nat
      BY ListsFit
    <2>2. \A p, q \in Nat : q + p < TxMax /\ TxMax <= ListMax => q + 1 <= ListMax
      BY SizesAssumption
    <2>3. QED
      BY <1>1, <1>2, <2>1, <2>2, Zenon DEF CommitsFit
  <1>4. AppendCapped(currentCmd[b], <<msg>>) = currentCmd[b] \o <<msg>>
    BY <1>2, <1>3, ListsFit, AppendCappedAll
  <1>5. HitsOf(b, <<msg>>) = entries
    <2>1. DOMAIN <<msg>> = {1} /\ <<msg>>[1] = msg
      OBVIOUS
    <2>2. QED
      BY <2>1 DEF HitsOf
  <1>6. HitsOf(b, currentCmd[b] \o <<msg>>) =
          HitsOf(b, currentCmd[b]) \cup entries
    <2>1. currentCmd[b] \in Seq(Message)
      BY ListsFit
    <2>2. HitsOf(b, currentCmd[b] \o <<msg>>) =
            HitsOf(b, currentCmd[b]) \cup HitsOf(b, <<msg>>)
      BY <1>2, <2>1, HitsConcat
    <2>3. QED
      BY <1>5, <2>2
  <1>7. /\ currentCmd \in [Slots -> Seq(Message)]
        /\ intent \in [Slots -> SUBSET Entries]
    BY DEF IInv, TypeOK
  <1>8. ASSUME NEW c \in Slots
        PROVE  intent'[c] \subseteq
                 HitsOf(c, priorCmd'[c]) \cup HitsOf(c, currentCmd'[c])
    <2>1. intent[c] \subseteq HitsOf(c, priorCmd[c]) \cup HitsOf(c, currentCmd[c])
      BY DEF IntentQueued
    <2>2. CASE c = b
      <3>1. currentCmd'[c] = currentCmd[b] \o <<msg>>
            /\ intent'[c] = intent[b] \cup entries
        BY <1>1, <1>4, <1>7, <2>2
      <3>2. QED
        BY <1>1, <1>6, <2>1, <2>2, <3>1
    <2>3. CASE c # b
      BY <1>1, <1>7, <2>1, <2>3
    <2>4. QED
      BY <2>2, <2>3
  <1>9. QED
    BY <1>8 DEF IntentQueued, HitsOf, Hits

\* Ending a command moves its messages behind those of the commands before it.
LEMMA CommandEndIntent ==
  ASSUME IInv, CommitsFit, IntentQueued, NEW b \in Slots, CommandEnd(b)
  PROVE  IntentQueued'
  <1>1. /\ priorCmd' = [priorCmd EXCEPT ![b] = AppendCapped(@, currentCmd[b])]
        /\ currentCmd' = [currentCmd EXCEPT ![b] = <<>>]
        /\ intent' = intent
    BY DEF CommandEnd
  <1>2. HitsOf(b, AppendCapped(priorCmd[b], currentCmd[b])) =
          HitsOf(b, priorCmd[b]) \cup HitsOf(b, currentCmd[b])
    BY PublishedHits DEF Published
  <1>3. /\ currentCmd \in [Slots -> Seq(Message)]
        /\ priorCmd \in [Slots -> Seq(Message)]
    BY DEF IInv, TypeOK
  <1>4. ASSUME NEW c \in Slots
        PROVE  intent'[c] \subseteq
                 HitsOf(c, priorCmd'[c]) \cup HitsOf(c, currentCmd'[c])
    <2>1. intent[c] \subseteq HitsOf(c, priorCmd[c]) \cup HitsOf(c, currentCmd[c])
      BY DEF IntentQueued
    <2>2. CASE c = b
      <3>1. priorCmd'[c] = AppendCapped(priorCmd[b], currentCmd[b])
        BY <1>1, <1>3, <2>2
      <3>2. QED
        BY <1>1, <1>2, <2>1, <2>2, <3>1
    <2>3. CASE c # b
      BY <1>1, <1>3, <2>1, <2>3
    <2>4. QED
      BY <2>2, <2>3
  <1>5. QED
    BY <1>4 DEF IntentQueued, HitsOf, Hits

\* A transaction that ends or begins has nothing declared.
LEMMA IntentCleared ==
  ASSUME TypeOK, IntentQueued, NEW b \in Slots,
         \/ UNCHANGED <<currentCmd, priorCmd, intent>>
         \/ /\ currentCmd' = [currentCmd EXCEPT ![b] = <<>>]
            /\ priorCmd' = [priorCmd EXCEPT ![b] = <<>>]
            /\ intent' = [intent EXCEPT ![b] = {}]
  PROVE  IntentQueued'
  <1>1. /\ currentCmd \in [Slots -> Seq(Message)]
        /\ priorCmd \in [Slots -> Seq(Message)]
        /\ intent \in [Slots -> SUBSET Entries]
    BY DEF TypeOK
  <1>2. ASSUME NEW c \in Slots
        PROVE  intent'[c] \subseteq
                 HitsOf(c, priorCmd'[c]) \cup HitsOf(c, currentCmd'[c])
    <2>1. intent[c] \subseteq HitsOf(c, priorCmd[c]) \cup HitsOf(c, currentCmd[c])
      BY DEF IntentQueued
    <2>2. CASE UNCHANGED <<currentCmd, priorCmd, intent>>
      BY <2>1, <2>2
    <2>3. CASE /\ currentCmd' = [currentCmd EXCEPT ![b] = <<>>]
               /\ priorCmd' = [priorCmd EXCEPT ![b] = <<>>]
               /\ intent' = [intent EXCEPT ![b] = {}]
      <3>1. CASE c = b
        BY <1>1, <2>3, <3>1
      <3>2. CASE c # b
        BY <1>1, <2>1, <2>3, <3>2
      <3>3. QED
        BY <3>1, <3>2
    <2>4. QED
      BY <2>2, <2>3
  <1>3. QED
    BY <1>2 DEF IntentQueued, HitsOf, Hits

LEMMA IntentInvariance ==
  ASSUME IInv, CommitsFit, IntentQueued, [Next]_vars
  PROVE  IntentQueued'
  <1> USE DEF IInv
  <1>1. ASSUME NEW b \in Slots,
               \/ Register(b) \/ Exit(b) \/ HandleSignal(b)
               \/ BeginTransaction(b) \/ Poll(b)
               \/ ApplyBatch(b) \/ ApplyReset(b) \/ Rollback(b) \/ Commit(b)
        PROVE  IntentQueued'
    BY <1>1, IntentCleared
       DEF Register, Exit, HandleSignal, BeginTransaction, Poll, AcceptLocked,
           ApplyBatch, ApplyReset, Return, Rollback, Commit, EndTransaction, trans
  <1>2. ASSUME NEW b \in Slots, NEW entry \in Entries, AddItem(b, entry)
        PROVE  IntentQueued'
    BY <1>2, IntentCleared DEF AddItem, trans
  <1>3. ASSUME NEW b \in Slots, NEW relId \in RelIds, RegisterRelcache(b, relId)
        PROVE  IntentQueued'
    BY <1>3, MessageTypes, MessagesHit, AddMessageIntent
       DEF RegisterRelcache, CommitsFit
  <1>4. ASSUME NEW b \in Slots, NEW cacheId \in CacheIds, NEW hash \in Hashes,
               RegisterSyscache(b, cacheId, hash)
        PROVE  IntentQueued'
    <2> DEFINE msg == SysMsg(DbOf[b], cacheId, hash)
    <2>1. msg \in Message
      BY MessageTypes
    <2>2. {<<"sys", hash>>} = Hits(b, msg)
      BY MessagesHit DEF CommitsFit
    <2>3. AddMessage(b, msg, {<<"sys", hash>>})
      BY <1>4 DEF RegisterSyscache
    <2> HIDE DEF msg
    <2>4. QED
      BY <2>1, <2>2, <2>3, AddMessageIntent
  <1>5. ASSUME NEW b \in Slots, CommandEnd(b)
        PROVE  IntentQueued'
    BY <1>5, CommandEndIntent
  <1>6. CASE UNCHANGED vars
    <2>1. UNCHANGED <<currentCmd, priorCmd, intent>>
      BY <1>6 DEF vars, trans
    <2>2. QED
      BY <2>1 DEF IntentQueued, HitsOf, Hits
  <1>7. QED
    BY <1>1, <1>2, <1>3, <1>4, <1>5, <1>6 DEF Next

\* Only registered processes fill caches, and only accept reads messages.
LEMMA IdleInvariance ==
  ASSUME TypeOK, Idle, [Next]_vars
  PROVE  Idle'
  <1> USE DEF TypeOK, Idle, Registered
  <1>1. ASSUME NEW b \in Slots, Register(b)
        PROVE  Idle'
    BY <1>1, SMTT(30) DEF Register
  <1>2. ASSUME NEW b \in Slots, Exit(b)
        PROVE  Idle'
    BY <1>2 DEF Exit, shared
  <1>3. ASSUME NEW b \in Slots, HandleSignal(b)
        PROVE  Idle'
    BY <1>3 DEF HandleSignal, shared, calls
  <1>4. ASSUME NEW b \in Slots, BeginTransaction(b) \/ Poll(b)
        PROVE  Idle'
    <2>1. /\ b \in Registered
          /\ UNCHANGED <<lastBackendId, valid, owed>>
      BY <1>4 DEF BeginTransaction, Poll, AcceptLocked
    <2>2. CASE SkipToReset(b)
      <3>1. pc' = [pc EXCEPT ![b] = "reset"] /\ batch' = batch
        BY <2>2 DEF SkipToReset
      <3>2. batch[b] = <<>>
        BY <1>4 DEF BeginTransaction, Poll, AcceptLocked
      <3>3. QED
        BY <2>1, <3>1, <3>2
    <2>3. CASE ReadUnread(b)
      BY <2>1, <2>3 DEF ReadUnread
    <2>4. QED
      BY <1>4, <2>2, <2>3 DEF BeginTransaction, Poll, AcceptLocked
  <1>5. ASSUME NEW b \in Slots, ApplyBatch(b) \/ ApplyReset(b)
        PROVE  Idle'
    <2>1. b \in Registered
      BY <1>5 DEF ApplyBatch, ApplyReset
    <2>2. /\ UNCHANGED lastBackendId
          /\ pc' = [pc EXCEPT ![b] = "ready"]
          /\ batch' = [batch EXCEPT ![b] = <<>>]
      BY <1>5 DEF ApplyBatch, ApplyReset, Return, shared
    <2>3. PICK entries : /\ valid' = [valid EXCEPT ![b] = @ \ entries]
                         /\ owed' = [owed EXCEPT ![b] = @ \ entries]
      BY <1>5 DEF ApplyBatch, ApplyReset, Invalidate
    <2>4. QED
      BY <2>1, <2>2, <2>3
  <1>6. ASSUME NEW b \in Slots, NEW entry \in Entries, AddItem(b, entry)
        PROVE  Idle'
    BY <1>6 DEF AddItem, shared, calls
  <1>7. ASSUME NEW b \in Slots, NEW msg, NEW entries, AddMessage(b, msg, entries)
        PROVE  Idle'
    BY <1>7 DEF AddMessage, shared, calls
  <1>8. ASSUME NEW b \in Slots, CommandEnd(b) \/ Rollback(b)
        PROVE  Idle'
    <2>1. PICK entries : /\ valid' = [valid EXCEPT ![b] = @ \ entries]
                         /\ owed' = [owed EXCEPT ![b] = @ \ entries]
      BY <1>8 DEF CommandEnd, Rollback, Invalidate
    <2>2. b \in Registered /\ UNCHANGED <<lastBackendId, pc, batch>>
      BY <1>8 DEF CommandEnd, Rollback, shared, calls
    <2>3. QED
      BY <2>1, <2>2
  <1>9. ASSUME NEW b \in Slots, Commit(b)
        PROVE  Idle'
    <2>1. /\ UNCHANGED <<lastBackendId, pc, batch, valid>>
          /\ \A i \in Slots : owed'[i] \subseteq owed[i] \cup valid[i]
      BY <1>9 DEF Commit, calls
    <2>2. QED
      BY <2>1
  <1>10. CASE UNCHANGED vars
    BY <1>10 DEF vars, shared, calls
  <1>11. QED
    BY <1>1, <1>2, <1>3, <1>4, <1>5, <1>6, <1>7, <1>8, <1>9, <1>10
       DEF Next, RegisterRelcache, RegisterSyscache

\* A step that leaves the ring and the readers alone and makes no entry owed
\* keeps what covers the owed entries.
LEMMA CoverKept ==
  ASSUME StaleIsCovered,
         UNCHANGED <<messages, maxMsgNum, nextMsgNum, resetState, batch,
                     lastBackendId>>,
         \A c \in Registered :
           /\ owed'[c] \subseteq owed[c]
           /\ pc'[c] = pc[c] \/ pc'[c] = "exited"
  PROVE  StaleIsCovered'
  BY DEF StaleIsCovered, Registered, HitsOf, Hits

\* A reader that is registered owes nothing.
LEMMA RegisterCover ==
  ASSUME CInv, NEW b \in Slots, Register(b)
  PROVE  StaleIsCovered'
  <1>1. /\ b = lastBackendId /\ lastBackendId' = lastBackendId + 1
        /\ nextMsgNum' = [nextMsgNum EXCEPT ![b] = maxMsgNum]
        /\ resetState' = resetState \ {b}
        /\ pc' = [pc EXCEPT ![b] = "ready"]
        /\ UNCHANGED <<messages, maxMsgNum, batch, owed>>
    BY DEF Register
  <1>2. Registered' = Registered \cup {b} /\ b \notin Registered
        /\ Registered \subseteq Slots
    <2>1. lastBackendId \in Nat /\ Registered \subseteq Slots
      BY RegisteredType DEF CInv, IInv, TypeOK
    <2>2. QED
      BY <1>1, <2>1 DEF Registered
  <1>3. owed'[b] = {}
    BY <1>1, <1>2 DEF CInv, Idle
  <1>4. \A c \in Registered : /\ nextMsgNum'[c] = nextMsgNum[c]
                              /\ pc'[c] = pc[c]
                              /\ c \in resetState => c \in resetState'
    BY <1>1, <1>2 DEF CInv, IInv, TypeOK
  <1>5. QED
    <2>1. ASSUME NEW c \in Registered, NEW entry \in owed'[c]
          PROVE  \/ pc'[c] \in {"reset", "exited"} \/ c \in resetState'
                 \/ entry \in HitsOf(c, batch'[c])
                 \/ \E n \in nextMsgNum'[c] .. maxMsgNum' - 1 :
                      entry \in Hits(c, messages'[n % MaxMessages])
      <3>1. \/ pc[c] \in {"reset", "exited"} \/ c \in resetState
            \/ entry \in HitsOf(c, batch[c])
            \/ \E n \in nextMsgNum[c] .. maxMsgNum - 1 :
                 entry \in Hits(c, messages[n % MaxMessages])
        BY <1>1, <2>1 DEF StaleIsCovered, CInv
      <3>2. QED
        BY <1>1, <1>4, <2>1, <3>1
    <2>2. QED
      BY <1>2, <1>3, <2>1 DEF StaleIsCovered, HitsOf, Hits

\* What a reader takes out of the unread part of the ring is in its batch.
LEMMA AcceptLockedCover ==
  ASSUME CInv, NEW b \in Slots, AcceptLocked(b)
  PROVE  StaleIsCovered'
  <1> DEFINE next == nextMsgNum[b]
             count == ReadCount(b)
  <1>1. /\ nextMsgNum \in [Slots -> Nat] /\ maxMsgNum \in Nat
        /\ pc \in [Slots -> {"absent", "ready", "apply", "reset", "exited"}]
        /\ batch \in [Slots -> Seq(Message)]
        /\ Registered \subseteq Slots
    BY RegisteredType DEF CInv, IInv, TypeOK
  <1>2. /\ UNCHANGED <<messages, maxMsgNum, owed>> /\ Registered' = Registered
        /\ pc[b] = "ready"
    BY DEF AcceptLocked, Registered
  <1>3. ASSUME NEW c \in Registered, c # b, NEW entry \in owed'[c]
        PROVE  \/ pc'[c] \in {"reset", "exited"} \/ c \in resetState'
               \/ entry \in HitsOf(c, batch'[c])
               \/ \E n \in nextMsgNum'[c] .. maxMsgNum - 1 :
                    entry \in Hits(c, messages[n % MaxMessages])
    <2>1. /\ nextMsgNum'[c] = nextMsgNum[c] /\ pc'[c] = pc[c]
          /\ batch'[c] = batch[c] /\ (c \in resetState => c \in resetState')
      BY <1>1, <1>3 DEF AcceptLocked, SkipToReset, ReadUnread
    <2>2. entry \in owed[c]
      BY <1>2, <1>3
    <2>3. \/ pc[c] \in {"reset", "exited"} \/ c \in resetState
          \/ entry \in HitsOf(c, batch[c])
          \/ \E n \in nextMsgNum[c] .. maxMsgNum - 1 :
               entry \in Hits(c, messages[n % MaxMessages])
      BY <1>3, <2>2 DEF StaleIsCovered, CInv
    <2>4. QED
      BY <2>1, <2>3, Zenon
  <1>4. ASSUME b \in Registered, NEW entry \in owed'[b]
        PROVE  \/ pc'[b] \in {"reset", "exited"} \/ b \in resetState'
               \/ entry \in HitsOf(b, batch'[b])
               \/ \E n \in nextMsgNum'[b] .. maxMsgNum - 1 :
                    entry \in Hits(b, messages[n % MaxMessages])
    <2>1. CASE SkipToReset(b)
      BY <1>1, <2>1 DEF SkipToReset
    <2>2. CASE ReadUnread(b)
      <3> DEFINE s == [i \in 1 .. count |->
                         messages[(next + i - 1) % MaxMessages]]
      <3>1. /\ batch' = [batch EXCEPT ![b] = s]
            /\ nextMsgNum' = [nextMsgNum EXCEPT ![b] = next + count]
            /\ b \notin resetState
        BY <2>2 DEF ReadUnread
      <3>2. batch'[b] = s /\ nextMsgNum'[b] = next + count
        BY <1>1, <3>1
      <3>3. batch[b] = <<>>
        BY <1>2 DEF CInv, Idle
      <3>4. PICK n \in next .. maxMsgNum - 1 :
              entry \in Hits(b, messages[n % MaxMessages])
        <4>1. HitsOf(b, batch[b]) = {}
          BY <3>3, HitsEmpty
        <4>2. entry \in owed[b]
          BY <1>2, <1>4
        <4>3. QED
          BY <1>2, <1>4, <3>1, <4>1, <4>2 DEF StaleIsCovered, CInv
      <3>5. next \in Nat /\ count \in Int /\ n \in Int
        BY <1>1, SizesAssumption DEF Unread, ReadCount
      <3>6. CASE n < next + count
        <4>1. n - next + 1 \in 1 .. count /\ next + (n - next + 1) - 1 = n
          BY <3>5, <3>6
        <4>2. s[n - next + 1] = messages[n % MaxMessages]
          BY <4>1
        <4>3. n - next + 1 \in DOMAIN s
          BY <4>1
        <4> HIDE DEF s
        <4>4. entry \in HitsOf(b, s)
          BY <3>4, <4>2, <4>3 DEF HitsOf
        <4>5. QED
          BY <3>2, <4>4
      <3>7. CASE n >= next + count
        <4>1. n \in next + count .. maxMsgNum - 1
          BY <1>1, <3>5, <3>7
        <4>2. QED
          BY <3>2, <3>4, <4>1
      <3>8. QED
        BY <3>5, <3>6, <3>7
    <2>3. QED
      BY <2>1, <2>2 DEF AcceptLocked
  <1>5. QED
    BY <1>2, <1>3, <1>4 DEF StaleIsCovered, HitsOf, Hits

\* A commit keeps what an unmarked reader has not read, and the messages it
\* publishes cover the entries it makes stale.
LEMMA CommitCover ==
  ASSUME CInv, IInv', CommitsFit, NEW b \in Slots, Commit(b)
  PROVE  StaleIsCovered'
  <1> DEFINE out == Published(b)
             Cov(c, entry) ==
               \/ pc'[c] \in {"reset", "exited"} \/ c \in resetState'
               \/ entry \in HitsOf(c, batch'[c])
               \/ \E n \in nextMsgNum'[c] .. maxMsgNum' - 1 :
                    entry \in Hits(c, messages'[n % MaxMessages])
  <1>1. /\ nextMsgNum \in [Slots -> Nat] /\ maxMsgNum \in Nat
        /\ Registered \subseteq Slots
        /\ valid \in [Slots -> SUBSET Entries]
        /\ owed \in [Slots -> SUBSET Entries]
    BY RegisteredType DEF CInv, IInv, TypeOK
  <1>2. out \in Seq(Message) /\ Len(out) \in Nat /\ Len(out) <= MaxMessages
        /\ DOMAIN out = 1 .. Len(out)
    <2>1. out \in Seq(Message) /\ Len(out) \in Nat
          /\ Len(out) <= Len(priorCmd[b]) + Len(currentCmd[b])
      BY OutType DEF Published, CInv, IInv
    <2>2. Len(priorCmd[b]) + Len(currentCmd[b]) <= TxMax
      BY DEF CInv, IInv, WindowBounds
    <2>3. TxMax <= MaxMessages
      BY HalfType, SizesAssumption DEF CommitsFit, RingSuffices
    <2>4. Len(priorCmd[b]) \in Nat /\ Len(currentCmd[b]) \in Nat
      BY ListsFit DEF CInv
    <2>5. \A n, p, q \in Nat : n <= p + q /\ p + q <= TxMax /\ TxMax <= MaxMessages
                                 => n <= MaxMessages
      BY SizesAssumption
    <2> HIDE DEF out
    <2>6. Len(out) <= MaxMessages
      BY <2>1, <2>2, <2>3, <2>4, <2>5, Zenon
    <2>7. QED
      BY <2>1, <2>6, LenProperties
  <1>3. /\ UNCHANGED <<nextMsgNum, batch, pc>> /\ Registered' = Registered
        /\ maxMsgNum' = maxMsgNum + Len(out)
        /\ messages' = WriteRing(out)
        /\ resetState' = resetState \cup Laggards
        /\ owed' = [i \in Slots |->
             IF DbOf[i] = DbOf[b] THEN owed[i] \cup (valid[i] \cap intent[b])
             ELSE owed[i]]
    BY DEF Commit, Send, calls, Registered
  <1>4. ASSUME NEW c \in Registered \ resetState'
        PROVE  maxMsgNum + Len(out) - nextMsgNum[c] <= MaxMessages
    <2>1. UnreadFits'
      BY LagFits, PTL DEF CommitsFit
    <2>2. c \in Registered' \ resetState'
      BY <1>3, <1>4
    <2>3. Unread(c)' <= MaxMessages
      BY <2>1, <2>2 DEF UnreadFits
    <2>4. nextMsgNum' = nextMsgNum /\ maxMsgNum' = maxMsgNum + Len(out)
      BY <1>3
    <2>5. maxMsgNum' - nextMsgNum'[c] <= MaxMessages
      BY <2>3 DEF Unread
    <2> HIDE DEF out
    <2>6. QED
      BY <1>1, <1>2, <1>4, <2>4, <2>5
  <1> HIDE DEF out
  <1>5. ASSUME NEW c \in Registered, NEW entry \in owed[c]
        PROVE  Cov(c, entry)
    <2>1. \/ pc[c] \in {"reset", "exited"} \/ c \in resetState
          \/ entry \in HitsOf(c, batch[c])
          \/ \E n \in nextMsgNum[c] .. maxMsgNum - 1 :
               entry \in Hits(c, messages[n % MaxMessages])
      BY DEF StaleIsCovered, CInv
    <2>2. CASE pc[c] \in {"reset", "exited"} \/ entry \in HitsOf(c, batch[c])
      BY <1>3, <2>2
    <2>3. CASE c \in resetState \/ c \in resetState'
      BY <1>3, <2>3
    <2>4. CASE c \notin resetState' /\
               \E n \in nextMsgNum[c] .. maxMsgNum - 1 :
                 entry \in Hits(c, messages[n % MaxMessages])
      <3>1. PICK n \in nextMsgNum[c] .. maxMsgNum - 1 :
              entry \in Hits(c, messages[n % MaxMessages])
        BY <2>4
      <3>2. nextMsgNum[c] \in Nat /\ n \in Nat /\ n < maxMsgNum
            /\ maxMsgNum + Len(out) - n <= MaxMessages
            /\ n \in nextMsgNum[c] .. maxMsgNum + Len(out) - 1
        <4>1. maxMsgNum + Len(out) - nextMsgNum[c] <= MaxMessages
          BY <1>4, <2>4
        <4>2. nextMsgNum[c] \in Nat
          BY <1>1
        <4>3. QED
          BY <1>1, <1>2, <4>1, <4>2, SizesAssumption
      <3>3. messages'[n % MaxMessages] = messages[n % MaxMessages]
        BY <1>1, <1>2, <1>3, <3>2, WriteRingKeeps
      <3>4. n \in nextMsgNum'[c] .. maxMsgNum' - 1
        <4>1. nextMsgNum' = nextMsgNum /\ maxMsgNum' = maxMsgNum + Len(out)
          BY <1>3
        <4>2. QED
          BY <1>1, <1>2, <3>2, <4>1
      <3>5. QED
        BY <3>1, <3>3, <3>4
    <2>5. QED
      BY <2>1, <2>2, <2>3, <2>4
  <1>6. ASSUME NEW c \in Registered, DbOf[c] = DbOf[b], NEW entry \in intent[b]
        PROVE  Cov(c, entry)
    <2>1. entry \in HitsOf(c, out)
      <3>1. entry \in HitsOf(b, priorCmd[b]) \cup HitsOf(b, currentCmd[b])
        BY <1>6 DEF CInv, IntentQueued
      <3>2. HitsOf(c, Published(b)) =
              HitsOf(b, priorCmd[b]) \cup HitsOf(b, currentCmd[b])
        BY <1>1, <1>6, PublishedHits DEF CInv
      <3>3. QED
        BY <3>1, <3>2 DEF out
    <2>2. PICK k \in 1 .. Len(out) : entry \in Hits(c, out[k])
      BY <1>2, <2>1 DEF HitsOf
    <2>3. messages'[(maxMsgNum + k - 1) % MaxMessages] = out[k]
      BY <1>1, <1>2, <1>3, WriteRingPuts
    <2>4. maxMsgNum + k - 1 \in nextMsgNum'[c] .. maxMsgNum' - 1
      <3>1. nextMsgNum[c] \in Nat /\ nextMsgNum[c] <= maxMsgNum
        BY <1>1 DEF CInv, IInv, MinIsBehindReaders
      <3>2. QED
        BY <1>1, <1>2, <1>3, <3>1
    <2>5. QED
      BY <2>2, <2>3, <2>4
  <1>7. ASSUME NEW c \in Registered, NEW entry \in owed'[c]
        PROVE  Cov(c, entry)
    <2>1. \/ entry \in owed[c]
          \/ DbOf[c] = DbOf[b] /\ entry \in intent[b]
      BY <1>1, <1>3, <1>7
    <2> HIDE DEF Cov
    <2>2. QED
      BY <1>5, <1>6, <2>1
  <1>8. QED
    BY <1>3, <1>7 DEF StaleIsCovered, HitsOf, Hits

LEMMA CoverInvariance ==
  ASSUME CInv, IInv', CommitsFit, [Next]_vars
  PROVE  StaleIsCovered'
  <1>1. TypeOK /\ StaleIsCovered
    BY DEF CInv, IInv
  <1>2. ASSUME NEW b \in Slots, Register(b)
        PROVE  StaleIsCovered'
    BY <1>2, RegisterCover
  <1>3. ASSUME NEW b \in Slots, Exit(b)
        PROVE  StaleIsCovered'
    BY <1>1, <1>3, CoverKept DEF Exit, shared, TypeOK
  <1>4. ASSUME NEW b \in Slots, HandleSignal(b)
        PROVE  StaleIsCovered'
    BY <1>1, <1>4, CoverKept DEF HandleSignal, shared, calls
  <1>5. ASSUME NEW b \in Slots, BeginTransaction(b) \/ Poll(b)
        PROVE  StaleIsCovered'
    BY <1>5, AcceptLockedCover DEF BeginTransaction, Poll
  \* the batch is applied, so that nothing owed depends on it any more
  <1>6. ASSUME NEW b \in Slots, ApplyBatch(b) \/ ApplyReset(b)
        PROVE  StaleIsCovered'
    <2>1. /\ UNCHANGED <<messages, maxMsgNum, nextMsgNum, resetState,
                         lastBackendId>>
          /\ Registered' = Registered
          /\ batch' = [batch EXCEPT ![b] = <<>>]
          /\ pc' = [pc EXCEPT ![b] = "ready"]
      BY <1>6 DEF ApplyBatch, ApplyReset, Return, shared, Registered
    <2>2. \A c \in Slots : c # b => /\ owed'[c] = owed[c] /\ pc'[c] = pc[c]
                                    /\ batch'[c] = batch[c]
      BY <1>1, <1>6, <2>1 DEF ApplyBatch, ApplyReset, Invalidate, TypeOK
    <2>3. \A entry \in owed'[b] : /\ entry \in owed[b] /\ pc[b] = "apply"
                                  /\ entry \notin HitsOf(b, batch[b])
      <3>1. CASE ApplyBatch(b)
        BY <1>1, <3>1 DEF ApplyBatch, Invalidate, TypeOK
      <3>2. CASE ApplyReset(b)
        BY <1>1, <3>2 DEF ApplyReset, Invalidate, TypeOK
      <3>3. QED
        BY <1>6, <3>1, <3>2
    <2>4. ASSUME NEW c \in Registered, NEW entry \in owed'[c]
          PROVE  \/ pc'[c] \in {"reset", "exited"} \/ c \in resetState
                 \/ entry \in HitsOf(c, batch'[c])
                 \/ \E n \in nextMsgNum[c] .. maxMsgNum - 1 :
                      entry \in Hits(c, messages[n % MaxMessages])
      <3>1. c \in Slots
        BY <1>1, RegisteredType
      <3>2. entry \in owed[c]
        BY <2>2, <2>3, <2>4, <3>1
      <3>3. \/ pc[c] \in {"reset", "exited"} \/ c \in resetState
            \/ entry \in HitsOf(c, batch[c])
            \/ \E n \in nextMsgNum[c] .. maxMsgNum - 1 :
                 entry \in Hits(c, messages[n % MaxMessages])
        BY <1>1, <3>2 DEF StaleIsCovered
      <3>4. CASE c = b
        BY <2>3, <2>4, <3>3, <3>4
      <3>5. CASE c # b
        BY <2>2, <3>1, <3>3, <3>5, Zenon
      <3>6. QED
        BY <3>4, <3>5
    <2>5. QED
      BY <2>1, <2>4 DEF StaleIsCovered, HitsOf, Hits
  <1>7. ASSUME NEW b \in Slots, NEW entry \in Entries, AddItem(b, entry)
        PROVE  StaleIsCovered'
    BY <1>1, <1>7, CoverKept DEF AddItem, shared, calls, TypeOK
  <1>8. ASSUME NEW b \in Slots, NEW msg, NEW entries, AddMessage(b, msg, entries)
        PROVE  StaleIsCovered'
    BY <1>1, <1>8, CoverKept DEF AddMessage, shared, calls
  <1>9. ASSUME NEW b \in Slots, CommandEnd(b) \/ Rollback(b)
        PROVE  StaleIsCovered'
    <2>1. PICK entries : owed' = [owed EXCEPT ![b] = @ \ entries]
      BY <1>9 DEF CommandEnd, Rollback, Invalidate
    <2>2. \A c \in Registered : owed'[c] \subseteq owed[c]
      BY <1>1, <2>1 DEF TypeOK
    <2>3. QED
      BY <1>1, <1>9, <2>2, CoverKept DEF CommandEnd, Rollback, shared, calls
  <1>10. ASSUME NEW b \in Slots, Commit(b)
         PROVE  StaleIsCovered'
    BY <1>10, CommitCover
  <1>11. CASE UNCHANGED vars
    BY <1>1, <1>11, CoverKept DEF vars, shared, calls
  <1>12. QED
    BY <1>2, <1>3, <1>4, <1>5, <1>6, <1>7, <1>8, <1>9, <1>10, <1>11
       DEF Next, RegisterRelcache, RegisterSyscache

LEMMA InitCInv == Init => CInv
  <1> SUFFICES ASSUME Init
               PROVE  CInv
    OBVIOUS
  <1>1. IInv
    BY InitInv
  <1>2. IntentQueued
    BY DEF Init, IntentQueued
  <1>3. Idle
    BY DEF Init, Idle
  <1>4. StaleIsCovered
    <2>1. Registered = {}
      BY DEF Init, Registered
    <2>2. QED
      BY <2>1 DEF StaleIsCovered
  <1>5. QED
    BY <1>1, <1>2, <1>3, <1>4 DEF CInv

LEMMA CoverInv == CommitsFit => (Spec => []CInv)
  <1> SUFFICES ASSUME CommitsFit
               PROVE  Spec => []CInv
    OBVIOUS
  <1>1. CInv /\ [Next]_vars => CInv'
    <2> SUFFICES ASSUME CInv, [Next]_vars
                 PROVE  CInv'
      OBVIOUS
    <2>1. IInv /\ IntentQueued /\ Idle /\ TypeOK
      BY DEF CInv, IInv
    <2>2. IInv'
      BY <2>1, InvInvariance
    <2>3. QED
      BY <2>1, <2>2, IntentInvariance, IdleInvariance, CoverInvariance DEF CInv
  <1>2. QED
    BY <1>1, InitCInv, PTL DEF Spec

\* No commit is forgotten, for any number of backends, databases and entries
\* and whatever interleaves: while the ring suffices, a transaction fits in a
\* message array and every cache id fits in its int8_t, an entry that a commit
\* made stale stays covered until the process invalidates it.
THEOREM CommitsReachEveryCache == CommitsFit => (Spec => []StaleIsCovered)
  <1> SUFFICES ASSUME CommitsFit
               PROVE  Spec => []StaleIsCovered
    OBVIOUS
  <1>1. CInv => StaleIsCovered
    BY DEF CInv
  <1>2. QED
    BY <1>1, CoverInv, PTL

\* A process between two calls of accept, not marked and with nothing to read,
\* uses no entry that a committed transaction of its database made stale.
NothingToReadIsFresh ==
  \A b \in Registered :
    pc[b] = "ready" /\ b \notin resetState /\ Unread(b) = 0 => owed[b] = {}

\* What the demo's waiting loop achieves each time it has caught up.
THEOREM CaughtUpIsFresh == CommitsFit => (Spec => []NothingToReadIsFresh)
  <1> SUFFICES ASSUME CommitsFit
               PROVE  Spec => []NothingToReadIsFresh
    OBVIOUS
  <1>1. CInv => NothingToReadIsFresh
    <2> SUFFICES ASSUME CInv, NEW b \in Registered, NEW entry \in owed[b],
                        pc[b] = "ready", b \notin resetState, Unread(b) = 0
                 PROVE  FALSE
      BY DEF NothingToReadIsFresh
    <2>1. nextMsgNum[b] \in Nat /\ maxMsgNum \in Nat /\ b \in Slots
      BY RegisteredType DEF CInv, IInv, TypeOK
    <2>2. nextMsgNum[b] .. maxMsgNum - 1 = {}
      BY <2>1 DEF Unread
    <2>3. HitsOf(b, batch[b]) = {}
      BY <2>1, HitsEmpty DEF CInv, Idle
    <2>4. QED
      BY <2>2, <2>3 DEF CInv, StaleIsCovered
  <1>2. QED
    BY <1>1, CoverInv, PTL
==============================================================================
