-------------------------- MODULE InvalQueueProofs --------------------------
(***************************************************************************)
(* Theorems about InvalQueue, for every value of its constants: its type    *)
(* invariant, the bound on the lag of a backend that is not to reset, that  *)
(* the vector holds every message such a backend has still to read, and     *)
(* that nothing but a reset makes a cache miss what a commit made stale.    *)
(***************************************************************************)
EXTENDS InvalQueue, SequenceTheorems, TLAPS

-----------------------------------------------------------------------------
(* Operators.                                                               *)

LEMMA SlotRange == \A n \in Nat : Slot(n) \in 0 .. MaxMessages - 1
  BY QueueAssumption DEF Slot

\* Two message numbers less than MaxMessages apart have different slots.
LEMMA SlotsDiffer ==
  ASSUME NEW m \in Nat, NEW n \in Nat, m < n, n - m < MaxMessages
  PROVE  Slot(m) # Slot(n)
  <1> DEFINE p == m \div MaxMessages
             q == n \div MaxMessages
  <1>1. /\ p \in Nat /\ q \in Nat
        /\ m = MaxMessages * p + (m % MaxMessages)
        /\ n = MaxMessages * q + (n % MaxMessages)
    BY QueueAssumption
  <1> HIDE DEF p, q
  <1>2. SUFFICES ASSUME m % MaxMessages = n % MaxMessages
                 PROVE  FALSE
    BY DEF Slot
  <1>3. n - m = MaxMessages * (q - p)
    BY <1>1, <1>2, QueueAssumption
  <1>4. q - p >= 1
    BY <1>1, <1>3, QueueAssumption
  <1>5. MaxMessages * (q - p) >= MaxMessages
    BY <1>1, <1>4, QueueAssumption
  <1>6. QED
    BY <1>1, <1>3, <1>5, QueueAssumption

\* Numbers below MaxMessages are their own slots: the vector grows in order.
LEMMA SlotOfSmall == \A n \in Nat : n < MaxMessages => Slot(n) = n
  BY QueueAssumption DEF Slot

\* What the register functions of transaction.h build is an
\* InvalidationMessage.
LEMMA MessageTypes ==
  /\ \A relId \in RelIds : RelMsg(relId) \in Message
  /\ \A cacheId \in CacheIds, hash \in Hashes : SysMsg(cacheId, hash) \in Message
  <1>1. \A relId \in RelIds : RelMsg(relId) \in Message
    BY QueueAssumption DEF RelMsg, Message, CACHE_INVAL_RELCACHE
  <1>2. \A n \in Nat : ((n + 128) % 256) - 128 \in -128 .. 127
    OBVIOUS
  <1>3. ASSUME NEW cacheId \in CacheIds, NEW hash \in Hashes
        PROVE  SysMsg(cacheId, hash) \in Message
    BY <1>2, QueueAssumption DEF SysMsg, Message
  <1>4. QED
    BY <1>1, <1>3

-----------------------------------------------------------------------------
(* The type invariant.                                                      *)

LEMMA InitType == Init => TypeOK
  <1>1. <<>> \in Seq(Message) /\ Len(<<>>) = 0
    OBVIOUS
  <1>2. QED
    BY <1>1, QueueAssumption DEF Init, TypeOK

\* Registered ids are backends.
LEMMA RegisteredType == TypeOK => Registered \subseteq Backends
  BY QueueAssumption DEF TypeOK, Registered, Backends

\* One insertion, vector and counters.
LEMMA InsertType ==
  ASSUME TypeOK, NEW b \in Backends, Insert(b)
  PROVE  TypeOK'
  <1> DEFINE msg == Head(outgoing[b])
  <1>1. /\ outgoing[b] \in Seq(Message)
        /\ outgoing[b] # <<>>
    BY DEF TypeOK, Insert
  <1>2. msg \in Message /\ Tail(outgoing[b]) \in Seq(Message)
    BY <1>1, HeadTailProperties
  <1>3. outgoing' \in [Backends -> Seq(Message)]
    BY <1>2 DEF TypeOK, Insert
  <1> HIDE DEF msg
  <1>4. Slot(maxMsgNum) \in 0 .. MaxMessages - 1 /\ Len(buffer) \in Nat
    <2>1. maxMsgNum \in Nat /\ buffer \in Seq(Message)
      BY DEF TypeOK
    <2>2. QED
      BY <2>1, SlotRange, LenProperties
  <1>5. buffer' \in Seq(Message) /\ Len(buffer') <= MaxMessages
    <2>1. CASE Len(buffer) <= Slot(maxMsgNum)
      <3>1. buffer' = Append(buffer, msg)
        BY <2>1 DEF Insert, msg
      <3>2. QED
        BY <1>2, <1>4, <2>1, <3>1, QueueAssumption DEF TypeOK, msg
    <2>2. CASE ~(Len(buffer) <= Slot(maxMsgNum))
      <3>1. buffer' = [buffer EXCEPT ![Slot(maxMsgNum) + 1] = msg]
        BY <2>2 DEF Insert, msg
      <3>2. Slot(maxMsgNum) + 1 \in 1 .. Len(buffer)
        BY <1>4, <2>2
      <3>3. buffer' \in Seq(Message) /\ Len(buffer') = Len(buffer)
        BY <1>2, <3>1, <3>2, ExceptSeq DEF TypeOK, msg
      <3>4. QED
        BY <3>3 DEF TypeOK
    <2>3. QED
      BY <2>1, <2>2
  <1>6. unread' \in [Backends -> Seq(Message)]
    BY <1>2 DEF TypeOK, Insert, msg
  <1>7. minMsgNum' \in Nat /\ resetState' \subseteq Backends
    BY RegisteredType DEF TypeOK, Insert, Cleanup, Laggards
  <1>8. maxMsgNum' \in Nat
    BY DEF TypeOK, Insert
  <1>9. QED
    BY <1>3, <1>5, <1>6, <1>7, <1>8 DEF TypeOK, Insert, trans, caches

\* getMessages, whether the backend is to reset or not.
LEMMA GetMessagesType ==
  ASSUME TypeOK, NEW b \in Backends, GetMessages(b), beginning' \subseteq Backends
  PROVE  TypeOK'
  <1>1. /\ resetState' \subseteq Backends
        /\ batch' \in [Backends -> SUBSET Message]
        /\ skipped' \in [Backends -> SUBSET Entries]
    <2>1. CASE SkipToReset(b)
      BY <2>1 DEF SkipToReset, TypeOK
    <2>2. CASE ReadUnread(b)
      <3>1. \A n \in nextMsgNum[b] .. maxMsgNum - 1 :
              Slot(n) < Len(buffer) => buffer[Slot(n) + 1] \in Message
        <4> SUFFICES ASSUME NEW n \in nextMsgNum[b] .. maxMsgNum - 1,
                            Slot(n) < Len(buffer)
                     PROVE  buffer[Slot(n) + 1] \in Message
          OBVIOUS
        <4>1. n \in Nat /\ Len(buffer) \in Nat
          BY DEF TypeOK
        <4>2. Slot(n) \in 0 .. MaxMessages - 1
          BY <4>1, SlotRange
        <4>3. Slot(n) + 1 \in 1 .. Len(buffer)
          BY <4>1, <4>2, QueueAssumption
        <4>4. QED
          BY <4>3, ElementOfSeq DEF TypeOK
      <3>2. {buffer[Slot(n) + 1] :
               n \in {n \in nextMsgNum[b] .. maxMsgNum - 1 : Slot(n) < Len(buffer)}}
              \in SUBSET Message
        BY <3>1
      <3>3. QED
        BY <2>2, <3>2 DEF ReadUnread, TypeOK
    <2>3. QED
      BY <2>1, <2>2 DEF GetMessages
  <1>2. unread' \in [Backends -> Seq(Message)]
    <2>1. <<>> \in Seq(Message)
      OBVIOUS
    <2>2. QED
      BY <2>1 DEF GetMessages, TypeOK
  <1>3. nextMsgNum' \in [Backends -> Nat]
        /\ pc' \in [Backends -> {"absent", "ready", "apply"}]
    BY DEF GetMessages, TypeOK
  <1>4. QED
    BY <1>1, <1>2, <1>3 DEF GetMessages, TypeOK, trans

LEMMA AddMessageType ==
  ASSUME TypeOK, NEW b \in Backends, NEW msg \in Message,
         NEW entries \in SUBSET Entries, AddMessage(b, msg, entries)
  PROVE  TypeOK'
  BY DEF AddMessage, TypeOK, queue, calls, caches

LEMMA EndOrBeginType ==
  ASSUME TypeOK, NEW b \in Backends, EndOrBegin(b)
  PROVE  /\ currentCmd' \in [Backends -> Seq(Message)]
         /\ priorCmd' \in [Backends -> Seq(Message)]
         /\ intent' \in [Backends -> SUBSET Entries]
  <1>1. <<>> \in Seq(Message)
    OBVIOUS
  <1>2. QED
    BY <1>1 DEF TypeOK, EndOrBegin

LEMMA ApplyType ==
  ASSUME TypeOK, NEW b \in Backends, Apply(b)
  PROVE  TypeOK'
  <1>1. /\ inProgress' \subseteq Backends
        /\ currentCmd' \in [Backends -> Seq(Message)]
        /\ priorCmd' \in [Backends -> Seq(Message)]
        /\ intent' \in [Backends -> SUBSET Entries]
    <2>1. CASE b \in beginning
      BY <2>1, EndOrBeginType DEF Apply, TypeOK
    <2>2. CASE b \notin beginning
      BY <2>2 DEF Apply, TypeOK, trans
    <2>3. QED
      BY <2>1, <2>2
  <1>2. /\ valid' \in [Backends -> SUBSET Entries]
        /\ owed' \in [Backends -> SUBSET Entries]
        /\ skipped' \in [Backends -> SUBSET Entries]
    BY DEF Apply, TypeOK
  <1>3. QED
    BY <1>1, <1>2 DEF Apply, TypeOK, queue

LEMMA TypeInvariance == TypeOK /\ [Next]_vars => TypeOK'
  <1> SUFFICES ASSUME TypeOK, [Next]_vars
               PROVE  TypeOK'
    OBVIOUS
  <1>1. ASSUME NEW b \in Backends, Construct(b)
        PROVE  TypeOK'
    <2>1. backendCount' \in 0 .. MaxBackends
      BY <1>1, QueueAssumption DEF Construct, TypeOK, Backends
    <2>2. QED
      BY <1>1, <2>1 DEF Construct, TypeOK, trans, caches
  <1>2. ASSUME NEW b \in Backends, Accept(b)
        PROVE  TypeOK'
    <2>1. beginning' \subseteq Backends
      BY <1>2 DEF Accept, TypeOK
    <2>2. QED
      BY <1>2, <2>1, GetMessagesType DEF Accept
  <1>3. ASSUME NEW b \in Backends, BeginTransaction(b)
        PROVE  TypeOK'
    <2>1. beginning' \subseteq Backends
      BY <1>3 DEF BeginTransaction, TypeOK
    <2>2. QED
      BY <1>3, <2>1, GetMessagesType DEF BeginTransaction
  <1>4. ASSUME NEW b \in Backends, Apply(b)
        PROVE  TypeOK'
    BY <1>4, ApplyType
  <1>5. ASSUME NEW b \in Backends, NEW entry \in Entries, AddEntry(b, entry)
        PROVE  TypeOK'
    BY <1>5 DEF AddEntry, TypeOK, queue, calls, trans
  <1>6. ASSUME NEW b \in Backends, NEW relId \in RelIds, RegisterRelcache(b, relId)
        PROVE  TypeOK'
    <2>1. (IF relId = 0 THEN RelEntries ELSE {<<"rel", relId>>}) \in SUBSET Entries
      BY DEF RelEntries, Entries
    <2>2. QED
      BY <1>6, <2>1, MessageTypes, AddMessageType DEF RegisterRelcache
  <1>7. ASSUME NEW b \in Backends, NEW cacheId \in CacheIds, NEW hash \in Hashes,
               RegisterSyscache(b, cacheId, hash)
        PROVE  TypeOK'
    <2>1. {<<"sys", hash>>} \in SUBSET Entries
      BY DEF SysEntries, Entries
    <2>2. QED
      BY <1>7, <2>1, MessageTypes, AddMessageType DEF RegisterSyscache
  <1>8. ASSUME NEW b \in Backends, ExecuteCommand(b)
        PROVE  TypeOK'
    <2>1. <<>> \in Seq(Message)
      OBVIOUS
    <2>2. QED
      BY <1>8, <2>1 DEF ExecuteCommand, TypeOK, queue, calls, caches
  <1>9. ASSUME NEW b \in Backends, Commit(b)
        PROVE  TypeOK'
    <2>1. outgoing' \in [Backends -> Seq(Message)]
      BY <1>9 DEF Commit, Published, TypeOK
    <2>2. owed' \in [Backends -> SUBSET Entries]
      BY <1>9 DEF Commit, TypeOK
    <2>3. inProgress' \subseteq Backends
      BY <1>9 DEF Commit, TypeOK
    <2>4. EndOrBegin(b)
      BY <1>9 DEF Commit
    <2>5. QED
      BY <1>9, <2>1, <2>2, <2>3, <2>4, EndOrBeginType DEF Commit, TypeOK, queue
  <1>10. ASSUME NEW b \in Backends, Insert(b)
         PROVE  TypeOK'
    BY <1>10, InsertType
  <1>11. ASSUME NEW b \in Backends, Rollback(b)
         PROVE  TypeOK'
    BY <1>11, EndOrBeginType DEF Rollback, TypeOK, queue, calls, caches
  <1>12. CASE UNCHANGED vars
    BY <1>12 DEF TypeOK, vars, queue, calls, trans, caches
  <1>13. QED
    BY <1>1, <1>2, <1>3, <1>4, <1>5, <1>6, <1>7, <1>8, <1>9, <1>10, <1>11,
       <1>12 DEF Next

\* Queue, caches and message lists keep their types: the vector never grows
\* beyond MaxMessages although nothing but the index bounds it, and ids of
\* messages fit an int8_t.
THEOREM Typing == Spec => []TypeOK
  BY InitType, TypeInvariance, PTL DEF Spec

-----------------------------------------------------------------------------
(* The window of unread messages and the vector.                            *)

\* minMsgNum is behind every reader; the vector is full once it has wrapped;
\* ids not given out yet have read nothing.
Window ==
  /\ minMsgNum <= maxMsgNum
  /\ \A b \in Registered : minMsgNum <= nextMsgNum[b] /\ nextMsgNum[b] <= maxMsgNum
  /\ Len(buffer) = IF maxMsgNum < MaxMessages THEN maxMsgNum ELSE MaxMessages
  /\ \A b \in Backends \ Registered : unread[b] = <<>>

IInv == TypeOK /\ Window /\ UnreadFits /\ UnreadKept

LEMMA InitInv == Init => IInv
  <1>1. Init => Registered = {}
    BY DEF Init, Registered
  <1>2. Len(<<>>) = 0
    OBVIOUS
  <1>3. QED
    BY <1>1, <1>2, InitType, QueueAssumption
       DEF IInv, Window, UnreadFits, UnreadKept, Init

\* A step that does not touch the queue keeps what is said about it.
LEMMA QuietStep ==
  ASSUME IInv, UNCHANGED queue
  PROVE  Window' /\ UnreadFits' /\ UnreadKept'
  BY DEF IInv, Window, UnreadFits, UnreadKept, queue, Registered, Unread

\* A new backend has nothing to read.
LEMMA ConstructInv ==
  ASSUME IInv, NEW b \in Backends, Construct(b)
  PROVE  Window' /\ UnreadFits' /\ UnreadKept'
  <1>1. /\ Registered' = Registered \cup {b} /\ b \notin Registered
        /\ Registered \subseteq Backends
    <2>1. backendCount \in Nat /\ b = backendCount + 1 /\ backendCount' = b
      BY QueueAssumption DEF IInv, TypeOK, Construct
    <2>2. QED
      BY <2>1, RegisteredType DEF IInv, Registered
  <1>2. unread[b] = <<>> /\ Len(<<>>) = 0
    BY <1>1 DEF IInv, Window
  <1>3. /\ nextMsgNum' = [nextMsgNum EXCEPT ![b] = maxMsgNum]
        /\ UNCHANGED <<minMsgNum, maxMsgNum, buffer, resetState, unread>>
    BY DEF Construct
  <1>4. nextMsgNum \in [Backends -> Nat] /\ maxMsgNum \in Nat
    BY DEF IInv, TypeOK
  <1>5. nextMsgNum'[b] = maxMsgNum /\ Unread(b)' = 0
    BY <1>3, <1>4 DEF Unread
  <1>6. \A i \in Registered : nextMsgNum'[i] = nextMsgNum[i] /\ Unread(i)' = Unread(i)
    BY <1>1, <1>3, <1>4 DEF Unread
  <1>7. Window'
    <2>1. minMsgNum \in Nat /\ minMsgNum' <= maxMsgNum'
      BY <1>3 DEF IInv, TypeOK, Window
    <2>2. \A i \in Registered' : minMsgNum' <= nextMsgNum'[i]
                                 /\ nextMsgNum'[i] <= maxMsgNum'
      BY <1>1, <1>3, <1>4, <1>5, <1>6, <2>1 DEF IInv, Window
    <2>3. Len(buffer') = IF maxMsgNum' < MaxMessages THEN maxMsgNum'
                         ELSE MaxMessages
      BY <1>3 DEF IInv, Window
    <2>4. \A i \in Backends \ Registered' : unread'[i] = <<>>
      BY <1>1, <1>3 DEF IInv, Window
    <2>5. QED
      BY <2>1, <2>2, <2>3, <2>4 DEF Window
  <1>8. UnreadFits'
    BY <1>1, <1>3, <1>5, <1>6, QueueAssumption DEF IInv, UnreadFits
  <1>9. UnreadKept'
    <2> SUFFICES ASSUME NEW i \in Registered', i \notin resetState'
                 PROVE  /\ Unread(i)' = Len(unread'[i])
                        /\ \A k \in 1 .. Len(unread'[i]) :
                             LET slot == Slot(nextMsgNum'[i] + k - 1)
                             IN  slot < Len(buffer') /\ buffer'[slot + 1] = unread'[i][k]
      BY DEF UnreadKept, Slot
    <2>1. CASE i = b
      BY <1>2, <1>3, <1>5, <2>1
    <2>2. CASE i \in Registered
      BY <1>3, <1>6, <2>2 DEF IInv, UnreadKept
    <2>3. QED
      BY <1>1, <2>1, <2>2
  <1>10. QED
    BY <1>7, <1>8, <1>9

\* A backend that has called getMessages has nothing to read, whether it
\* got the messages or skipped them.
LEMMA GetMessagesInv ==
  ASSUME IInv, NEW b \in Backends, GetMessages(b)
  PROVE  Window' /\ UnreadFits' /\ UnreadKept'
  <1>1. /\ nextMsgNum' = [nextMsgNum EXCEPT ![b] = maxMsgNum]
        /\ unread' = [unread EXCEPT ![b] = <<>>]
        /\ UNCHANGED <<minMsgNum, maxMsgNum, buffer, backendCount>>
        /\ Registered' = Registered
    BY DEF GetMessages, Registered
  <1>2. \A i \in Backends : i # b => (i \in resetState' <=> i \in resetState)
    BY DEF GetMessages, SkipToReset, ReadUnread
  <1>3. /\ nextMsgNum \in [Backends -> Nat] /\ maxMsgNum \in Nat
        /\ unread \in [Backends -> Seq(Message)]
        /\ Registered \subseteq Backends
    BY RegisteredType DEF IInv, TypeOK
  <1>4. nextMsgNum'[b] = maxMsgNum /\ Unread(b)' = 0 /\ unread'[b] = <<>>
    BY <1>1, <1>3 DEF Unread
  <1>5. \A i \in Backends : i # b =>
          nextMsgNum'[i] = nextMsgNum[i] /\ unread'[i] = unread[i]
          /\ Unread(i)' = Unread(i)
    BY <1>1, <1>3 DEF Unread
  <1>6. Window'
    BY <1>1, <1>3, <1>4, <1>5 DEF IInv, Window
  <1>7. UnreadFits'
    BY <1>1, <1>2, <1>3, <1>4, <1>5, QueueAssumption DEF IInv, UnreadFits
  <1>8. UnreadKept'
    <2> SUFFICES ASSUME NEW i \in Registered', i \notin resetState'
                 PROVE  /\ Unread(i)' = Len(unread'[i])
                        /\ \A k \in 1 .. Len(unread'[i]) :
                             LET slot == Slot(nextMsgNum'[i] + k - 1)
                             IN  slot < Len(buffer') /\ buffer'[slot + 1] = unread'[i][k]
      BY DEF UnreadKept, Slot
    <2>1. CASE i = b
      <3>1. Len(<<>>) = 0
        OBVIOUS
      <3>2. QED
        BY <1>4, <2>1, <3>1
    <2>2. CASE i # b
      BY <1>1, <1>2, <1>3, <1>5, <2>2 DEF IInv, UnreadKept
    <2>3. QED
      BY <2>1, <2>2
  <1>9. QED
    BY <1>6, <1>7, <1>8

\* The heart of the matter.  A full window that cleanupQueue could not empty
\* still leaves room for a backend it did not mark: that one lags half a
\* buffer at most.
LEMMA InsertLag ==
  ASSUME IInv, NEW b \in Backends, Insert(b)
  PROVE  /\ minMsgNum' \in Nat /\ minMsgNum' <= maxMsgNum
         /\ \A i \in Registered : minMsgNum' <= nextMsgNum[i]
         /\ resetState \subseteq resetState'
         /\ \A i \in Registered \ resetState' : Unread(i) < MaxMessages
  <1>1. /\ nextMsgNum \in [Backends -> Nat] /\ maxMsgNum \in Nat
        /\ minMsgNum \in Nat /\ Registered \subseteq Backends
    BY RegisteredType DEF IInv, TypeOK
  <1>2. MaxMessages \div 2 \in Nat /\ MaxMessages \div 2 < MaxMessages
    BY QueueAssumption
  <1>3. CASE CleanupDue
    <2>1. PICK num \in {maxMsgNum} \cup {nextMsgNum[i] : i \in Registered} :
            /\ num <= maxMsgNum
            /\ \A i \in Registered : num <= nextMsgNum[i]
            /\ minMsgNum' = num
      BY <1>3 DEF Insert, Cleanup
    <2>2. num \in Nat
      BY <1>1, <2>1
    <2>3. resetState' = resetState \cup Laggards
      BY <1>3 DEF Insert, Cleanup
    <2>4. \A i \in Registered \ Laggards : Unread(i) <= MaxMessages \div 2
      BY <1>1, <1>2 DEF Laggards, Unread
    <2>5. \A i \in Registered : Unread(i) \in Int
      BY <1>1 DEF Unread
    <2>6. \A i \in Registered \ resetState' : Unread(i) < MaxMessages
      BY <1>2, <2>3, <2>4, <2>5, QueueAssumption
    <2>7. QED
      BY <2>1, <2>2, <2>3, <2>6
  <1>4. CASE ~CleanupDue
    <2>1. UNCHANGED <<minMsgNum, resetState>>
      BY <1>4 DEF Insert, Cleanup
    <2>2. \A i \in Registered : Unread(i) < MaxMessages
      BY <1>1, <1>4, QueueAssumption DEF IInv, Window, CleanupDue, Unread
    <2>3. QED
      BY <1>1, <2>1, <2>2 DEF IInv, Window
  <1>5. QED
    BY <1>3, <1>4

\* What an insertion does to the vector: one slot more, or one overwritten.
LEMMA InsertBuffer ==
  ASSUME IInv, NEW b \in Backends, Insert(b)
  PROVE  LET msg == Head(outgoing[b])
             at == Slot(maxMsgNum)
         IN  /\ Len(buffer') = IF maxMsgNum + 1 < MaxMessages THEN maxMsgNum + 1
                               ELSE MaxMessages
             /\ at < Len(buffer') /\ buffer'[at + 1] = msg
             /\ \A slot \in Nat : slot < Len(buffer) /\ slot # at =>
                  slot < Len(buffer') /\ buffer'[slot + 1] = buffer[slot + 1]
  <1> DEFINE msg == Head(outgoing[b])
             at == Slot(maxMsgNum)
  <1>1. outgoing[b] \in Seq(Message) /\ outgoing[b] # <<>>
    BY DEF IInv, TypeOK, Insert
  <1>2. msg \in Message
    BY <1>1, HeadTailProperties
  <1>3. /\ maxMsgNum \in Nat /\ buffer \in Seq(Message)
        /\ Len(buffer) = IF maxMsgNum < MaxMessages THEN maxMsgNum ELSE MaxMessages
    BY DEF IInv, TypeOK, Window
  <1>4. at \in 0 .. MaxMessages - 1 /\ Len(buffer) \in Nat
        /\ (maxMsgNum < MaxMessages => at = maxMsgNum)
    BY <1>3, SlotRange, SlotOfSmall, LenProperties
  <1>5. buffer' = IF Len(buffer) <= at THEN Append(buffer, msg)
                  ELSE [buffer EXCEPT ![at + 1] = msg]
    BY DEF Insert
  <1> HIDE DEF msg, at
  <1>6. CASE maxMsgNum < MaxMessages
    <2>1. Len(buffer) = at /\ at = maxMsgNum /\ buffer' = Append(buffer, msg)
      BY <1>3, <1>4, <1>5, <1>6
    <2>2. /\ Len(buffer') = at + 1 /\ buffer'[at + 1] = msg
          /\ \A i \in 1 .. at : buffer'[i] = buffer[i]
      BY <1>2, <1>3, <2>1
    <2>3. \A slot \in Nat : slot < Len(buffer) /\ slot # at =>
            slot < Len(buffer') /\ buffer'[slot + 1] = buffer[slot + 1]
      BY <1>4, <2>1, <2>2
    <2>4. QED
      BY <1>3, <1>4, <1>6, <2>1, <2>2, <2>3, QueueAssumption DEF msg, at
  <1>7. CASE ~(maxMsgNum < MaxMessages)
    <2>1. Len(buffer) = MaxMessages /\ at + 1 \in 1 .. Len(buffer)
      BY <1>3, <1>4, <1>7, QueueAssumption
    <2>2. buffer' = [buffer EXCEPT ![at + 1] = msg]
      BY <1>4, <1>5, <2>1, QueueAssumption
    <2>3. /\ Len(buffer') = Len(buffer)
          /\ \A j \in 1 .. Len(buffer) :
               buffer'[j] = IF j = at + 1 THEN msg ELSE buffer[j]
      BY <1>2, <1>3, <2>1, <2>2, ExceptSeq
    <2>4. buffer'[at + 1] = msg
      BY <2>1, <2>3
    <2>5. \A slot \in Nat : slot < Len(buffer) /\ slot # at =>
            slot < Len(buffer') /\ buffer'[slot + 1] = buffer[slot + 1]
      BY <1>4, <2>3
    <2>6. QED
      BY <1>3, <1>4, <1>7, <2>1, <2>3, <2>4, <2>5, QueueAssumption DEF msg, at
  <1>8. QED
    BY <1>6, <1>7

\* An unread message is not in the slot that an insertion writes, and the
\* inserted one is where its readers will look for it.
LEMMA InsertKept ==
  ASSUME IInv, NEW b \in Backends, Insert(b)
  PROVE  UnreadKept'
  <1> DEFINE msg == Head(outgoing[b])
             at == Slot(maxMsgNum)
  <1> SUFFICES ASSUME NEW i \in Registered', i \notin resetState'
               PROVE  /\ Unread(i)' = Len(unread'[i])
                      /\ \A k \in 1 .. Len(unread'[i]) :
                           LET slot == Slot(nextMsgNum'[i] + k - 1)
                           IN  slot < Len(buffer') /\ buffer'[slot + 1] = unread'[i][k]
    BY DEF UnreadKept, Slot
  <1>1. /\ Registered' = Registered /\ nextMsgNum' = nextMsgNum
        /\ maxMsgNum' = maxMsgNum + 1
    BY DEF Insert, Registered
  <1>2. i \in Registered /\ i \in Backends /\ i \notin resetState
        /\ Unread(i) < MaxMessages
    BY <1>1, InsertLag, RegisteredType DEF IInv
  <1>3. /\ maxMsgNum \in Nat /\ nextMsgNum[i] \in Nat /\ unread[i] \in Seq(Message)
        /\ nextMsgNum[i] <= maxMsgNum
    BY <1>2 DEF IInv, TypeOK, Window
  <1>4. /\ Unread(i) = Len(unread[i])
        /\ \A k \in 1 .. Len(unread[i]) :
             LET slot == Slot(nextMsgNum[i] + k - 1)
             IN  slot < Len(buffer) /\ buffer[slot + 1] = unread[i][k]
    BY <1>2 DEF IInv, UnreadKept
  <1>5. unread'[i] = Append(unread[i], msg)
    BY <1>2 DEF Insert, IInv, TypeOK
  <1>6. msg \in Message
    <2>1. outgoing[b] \in Seq(Message) /\ outgoing[b] # <<>>
      BY DEF IInv, TypeOK, Insert
    <2>2. QED
      BY <2>1, HeadTailProperties
  <1>7. /\ at < Len(buffer') /\ buffer'[at + 1] = msg
        /\ \A slot \in Nat : slot < Len(buffer) /\ slot # at =>
             slot < Len(buffer') /\ buffer'[slot + 1] = buffer[slot + 1]
    BY InsertBuffer
  <1> HIDE DEF msg, at
  <1>8. /\ Len(unread'[i]) = Len(unread[i]) + 1
        /\ unread'[i][Len(unread[i]) + 1] = msg
        /\ \A k \in 1 .. Len(unread[i]) : unread'[i][k] = unread[i][k]
    BY <1>3, <1>5, <1>6
  <1>9. maxMsgNum = nextMsgNum[i] + Len(unread[i]) /\ Len(unread[i]) \in Nat
    BY <1>3, <1>4, LenProperties DEF Unread
  <1>10. Unread(i)' = Len(unread'[i])
    BY <1>1, <1>3, <1>8, <1>9 DEF Unread
  <1>11. ASSUME NEW k \in 1 .. Len(unread'[i])
         PROVE  /\ Slot(nextMsgNum[i] + k - 1) < Len(buffer')
                /\ buffer'[Slot(nextMsgNum[i] + k - 1) + 1] = unread'[i][k]
    <2>1. CASE k = Len(unread[i]) + 1
      <3>1. nextMsgNum[i] + k - 1 = maxMsgNum
        BY <1>3, <1>9, <2>1
      <3>2. QED
        BY <1>7, <1>8, <2>1, <3>1 DEF at
    <2>2. CASE k # Len(unread[i]) + 1
      <3> DEFINE n == nextMsgNum[i] + k - 1
      <3>1. k \in 1 .. Len(unread[i])
        BY <1>8, <1>9, <2>2
      <3>2. n \in Nat /\ n < maxMsgNum /\ maxMsgNum - n < MaxMessages
        <4>1. Len(unread[i]) < MaxMessages
          BY <1>2, <1>4
        <4>2. QED
          BY <1>3, <1>9, <3>1, <4>1, QueueAssumption, SMTT(30)
      <3>3. Slot(n) # at /\ Slot(n) \in Nat
        BY <1>3, <3>2, SlotsDiffer, SlotRange, QueueAssumption DEF at
      <3>4. Slot(n) < Len(buffer) /\ buffer[Slot(n) + 1] = unread[i][k]
        BY <1>4, <3>1
      <3>5. QED
        BY <1>7, <1>8, <3>1, <3>3, <3>4
    <2>3. QED
      BY <2>1, <2>2
  <1>12. QED
    BY <1>1, <1>10, <1>11

LEMMA InsertInv ==
  ASSUME IInv, NEW b \in Backends, Insert(b)
  PROVE  Window' /\ UnreadFits' /\ UnreadKept'
  <1>1. /\ Registered' = Registered /\ nextMsgNum' = nextMsgNum
        /\ maxMsgNum' = maxMsgNum + 1
    BY DEF Insert, Registered
  <1>2. /\ nextMsgNum \in [Backends -> Nat] /\ maxMsgNum \in Nat
        /\ unread \in [Backends -> Seq(Message)]
        /\ Registered \subseteq Backends
    BY RegisteredType DEF IInv, TypeOK
  <1>3. \A i \in Registered : Unread(i) \in Int /\ Unread(i)' = Unread(i) + 1
    BY <1>1, <1>2 DEF Unread
  <1>4. UnreadFits'
    BY <1>1, <1>3, InsertLag, QueueAssumption DEF UnreadFits
  <1>5. \A i \in Backends \ Registered : unread'[i] = <<>>
    BY <1>2 DEF IInv, Window, Insert
  <1>6. Len(buffer') = IF maxMsgNum' < MaxMessages THEN maxMsgNum' ELSE MaxMessages
    BY <1>1, InsertBuffer
  <1>7. minMsgNum' <= maxMsgNum'
        /\ \A i \in Registered : minMsgNum' <= nextMsgNum'[i]
                                 /\ nextMsgNum'[i] <= maxMsgNum'
    BY <1>1, <1>2, InsertLag DEF IInv, Window
  <1>8. Window'
    BY <1>1, <1>5, <1>6, <1>7 DEF Window
  <1>9. QED
    BY <1>4, <1>8, InsertKept

LEMMA Invariance == IInv /\ [Next]_vars => IInv'
  <1> SUFFICES ASSUME IInv, [Next]_vars
               PROVE  IInv'
    OBVIOUS
  <1>1. TypeOK'
    BY TypeInvariance DEF IInv
  <1>2. ASSUME NEW b \in Backends, Construct(b)
        PROVE  Window' /\ UnreadFits' /\ UnreadKept'
    BY <1>2, ConstructInv
  <1>3. ASSUME NEW b \in Backends, Accept(b) \/ BeginTransaction(b)
        PROVE  Window' /\ UnreadFits' /\ UnreadKept'
    BY <1>3, GetMessagesInv DEF Accept, BeginTransaction
  <1>4. ASSUME NEW b \in Backends, Insert(b)
        PROVE  Window' /\ UnreadFits' /\ UnreadKept'
    BY <1>4, InsertInv
  <1>5. ASSUME NEW b \in Backends,
               \/ Apply(b)
               \/ \E entry \in Entries : AddEntry(b, entry)
               \/ \E relId \in RelIds : RegisterRelcache(b, relId)
               \/ \E cacheId \in CacheIds, hash \in Hashes :
                    RegisterSyscache(b, cacheId, hash)
               \/ ExecuteCommand(b) \/ Commit(b) \/ Rollback(b)
        PROVE  Window' /\ UnreadFits' /\ UnreadKept'
    <2>1. UNCHANGED queue
      BY <1>5 DEF Apply, AddEntry, RegisterRelcache, RegisterSyscache, AddMessage,
                  ExecuteCommand, Commit, Rollback
    <2>2. QED
      BY <2>1, QuietStep
  <1>6. ASSUME UNCHANGED vars
        PROVE  Window' /\ UnreadFits' /\ UnreadKept'
    BY <1>6, QuietStep DEF vars
  <1>7. Window' /\ UnreadFits' /\ UnreadKept'
    <2>1. ASSUME Next
          PROVE  Window' /\ UnreadFits' /\ UnreadKept'
      <3>1. PICK b \in Backends :
              \/ Construct(b) \/ Accept(b) \/ BeginTransaction(b) \/ Apply(b)
              \/ \E entry \in Entries : AddEntry(b, entry)
              \/ \E relId \in RelIds : RegisterRelcache(b, relId)
              \/ \E cacheId \in CacheIds, hash \in Hashes :
                   RegisterSyscache(b, cacheId, hash)
              \/ ExecuteCommand(b) \/ Commit(b) \/ Insert(b) \/ Rollback(b)
        BY <2>1, Zenon DEF Next
      <3>2. QED
        BY <1>2, <1>3, <1>4, <1>5, <3>1, Zenon
    <2>2. QED
      BY <1>6, <2>1
  <1>8. QED
    BY <1>1, <1>7 DEF IInv

\* A backend that is not to reset never has more than MaxMessages unread
\* messages, for every MAX_MESSAGES: the check of insertMessage before each
\* message, and the half of cleanupQueue, leave room for it.
THEOREM LagIsBounded == Spec => []UnreadFits
  <1>1. IInv => UnreadFits
    BY DEF IInv
  <1>2. QED
    BY <1>1, InitInv, Invariance, PTL DEF Spec

\* getMessages returns to such a backend exactly the messages inserted since
\* its last read: none is overwritten, misplaced or missing while the vector
\* grows and wraps.
THEOREM NothingOverwritten == Spec => []UnreadKept
  <1>1. IInv => UnreadKept
    BY DEF IInv
  <1>2. QED
    BY <1>1, InitInv, Invariance, PTL DEF Spec

-----------------------------------------------------------------------------
(* What is declared stale is invalidated, except by a reset.                *)

\* Every cache id a client passes fits the int8_t field it is stored in.
CacheIdsFit == \A cacheId \in CacheIds : ((cacheId + 128) % 256) - 128 >= 0

\* The two lists of a transaction hold a message for each entry its client
\* declared stale.
IntentQueued ==
  \A b \in Backends :
    intent[b] \subseteq HitsOf(Elements(priorCmd[b]))
                        \cup HitsOf(Elements(currentCmd[b]))

\* An id nobody constructed has empty caches and sends nothing; only inside
\* acceptInvalidationMessages is there something fetched and not applied.
Idle ==
  /\ \A b \in Backends \ Registered :
       /\ pc[b] = "absent" /\ outgoing[b] = <<>>
       /\ valid[b] = {} /\ owed[b] = {}
  /\ \A b \in Backends : pc[b] # "apply" => batch[b] = {}

\* StaleIsCovered with the list of unread messages in place of the vector: it
\* also speaks of backends that are to reset, whose part of the vector may be
\* overwritten, and so says what the reset will skip.
StaleIsPending ==
  \A b \in Registered : \A entry \in owed[b] \ skipped[b] :
    \/ entry \in HitsOf(batch[b])
    \/ entry \in HitsOf(Elements(unread[b]))
    \/ \E i \in Registered : entry \in HitsOf(Elements(outgoing[i]))

\* the inductive invariant of StaleIsCovered
CInv == IInv /\ IntentQueued /\ Idle /\ StaleIsPending

\* Lists as sets of messages.
LEMMA ElementsEmpty == Elements(<<>>) = {} /\ HitsOf({}) = {}
  BY DEF Elements, HitsOf

LEMMA HitsUnion == \A S, T : HitsOf(S \cup T) = HitsOf(S) \cup HitsOf(T)
  BY DEF HitsOf

LEMMA ElementsConcat ==
  ASSUME NEW s \in Seq(Message), NEW t \in Seq(Message)
  PROVE  Elements(s \o t) = Elements(s) \cup Elements(t)
  <1>1. Len(s) \in Nat /\ Len(t) \in Nat /\ DOMAIN s = 1 .. Len(s)
        /\ DOMAIN t = 1 .. Len(t)
    BY LenProperties
  <1>2. DOMAIN (s \o t) = 1 .. Len(s) + Len(t)
    BY ConcatProperties, LenProperties
  <1>3. /\ \A i \in 1 .. Len(s) : (s \o t)[i] = s[i]
        /\ \A i \in 1 .. Len(t) : (s \o t)[Len(s) + i] = t[i]
    BY ConcatProperties
  <1>4. ASSUME NEW i \in 1 .. Len(s) + Len(t)
        PROVE  (s \o t)[i] \in Elements(s) \cup Elements(t)
    <2>1. CASE i \in 1 .. Len(s)
      BY <1>1, <1>3, <2>1 DEF Elements
    <2>2. CASE i \notin 1 .. Len(s)
      <3>1. i - Len(s) \in 1 .. Len(t) /\ Len(s) + (i - Len(s)) = i
        BY <1>1, <2>2
      <3>2. (s \o t)[i] = t[i - Len(s)]
        BY <1>3, <3>1
      <3>3. QED
        BY <1>1, <3>1, <3>2 DEF Elements
    <2>3. QED
      BY <2>1, <2>2
  <1>5. \A i \in 1 .. Len(s) : s[i] \in Elements(s \o t)
    BY <1>1, <1>2, <1>3 DEF Elements
  <1>6. \A i \in 1 .. Len(t) : t[i] \in Elements(s \o t)
    <2> SUFFICES ASSUME NEW i \in 1 .. Len(t)
                 PROVE  t[i] \in Elements(s \o t)
      OBVIOUS
    <2>1. Len(s) + i \in 1 .. Len(s) + Len(t)
      BY <1>1
    <2>2. QED
      BY <1>2, <1>3, <2>1 DEF Elements
  <1>7. QED
    BY <1>1, <1>2, <1>4, <1>5, <1>6 DEF Elements

LEMMA ElementsOne == \A msg : Elements(<<msg>>) = {msg}
  BY DEF Elements

LEMMA ElementsAppend ==
  ASSUME NEW s \in Seq(Message), NEW msg \in Message
  PROVE  Elements(Append(s, msg)) = Elements(s) \cup {msg}
  <1>1. Append(s, msg) = s \o <<msg>> /\ <<msg>> \in Seq(Message)
    BY AppendIsConcat
  <1>2. Elements(s \o <<msg>>) = Elements(s) \cup Elements(<<msg>>)
    BY <1>1, ElementsConcat
  <1>3. QED
    BY <1>1, <1>2, ElementsOne

\* Taking the head leaves the rest.
LEMMA ElementsTail ==
  ASSUME NEW s \in Seq(Message), s # <<>>
  PROVE  /\ Head(s) \in Message /\ Tail(s) \in Seq(Message)
         /\ Elements(s) = {Head(s)} \cup Elements(Tail(s))
  <1>1. Head(s) \in Message /\ Tail(s) \in Seq(Message)
        /\ s = <<Head(s)>> \o Tail(s) /\ <<Head(s)>> \in Seq(Message)
    BY HeadTailProperties
  <1>2. Elements(<<Head(s)>> \o Tail(s)) = Elements(<<Head(s)>>) \cup Elements(Tail(s))
    BY <1>1, ElementsConcat
  <1>3. QED
    BY <1>1, <1>2, ElementsOne

\* The message that a client's call builds invalidates what it declared stale.
LEMMA MessagesHit ==
  ASSUME CacheIdsFit
  PROVE  /\ \A relId \in RelIds :
              Hits(RelMsg(relId)) =
                (IF relId = 0 THEN RelEntries ELSE {<<"rel", relId>>})
         /\ \A cacheId \in CacheIds, hash \in Hashes :
              Hits(SysMsg(cacheId, hash)) = {<<"sys", hash>>}
  <1>1. \A relId \in RelIds :
          Hits(RelMsg(relId)) =
            (IF relId = 0 THEN RelEntries ELSE {<<"rel", relId>>})
    BY DEF Hits, RelMsg, CACHE_INVAL_RELCACHE
  <1>2. ASSUME NEW cacheId \in CacheIds, NEW hash \in Hashes
        PROVE  Hits(SysMsg(cacheId, hash)) = {<<"sys", hash>>}
    <2> DEFINE id == ((cacheId + 128) % 256) - 128
    <2>1. id >= 0 /\ id \in Int
      BY QueueAssumption DEF CacheIdsFit
    <2>2. id # CACHE_INVAL_RELCACHE
      BY <2>1 DEF CACHE_INVAL_RELCACHE
    <2>3. SysMsg(cacheId, hash) = [id |-> id, relId |-> 0, hashValue |-> hash]
      BY DEF SysMsg
    <2> HIDE DEF id
    <2>4. QED
      BY <2>1, <2>2, <2>3 DEF Hits
  <1>3. QED
    BY <1>1, <1>2

LEMMA ListTypes ==
  ASSUME TypeOK, NEW b \in Backends
  PROVE  /\ priorCmd[b] \in Seq(Message) /\ currentCmd[b] \in Seq(Message)
         /\ outgoing[b] \in Seq(Message) /\ unread[b] \in Seq(Message)
  BY DEF TypeOK

\* What a commit sends, and what the end of a command keeps, invalidates what
\* the two lists did.
LEMMA PublishedHits ==
  ASSUME TypeOK, NEW b \in Backends
  PROVE  HitsOf(Elements(priorCmd[b] \o currentCmd[b])) =
           HitsOf(Elements(priorCmd[b])) \cup HitsOf(Elements(currentCmd[b]))
  <1>1. Elements(priorCmd[b] \o currentCmd[b]) =
          Elements(priorCmd[b]) \cup Elements(currentCmd[b])
    BY ListTypes, ElementsConcat
  <1>2. QED
    BY <1>1, HitsUnion

LEMMA AddMessageIntent ==
  ASSUME TypeOK, IntentQueued, NEW b \in Backends, NEW msg \in Message,
         NEW entries, entries = Hits(msg), AddMessage(b, msg, entries)
  PROVE  IntentQueued'
  <1>1. /\ currentCmd' = [currentCmd EXCEPT ![b] = Append(@, msg)]
        /\ intent' = [intent EXCEPT ![b] = @ \cup entries]
        /\ priorCmd' = priorCmd
    BY DEF AddMessage
  <1>2. HitsOf({msg}) = entries
    BY DEF HitsOf
  <1>3. HitsOf(Elements(Append(currentCmd[b], msg))) =
          HitsOf(Elements(currentCmd[b])) \cup entries
    <2>1. currentCmd[b] \in Seq(Message)
      BY ListTypes
    <2>2. Elements(Append(currentCmd[b], msg)) = Elements(currentCmd[b]) \cup {msg}
      BY <2>1, ElementsAppend
    <2>3. HitsOf(Elements(currentCmd[b]) \cup {msg}) =
            HitsOf(Elements(currentCmd[b])) \cup HitsOf({msg})
      BY HitsUnion
    <2>4. QED
      BY <1>2, <2>2, <2>3
  <1>4. /\ currentCmd \in [Backends -> Seq(Message)]
        /\ intent \in [Backends -> SUBSET Entries]
    BY DEF TypeOK
  <1>5. ASSUME NEW c \in Backends
        PROVE  intent'[c] \subseteq HitsOf(Elements(priorCmd'[c]))
                                    \cup HitsOf(Elements(currentCmd'[c]))
    <2>1. intent[c] \subseteq HitsOf(Elements(priorCmd[c]))
                              \cup HitsOf(Elements(currentCmd[c]))
      BY DEF IntentQueued
    <2>2. CASE c = b
      <3>1. currentCmd'[c] = Append(currentCmd[b], msg)
            /\ intent'[c] = intent[b] \cup entries
        BY <1>1, <1>4, <2>2
      <3>2. QED
        BY <1>1, <1>3, <2>1, <2>2, <3>1
    <2>3. CASE c # b
      BY <1>1, <1>4, <2>1, <2>3
    <2>4. QED
      BY <2>2, <2>3
  <1>6. QED
    BY <1>5 DEF IntentQueued, HitsOf, Hits, Elements

LEMMA ExecuteCommandIntent ==
  ASSUME TypeOK, IntentQueued, NEW b \in Backends, ExecuteCommand(b)
  PROVE  IntentQueued'
  <1>1. /\ priorCmd' = [priorCmd EXCEPT ![b] = @ \o currentCmd[b]]
        /\ currentCmd' = [currentCmd EXCEPT ![b] = <<>>]
        /\ intent' = intent
    BY DEF ExecuteCommand
  <1>2. /\ currentCmd \in [Backends -> Seq(Message)]
        /\ priorCmd \in [Backends -> Seq(Message)]
    BY DEF TypeOK
  <1>3. ASSUME NEW c \in Backends
        PROVE  intent'[c] \subseteq HitsOf(Elements(priorCmd'[c]))
                                    \cup HitsOf(Elements(currentCmd'[c]))
    <2>1. intent[c] \subseteq HitsOf(Elements(priorCmd[c]))
                              \cup HitsOf(Elements(currentCmd[c]))
      BY DEF IntentQueued
    <2>2. CASE c = b
      <3>1. priorCmd'[c] = priorCmd[b] \o currentCmd[b]
        BY <1>1, <1>2, <2>2
      <3>2. HitsOf(Elements(priorCmd'[c])) =
              HitsOf(Elements(priorCmd[b])) \cup HitsOf(Elements(currentCmd[b]))
        BY <3>1, PublishedHits
      <3>3. QED
        BY <1>1, <2>1, <2>2, <3>2
    <2>3. CASE c # b
      BY <1>1, <1>2, <2>1, <2>3
    <2>4. QED
      BY <2>2, <2>3
  <1>4. QED
    BY <1>3 DEF IntentQueued, HitsOf, Hits, Elements

\* A transaction that ends or begins has nothing declared.
LEMMA IntentCleared ==
  ASSUME TypeOK, IntentQueued, NEW b \in Backends,
         UNCHANGED <<currentCmd, priorCmd, intent>> \/ EndOrBegin(b)
  PROVE  IntentQueued'
  <1>1. /\ currentCmd \in [Backends -> Seq(Message)]
        /\ priorCmd \in [Backends -> Seq(Message)]
        /\ intent \in [Backends -> SUBSET Entries]
    BY DEF TypeOK
  <1>2. ASSUME NEW c \in Backends
        PROVE  intent'[c] \subseteq HitsOf(Elements(priorCmd'[c]))
                                    \cup HitsOf(Elements(currentCmd'[c]))
    <2>1. intent[c] \subseteq HitsOf(Elements(priorCmd[c]))
                              \cup HitsOf(Elements(currentCmd[c]))
      BY DEF IntentQueued
    <2>2. CASE UNCHANGED <<currentCmd, priorCmd, intent>>
      BY <2>1, <2>2
    <2>3. CASE EndOrBegin(b)
      <3>1. CASE c = b
        BY <1>1, <2>3, <3>1 DEF EndOrBegin
      <3>2. CASE c # b
        BY <1>1, <2>1, <2>3, <3>2 DEF EndOrBegin
      <3>3. QED
        BY <3>1, <3>2
    <2>4. QED
      BY <2>2, <2>3
  <1>3. QED
    BY <1>2 DEF IntentQueued, HitsOf, Hits, Elements

LEMMA IntentInvariance ==
  ASSUME TypeOK, CacheIdsFit, IntentQueued, [Next]_vars
  PROVE  IntentQueued'
  <1>1. ASSUME NEW b \in Backends,
               \/ Construct(b) \/ Accept(b) \/ BeginTransaction(b) \/ Apply(b)
               \/ Commit(b) \/ Insert(b) \/ Rollback(b)
        PROVE  IntentQueued'
    BY <1>1, IntentCleared
       DEF Construct, Accept, BeginTransaction, GetMessages, Apply, Commit,
           Insert, Rollback, trans
  <1>2. ASSUME NEW b \in Backends, NEW entry \in Entries, AddEntry(b, entry)
        PROVE  IntentQueued'
    BY <1>2, IntentCleared DEF AddEntry, trans
  <1>3. ASSUME NEW b \in Backends, NEW relId \in RelIds, RegisterRelcache(b, relId)
        PROVE  IntentQueued'
    BY <1>3, MessageTypes, MessagesHit, AddMessageIntent DEF RegisterRelcache
  <1>4. ASSUME NEW b \in Backends, NEW cacheId \in CacheIds, NEW hash \in Hashes,
               RegisterSyscache(b, cacheId, hash)
        PROVE  IntentQueued'
    <2> DEFINE msg == SysMsg(cacheId, hash)
    <2>1. msg \in Message
      BY MessageTypes
    <2>2. {<<"sys", hash>>} = Hits(msg)
      BY MessagesHit
    <2>3. AddMessage(b, msg, {<<"sys", hash>>})
      BY <1>4 DEF RegisterSyscache
    <2> HIDE DEF msg
    <2>4. QED
      BY <2>1, <2>2, <2>3, AddMessageIntent
  <1>5. ASSUME NEW b \in Backends, ExecuteCommand(b)
        PROVE  IntentQueued'
    BY <1>5, ExecuteCommandIntent
  <1>6. CASE UNCHANGED vars
    <2>1. UNCHANGED <<currentCmd, priorCmd, intent>>
      BY <1>6 DEF vars, trans
    <2>2. QED
      BY <2>1 DEF IntentQueued, HitsOf, Hits, Elements
  <1>7. QED
    BY <1>1, <1>2, <1>3, <1>4, <1>5, <1>6 DEF Next

\* Only constructed backends fill caches and send, and only getMessages
\* fetches.
LEMMA IdleInvariance ==
  ASSUME TypeOK, Idle, [Next]_vars
  PROVE  Idle'
  <1> USE DEF TypeOK, Idle
  <1>1. ASSUME NEW b \in Backends, Construct(b)
        PROVE  Idle'
    <2>1. Registered' = Registered \cup {b} /\ b \notin Registered
      <3>1. backendCount \in Nat /\ b = backendCount + 1 /\ backendCount' = b
        BY <1>1, QueueAssumption DEF Construct
      <3>2. QED
        BY <3>1 DEF Registered
    <2>2. /\ UNCHANGED <<batch, outgoing, valid, owed>>
          /\ \A c \in Backends : c # b => pc'[c] = pc[c]
      BY <1>1 DEF Construct, caches
    <2>3. batch[b] = {}
      BY <2>1
    <2>4. QED
      BY <2>1, <2>2, <2>3
  <1>2. ASSUME NEW b \in Backends, GetMessages(b)
        PROVE  Idle'
    <2>1. b \in Registered
      BY <1>2 DEF GetMessages, Ready
    <2>2. /\ Registered' = Registered /\ UNCHANGED <<valid, owed, outgoing>>
          /\ pc' = [pc EXCEPT ![b] = "apply"]
      BY <1>2 DEF GetMessages, Registered
    <2>3. \A c \in Backends : c # b => batch'[c] = batch[c]
      BY <1>2 DEF GetMessages, SkipToReset, ReadUnread
    <2>4. QED
      BY <2>1, <2>2, <2>3
  <1>3. ASSUME NEW b \in Backends, Apply(b)
        PROVE  Idle'
    <2>1. b \in Registered
      BY <1>3 DEF Apply
    <2>2. Registered' = Registered /\ UNCHANGED outgoing
      BY <1>3 DEF Apply, queue, Registered
    <2>3. \A c \in Backends : c # b => /\ pc'[c] = pc[c] /\ batch'[c] = batch[c]
                                       /\ valid'[c] = valid[c] /\ owed'[c] = owed[c]
      BY <1>3 DEF Apply
    <2>4. batch'[b] = {}
      BY <1>3 DEF Apply
    <2>5. QED
      BY <2>1, <2>2, <2>3, <2>4
  <1>4. ASSUME NEW b \in Backends, NEW entry \in Entries, AddEntry(b, entry)
        PROVE  Idle'
    <2>1. b \in Registered
      BY <1>4 DEF AddEntry, Ready
    <2>2. Registered' = Registered /\ UNCHANGED <<pc, batch, outgoing>>
      BY <1>4 DEF AddEntry, queue, calls, Registered
    <2>3. \A c \in Backends : c # b => valid'[c] = valid[c] /\ owed'[c] = owed[c]
      BY <1>4 DEF AddEntry
    <2>4. QED
      BY <2>1, <2>2, <2>3
  <1>5. ASSUME NEW b \in Backends, Commit(b)
        PROVE  Idle'
    <2>1. b \in Registered
      BY <1>5 DEF Commit, Ready
    <2>2. Registered' = Registered /\ UNCHANGED <<pc, batch, valid>>
      BY <1>5 DEF Commit, queue, Registered
    <2>3. \A c \in Backends : /\ c # b => outgoing'[c] = outgoing[c]
                              /\ owed'[c] \subseteq owed[c] \cup valid[c]
      BY <1>5 DEF Commit
    <2>4. QED
      BY <2>1, <2>2, <2>3
  <1>6. ASSUME NEW b \in Backends, Insert(b)
        PROVE  Idle'
    <2>1. b \in Registered
      BY <1>6 DEF Insert
    <2>2. Registered' = Registered /\ UNCHANGED <<pc, batch, valid, owed>>
          /\ \A c \in Backends : c # b => outgoing'[c] = outgoing[c]
      BY <1>6 DEF Insert, caches, Registered
    <2>3. QED
      BY <2>1, <2>2
  <1>7. ASSUME UNCHANGED <<backendCount, pc, batch, outgoing, valid, owed>>
        PROVE  Idle'
    BY <1>7 DEF Registered
  <1>8. CASE UNCHANGED vars
    BY <1>7, <1>8 DEF vars, queue, calls, caches
  <1>9. QED
    BY <1>1, <1>2, <1>3, <1>4, <1>5, <1>6, <1>7, <1>8
       DEF Next, Accept, BeginTransaction, RegisterRelcache, RegisterSyscache,
           AddMessage, ExecuteCommand, Rollback, queue, calls, caches

\* What getMessages returns to a backend that is not to reset are exactly the
\* messages inserted since its last read.
LEMMA ReadsUnread ==
  ASSUME IInv, NEW b \in Registered, ReadUnread(b)
  PROVE  Elements(unread[b]) \subseteq batch'[b]
  <1> DEFINE next == nextMsgNum[b]
  <1>1. /\ b \in Backends /\ next \in Nat /\ maxMsgNum \in Nat
        /\ batch \in [Backends -> SUBSET Message] /\ unread[b] \in Seq(Message)
    BY RegisteredType DEF IInv, TypeOK
  <1>2. /\ maxMsgNum - next = Len(unread[b])
        /\ \A k \in 1 .. Len(unread[b]) :
             LET slot == Slot(next + k - 1)
             IN  slot < Len(buffer) /\ buffer[slot + 1] = unread[b][k]
    BY DEF ReadUnread, IInv, UnreadKept, Unread
  <1>3. batch'[b] =
          {buffer[Slot(n) + 1] :
             n \in {n \in next .. maxMsgNum - 1 : Slot(n) < Len(buffer)}}
    BY <1>1 DEF ReadUnread
  <1>4. Len(unread[b]) \in Nat /\ DOMAIN unread[b] = 1 .. Len(unread[b])
    BY <1>1, LenProperties
  <1> HIDE DEF next
  <1>5. ASSUME NEW k \in 1 .. Len(unread[b])
        PROVE  unread[b][k] \in batch'[b]
    <2>1. next + k - 1 \in next .. maxMsgNum - 1
      BY <1>1, <1>2, <1>4
    <2>2. /\ Slot(next + k - 1) < Len(buffer)
          /\ buffer[Slot(next + k - 1) + 1] = unread[b][k]
      BY <1>2
    <2>3. QED
      BY <1>3, <2>1, <2>2
  <1>6. QED
    BY <1>4, <1>5 DEF Elements

\* A step that leaves the messages alone and makes nothing owed keeps what is
\* pending.
LEMMA PendingKept ==
  ASSUME StaleIsPending, UNCHANGED <<backendCount, batch, unread, outgoing>>,
         \A c \in Registered : owed'[c] \ skipped'[c] \subseteq owed[c] \ skipped[c]
  PROVE  StaleIsPending'
  BY DEF StaleIsPending, Registered, HitsOf, Hits, Elements

LEMMA ConstructPending ==
  ASSUME CInv, NEW b \in Backends, Construct(b)
  PROVE  StaleIsPending'
  <1>1. Registered' = Registered \cup {b} /\ b \notin Registered
    <2>1. backendCount \in Nat /\ b = backendCount + 1 /\ backendCount' = b
      BY QueueAssumption DEF Construct, CInv, IInv, TypeOK
    <2>2. QED
      BY <2>1 DEF Registered
  <1>2. UNCHANGED <<batch, unread, outgoing, owed, skipped>>
    BY DEF Construct, caches
  <1>3. owed[b] = {}
    BY <1>1 DEF CInv, Idle
  <1>4. QED
    BY <1>1, <1>2, <1>3 DEF CInv, StaleIsPending, HitsOf, Hits, Elements

\* A reset turns what was unread into what is skipped; a read turns it into a
\* batch.
LEMMA GetMessagesPending ==
  ASSUME CInv, NEW b \in Backends, GetMessages(b)
  PROVE  StaleIsPending'
  <1>1. /\ batch \in [Backends -> SUBSET Message]
        /\ unread \in [Backends -> Seq(Message)]
        /\ skipped \in [Backends -> SUBSET Entries]
        /\ Registered \subseteq Backends
    BY RegisteredType DEF CInv, IInv, TypeOK
  <1>2. /\ Registered' = Registered /\ UNCHANGED <<owed, outgoing>>
        /\ unread' = [unread EXCEPT ![b] = <<>>]
        /\ pc[b] = "ready"
    BY DEF GetMessages, Registered, Ready
  <1>3. ASSUME NEW c \in Registered, NEW entry \in owed[c], entry \notin skipped'[c]
        PROVE  \/ entry \in HitsOf(batch'[c])
               \/ entry \in HitsOf(Elements(unread'[c]))
               \/ \E i \in Registered : entry \in HitsOf(Elements(outgoing[i]))
    <2>1. skipped[c] \subseteq skipped'[c]
      BY <1>1, <1>3 DEF GetMessages, SkipToReset, ReadUnread
    <2>2. \/ entry \in HitsOf(batch[c])
          \/ entry \in HitsOf(Elements(unread[c]))
          \/ \E i \in Registered : entry \in HitsOf(Elements(outgoing[i]))
      BY <1>3, <2>1 DEF CInv, StaleIsPending
    <2>3. CASE c # b
      <3>1. batch'[c] = batch[c] /\ unread'[c] = unread[c]
        BY <1>1, <1>2, <2>3 DEF GetMessages, SkipToReset, ReadUnread
      <3>2. QED
        BY <2>2, <3>1
    <2>4. CASE c = b
      <3>1. entry \notin HitsOf(batch[c])
        <4>1. batch[c] = {}
          BY <1>2, <2>4 DEF CInv, Idle
        <4>2. QED
          BY <4>1, ElementsEmpty
      <3>2. CASE SkipToReset(b)
        <4>1. skipped'[b] = skipped[b] \cup
                              (owed[b] \cap HitsOf(Elements(unread[b])))
          BY <1>1, <3>2 DEF SkipToReset
        <4>2. entry \notin HitsOf(Elements(unread[c]))
          BY <1>3, <2>4, <4>1
        <4>3. QED
          BY <2>2, <3>1, <4>2
      <3>3. CASE ReadUnread(b)
        <4>1. Elements(unread[c]) \subseteq batch'[c]
          BY <1>3, <2>4, <3>3, ReadsUnread DEF CInv
        <4>2. HitsOf(Elements(unread[c])) \subseteq HitsOf(batch'[c])
          BY <4>1 DEF HitsOf
        <4>3. QED
          BY <2>2, <3>1, <4>2
      <3>4. QED
        BY <3>2, <3>3 DEF GetMessages
    <2>5. QED
      BY <2>3, <2>4
  <1>4. QED
    BY <1>2, <1>3 DEF StaleIsPending, HitsOf, Hits, Elements

\* What is applied is no longer owed.
LEMMA ApplyPending ==
  ASSUME CInv, NEW b \in Backends, Apply(b)
  PROVE  StaleIsPending'
  <1>1. /\ batch \in [Backends -> SUBSET Message]
        /\ owed \in [Backends -> SUBSET Entries]
        /\ skipped \in [Backends -> SUBSET Entries]
        /\ Registered \subseteq Backends
    BY RegisteredType DEF CInv, IInv, TypeOK
  <1>2. /\ Registered' = Registered /\ UNCHANGED <<unread, outgoing>>
        /\ batch' = [batch EXCEPT ![b] = {}]
        /\ owed' = [owed EXCEPT ![b] = @ \ HitsOf(batch[b])]
        /\ skipped' = [skipped EXCEPT ![b] = @ \ HitsOf(batch[b])]
    BY DEF Apply, queue, Registered
  <1>3. ASSUME NEW c \in Registered, NEW entry \in owed'[c], entry \notin skipped'[c]
        PROVE  \/ entry \in HitsOf(batch'[c])
               \/ entry \in HitsOf(Elements(unread[c]))
               \/ \E i \in Registered : entry \in HitsOf(Elements(outgoing[i]))
    <2>1. entry \in owed[c] /\ entry \notin skipped[c]
          /\ (c = b => entry \notin HitsOf(batch[c]))
      BY <1>1, <1>2, <1>3
    <2>2. \/ entry \in HitsOf(batch[c])
          \/ entry \in HitsOf(Elements(unread[c]))
          \/ \E i \in Registered : entry \in HitsOf(Elements(outgoing[i]))
      BY <2>1 DEF CInv, StaleIsPending
    <2>3. c # b => batch'[c] = batch[c]
      BY <1>1, <1>2
    <2>4. QED
      BY <2>1, <2>2, <2>3
  <1>4. QED
    BY <1>2, <1>3 DEF StaleIsPending, HitsOf, Hits, Elements

\* What a commit makes stale is in what its loop has still to insert.
LEMMA CommitPending ==
  ASSUME CInv, NEW b \in Backends, Commit(b)
  PROVE  StaleIsPending'
  <1>1. /\ outgoing \in [Backends -> Seq(Message)]
        /\ owed \in [Backends -> SUBSET Entries]
        /\ Registered \subseteq Backends /\ TypeOK
    BY RegisteredType DEF CInv, IInv, TypeOK
  <1>2. /\ Registered' = Registered /\ UNCHANGED <<batch, unread, skipped>>
        /\ outgoing' = [outgoing EXCEPT ![b] = Published(b)]
        /\ owed' = [i \in Backends |-> owed[i] \cup (valid[i] \cap intent[b])]
        /\ pc[b] = "ready" /\ outgoing[b] = <<>>
    BY DEF Commit, queue, Registered, Ready
  <1>3. b \in Registered
    BY <1>2 DEF CInv, Idle
  <1>4. intent[b] \subseteq HitsOf(Elements(outgoing'[b]))
    <2>1. outgoing'[b] = priorCmd[b] \o currentCmd[b]
      BY <1>1, <1>2 DEF Published
    <2>2. QED
      BY <1>1, <2>1, PublishedHits DEF CInv, IntentQueued
  <1>5. \A i \in Registered :
          HitsOf(Elements(outgoing[i])) \subseteq HitsOf(Elements(outgoing'[i]))
    BY <1>1, <1>2, ElementsEmpty
  <1>6. ASSUME NEW c \in Registered, NEW entry \in owed'[c] \ skipped[c]
        PROVE  \/ entry \in HitsOf(batch[c])
               \/ entry \in HitsOf(Elements(unread[c]))
               \/ \E i \in Registered : entry \in HitsOf(Elements(outgoing'[i]))
    <2>1. entry \in owed[c] \/ entry \in intent[b]
      BY <1>1, <1>2, <1>6
    <2>2. CASE entry \in intent[b]
      BY <1>3, <1>4, <2>2
    <2>3. CASE entry \in owed[c]
      <3>1. \/ entry \in HitsOf(batch[c])
            \/ entry \in HitsOf(Elements(unread[c]))
            \/ \E i \in Registered : entry \in HitsOf(Elements(outgoing[i]))
        BY <1>6, <2>3 DEF CInv, StaleIsPending
      <3>2. QED
        BY <1>5, <3>1
    <2>4. QED
      BY <2>1, <2>2, <2>3
  <1>7. QED
    BY <1>2, <1>6 DEF StaleIsPending, HitsOf, Hits, Elements

\* An inserted message is unread everywhere.
LEMMA InsertPending ==
  ASSUME CInv, NEW b \in Backends, Insert(b)
  PROVE  StaleIsPending'
  <1> DEFINE msg == Head(outgoing[b])
  <1>1. /\ outgoing \in [Backends -> Seq(Message)]
        /\ unread \in [Backends -> Seq(Message)]
        /\ Registered \subseteq Backends
    BY RegisteredType DEF CInv, IInv, TypeOK
  <1>2. /\ Registered' = Registered /\ UNCHANGED <<batch, owed, skipped>>
        /\ outgoing' = [outgoing EXCEPT ![b] = Tail(@)]
        /\ outgoing[b] # <<>>
        /\ \A c \in Registered : unread'[c] = Append(unread[c], msg)
    BY <1>1 DEF Insert, caches, Registered
  <1>3. /\ msg \in Message
        /\ Elements(outgoing[b]) = {msg} \cup Elements(Tail(outgoing[b]))
    BY <1>1, <1>2, ElementsTail
  <1> HIDE DEF msg
  <1>4. \A c \in Registered : Elements(unread'[c]) = Elements(unread[c]) \cup {msg}
    BY <1>1, <1>2, <1>3, ElementsAppend
  <1>5. \A i \in Registered :
          Elements(outgoing[i]) \subseteq Elements(outgoing'[i]) \cup {msg}
    <2> SUFFICES ASSUME NEW i \in Registered
                 PROVE  Elements(outgoing[i]) \subseteq Elements(outgoing'[i]) \cup {msg}
      OBVIOUS
    <2>1. CASE i = b
      <3>1. outgoing'[i] = Tail(outgoing[b])
        BY <1>1, <1>2, <2>1
      <3>2. QED
        BY <1>3, <2>1, <3>1
    <2>2. CASE i # b
      BY <1>1, <1>2, <2>2
    <2>3. QED
      BY <2>1, <2>2
  <1>6. ASSUME NEW c \in Registered, NEW entry \in owed[c] \ skipped[c]
        PROVE  \/ entry \in HitsOf(batch[c])
               \/ entry \in HitsOf(Elements(unread'[c]))
               \/ \E i \in Registered : entry \in HitsOf(Elements(outgoing'[i]))
    <2>1. \/ entry \in HitsOf(batch[c])
          \/ entry \in HitsOf(Elements(unread[c]))
          \/ \E i \in Registered : entry \in HitsOf(Elements(outgoing[i]))
      BY DEF CInv, StaleIsPending
    <2>2. HitsOf(Elements(unread[c])) \cup HitsOf({msg})
            \subseteq HitsOf(Elements(unread'[c]))
      BY <1>4 DEF HitsOf
    <2>3. \A i \in Registered :
            HitsOf(Elements(outgoing[i])) \subseteq
              HitsOf(Elements(outgoing'[i])) \cup HitsOf({msg})
      BY <1>5 DEF HitsOf
    <2>4. QED
      BY <2>1, <2>2, <2>3
  <1>7. QED
    BY <1>2, <1>6 DEF StaleIsPending, HitsOf, Hits, Elements

LEMMA PendingInvariance ==
  ASSUME CInv, [Next]_vars
  PROVE  StaleIsPending'
  <1>1. TypeOK /\ StaleIsPending
    BY DEF CInv, IInv
  <1>2. ASSUME NEW b \in Backends, Construct(b)
        PROVE  StaleIsPending'
    BY <1>2, ConstructPending
  <1>3. ASSUME NEW b \in Backends, GetMessages(b)
        PROVE  StaleIsPending'
    BY <1>3, GetMessagesPending
  <1>4. ASSUME NEW b \in Backends, Apply(b)
        PROVE  StaleIsPending'
    BY <1>4, ApplyPending
  <1>5. ASSUME NEW b \in Backends, NEW entry \in Entries, AddEntry(b, entry)
        PROVE  StaleIsPending'
    <2>1. /\ owed' = [owed EXCEPT ![b] = @ \ {entry}]
          /\ skipped' = [skipped EXCEPT ![b] = @ \ {entry}]
      BY <1>5 DEF AddEntry
    <2>2. \A c \in Registered : owed'[c] \ skipped'[c] \subseteq owed[c] \ skipped[c]
      BY <1>1, <2>1, RegisteredType DEF TypeOK
    <2>3. QED
      BY <1>1, <1>5, <2>2, PendingKept DEF AddEntry, queue, calls
  <1>6. ASSUME NEW b \in Backends, Commit(b)
        PROVE  StaleIsPending'
    BY <1>6, CommitPending
  <1>7. ASSUME NEW b \in Backends, Insert(b)
        PROVE  StaleIsPending'
    BY <1>7, InsertPending
  <1>8. ASSUME UNCHANGED <<queue, calls, caches>>
        PROVE  StaleIsPending'
    BY <1>1, <1>8, PendingKept DEF queue, calls, caches
  <1>9. CASE UNCHANGED vars
    BY <1>8, <1>9 DEF vars
  <1>10. QED
    BY <1>2, <1>3, <1>4, <1>5, <1>6, <1>7, <1>8, <1>9
       DEF Next, Accept, BeginTransaction, RegisterRelcache, RegisterSyscache,
           AddMessage, ExecuteCommand, Rollback

LEMMA InitCInv == Init => CInv
  <1> SUFFICES ASSUME Init
               PROVE  CInv
    OBVIOUS
  <1>1. IInv
    BY InitInv
  <1>2. IntentQueued
    BY DEF Init, IntentQueued
  <1>3. Idle
    BY DEF Init, Idle
  <1>4. StaleIsPending
    BY RegisteredType, InitType DEF Init, StaleIsPending
  <1>5. QED
    BY <1>1, <1>2, <1>3, <1>4 DEF CInv

\* What is unread by a backend that is not to reset is in its part of the vector.
LEMMA PendingIsCovered == CInv => StaleIsCovered
  <1> SUFFICES ASSUME CInv, NEW b \in Registered \ resetState,
                      NEW entry \in owed[b] \ skipped[b]
               PROVE  \/ entry \in HitsOf(batch[b])
                      \/ \E n \in nextMsgNum[b] .. maxMsgNum - 1 :
                           entry \in Hits(buffer[Slot(n) + 1])
                      \/ \E i \in Registered : entry \in HitsOf(Elements(outgoing[i]))
    BY DEF StaleIsCovered
  <1>1. \/ entry \in HitsOf(batch[b])
        \/ entry \in HitsOf(Elements(unread[b]))
        \/ \E i \in Registered : entry \in HitsOf(Elements(outgoing[i]))
    BY DEF CInv, StaleIsPending
  <1>2. CASE entry \in HitsOf(Elements(unread[b]))
    <2>1. unread[b] \in Seq(Message) /\ nextMsgNum[b] \in Nat /\ maxMsgNum \in Nat
      BY RegisteredType DEF CInv, IInv, TypeOK
    <2>2. DOMAIN unread[b] = 1 .. Len(unread[b]) /\ Len(unread[b]) \in Nat
      BY <2>1, LenProperties
    <2>3. PICK k \in 1 .. Len(unread[b]) : entry \in Hits(unread[b][k])
      BY <1>2, <2>2 DEF HitsOf, Elements
    <2>4. /\ maxMsgNum - nextMsgNum[b] = Len(unread[b])
          /\ buffer[Slot(nextMsgNum[b] + k - 1) + 1] = unread[b][k]
      BY DEF CInv, IInv, UnreadKept, Unread
    <2>5. nextMsgNum[b] + k - 1 \in nextMsgNum[b] .. maxMsgNum - 1
      BY <2>1, <2>2, <2>4
    <2>6. QED
      BY <2>3, <2>4, <2>5
  <1>3. QED
    BY <1>1, <1>2

\* No message of a commit is lost between a backend's lists, the loop of
\* commitTransaction, the vector and the caches, for any number of backends
\* and however they interleave: the one exception is a reset.  Cache ids must
\* fit the int8_t they are stored in.
THEOREM OnlyResetsLoseMessages == CacheIdsFit => (Spec => []StaleIsCovered)
  <1> SUFFICES ASSUME CacheIdsFit
               PROVE  Spec => []StaleIsCovered
    OBVIOUS
  <1>1. CInv /\ [Next]_vars => CInv'
    <2> SUFFICES ASSUME CInv, [Next]_vars
                 PROVE  CInv'
      OBVIOUS
    <2>1. IInv /\ IntentQueued /\ Idle /\ TypeOK
      BY DEF CInv, IInv
    <2>2. IInv'
      BY <2>1, Invariance
    <2>3. QED
      BY <2>1, <2>2, IntentInvariance, IdleInvariance, PendingInvariance DEF CInv
  <1>2. QED
    BY <1>1, InitCInv, PendingIsCovered, PTL DEF Spec
=============================================================================
