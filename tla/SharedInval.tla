----------------------------- MODULE SharedInval -----------------------------
(***************************************************************************)
(* The multi-process cache invalidation of src/cache_invalidation           *)
(* (shared_memory.h, backend_process.h, multi_process_demo.c).              *)
(*                                                                          *)
(* Backends share a ring of invalidation messages.  A transaction collects  *)
(* messages; its commit publishes them under a semaphore and wakes the      *)
(* other backends with SIGUSR1; a backend reads what it has not read yet    *)
(* under the semaphore, releases it, and only then applies what it read to  *)
(* its private caches.  A reader that falls too far behind is marked        *)
(* resetState and throws its caches away instead of reading.                *)
(*                                                                          *)
(* One critical section of the code is one step here; InvalLock looks       *)
(* inside the semaphore.  Backend ids are the slots of buffer->backends.    *)
(***************************************************************************)
EXTENDS Integers, Sequences

CONSTANTS
  MaxBackends,    \* bound: processes that register (MAX_BACKENDS)
  MaxMessages,    \* slots of the ring (MAX_MESSAGES)
  ThresholdStep,  \* the 10 of nextThreshold = ... + 10
  ListMax,        \* the 100 of every message array of a process
  TxMax,          \* bound: messages a client registers in one transaction
  MaxMsgNum,      \* bound: messages published in a behaviour
  DbOf,           \* the database each backend id connects to
  RelIds,         \* relation ids of messages; 0, if there, means every relation
  CacheIds,       \* system cache ids passed by clients
  Hashes          \* hash values of system cache entries

ASSUME SizesAssumption ==
  /\ MaxBackends \in Nat
  /\ MaxMessages \in Nat \ {0}
  /\ ThresholdStep \in Nat \ {0}
  /\ ListMax \in Nat
  /\ TxMax \in Nat
  /\ MaxMsgNum \in Nat

Slots == 0 .. MaxBackends - 1

ASSUME KeysAssumption ==
  /\ DbOf \in [Slots -> Nat]
  /\ RelIds \subseteq Nat
  /\ CacheIds \subseteq Nat
  /\ Hashes \subseteq Nat

-----------------------------------------------------------------------------
(* Messages and cache entries.                                              *)

CACHE_INVAL_RELCACHE == -1

\* uint32_t cacheId stored into the int8_t field id
Int8(n) == ((n + 128) % 256) - 128

Message == [id : -128 .. 127, dbId : Nat, relId : Nat, hashValue : Nat]

RelMsg(db, relId) ==
  [id |-> CACHE_INVAL_RELCACHE, dbId |-> db, relId |-> relId, hashValue |-> 0]

\* Mutant: the two arguments swapped.
SysMsgSwapped(db, cacheId, hash) ==
  [id |-> Int8(hash), dbId |-> db, relId |-> 0, hashValue |-> cacheId]

SysMsg(db, cacheId, hash) ==
  [id |-> Int8(cacheId), dbId |-> db, relId |-> 0, hashValue |-> hash]

RelEntries == {"rel"} \X (RelIds \ {0})
SysEntries == {"sys"} \X Hashes
Entries == RelEntries \cup SysEntries

\* the entries of a backend that process_invalidation_message invalidates
Hits(b, msg) ==
  IF msg.dbId # 0 /\ msg.dbId # DbOf[b] THEN {}
  ELSE IF msg.id = CACHE_INVAL_RELCACHE
       THEN IF msg.relId = 0 THEN RelEntries ELSE {<<"rel", msg.relId>>}
  ELSE IF msg.id >= 0 THEN {<<"sys", msg.hashValue>>}
  ELSE {}

HitsOf(b, msgs) == UNION {Hits(b, msgs[i]) : i \in DOMAIN msgs}

\* append with the silent drop of `if (count < 100)`
AppendCapped(list, msgs) ==
  LET room == ListMax - Len(list)
  IN  list \o SubSeq(msgs, 1, IF Len(msgs) < room THEN Len(msgs) ELSE room)

-----------------------------------------------------------------------------
VARIABLES
  minMsgNum, maxMsgNum, nextThreshold, lastBackendId,
  messages,       \* the ring
  \* the fields of buffer->backends[]; pid > 0 iff the id is registered, and
  \* each flag is the set of the ids for which it is 1
  nextMsgNum, resetState, hasMessages, signaled,
  signals,        \* SIGUSR1 sent to a process and not yet handled
  g_hasNewMessages,
  pc,             \* "absent", "ready", in accept after the unlock ("apply",
                  \* or "reset" when everything is to be invalidated), "exited"
  batch,          \* messages[] of accept: read and not yet applied
  beginning,      \* the accept in progress was called by begin_transaction
  active,         \* g_transaction.state = TRANS_ACTIVE
  currentCmd, priorCmd,
  valid,          \* entries of the process's caches that are CACHE_VALID
  intent,         \* history: entries the transaction's client declared stale
  owed            \* history: valid entries a committed transaction made stale

shared == <<minMsgNum, maxMsgNum, nextThreshold, lastBackendId, messages,
            nextMsgNum, resetState, hasMessages, signaled>>
calls == <<pc, batch, beginning>>
trans == <<active, currentCmd, priorCmd, intent>>
vars == <<shared, signals, g_hasNewMessages, calls, trans, valid, owed>>

Registered == 0 .. lastBackendId - 1

\* memset leaves zeroed messages in the ring
ZeroMsg == [id |-> 0, dbId |-> 0, relId |-> 0, hashValue |-> 0]

Init ==
  /\ minMsgNum = 0 /\ maxMsgNum = 0
  /\ nextThreshold = ThresholdStep
  /\ lastBackendId = 0
  /\ messages = [i \in 0 .. MaxMessages - 1 |-> ZeroMsg]
  /\ nextMsgNum = [b \in Slots |-> 0]
  /\ resetState = {} /\ hasMessages = {} /\ signaled = {}
  /\ signals = {} /\ g_hasNewMessages = {}
  /\ pc = [b \in Slots |-> "absent"]
  /\ batch = [b \in Slots |-> <<>>]
  /\ beginning = {} /\ active = {}
  /\ currentCmd = [b \in Slots |-> <<>>]
  /\ priorCmd = [b \in Slots |-> <<>>]
  /\ valid = [b \in Slots |-> {}]
  /\ intent = [b \in Slots |-> {}]
  /\ owed = [b \in Slots |-> {}]

-----------------------------------------------------------------------------
(* Registration, exit and the signal handler.                               *)

\* init_backend: empty caches, the next free slot, nothing unread
Register(b) ==
  /\ b = lastBackendId
  /\ lastBackendId' = lastBackendId + 1
  /\ nextMsgNum' = [nextMsgNum EXCEPT ![b] = maxMsgNum]
  /\ resetState' = resetState \ {b}
  /\ hasMessages' = hasMessages \ {b}
  /\ signaled' = signaled \ {b}
  /\ pc' = [pc EXCEPT ![b] = "ready"]
  /\ UNCHANGED <<minMsgNum, maxMsgNum, nextThreshold, messages, signals,
                 g_hasNewMessages, batch, beginning, trans, valid, owed>>

\* exit(0): cleanup_backend unmaps the memory and leaves the slot as it is
Exit(b) ==
  /\ pc[b] = "ready"
  /\ pc' = [pc EXCEPT ![b] = "exited"]
  /\ signals' = signals \ {b}
  /\ UNCHANGED <<shared, g_hasNewMessages, batch, beginning, trans, valid,
                 owed>>

\* handle_invalidation_signal interrupts the process wherever it is
HandleSignal(b) ==
  /\ b \in signals
  /\ signals' = signals \ {b}
  /\ g_hasNewMessages' = g_hasNewMessages \cup {b}
  /\ UNCHANGED <<shared, calls, trans, valid, owed>>

-----------------------------------------------------------------------------
(* accept_invalidation_messages: the critical section, then the processing. *)

Unread(b) == maxMsgNum - nextMsgNum[b]

\* resetState is set: skip the unread messages; hasMessages and the process's
\* flag stay as they are
SkipToReset(b) ==
  /\ b \in resetState
  /\ nextMsgNum' = [nextMsgNum EXCEPT ![b] = maxMsgNum]
  /\ resetState' = resetState \ {b}
  /\ signaled' = signaled \ {b}
  /\ pc' = [pc EXCEPT ![b] = "reset"]
  /\ UNCHANGED <<batch, hasMessages, g_hasNewMessages>>

\* Mutant: one message per signal.
ReadOneAtATime(b) == IF Unread(b) < 1 THEN Unread(b) ELSE 1

ReadCount(b) == IF Unread(b) < ListMax THEN Unread(b) ELSE ListMax

\* read at most ListMax unread messages; signaled stays as it is
ReadUnread(b) ==
  /\ b \notin resetState
  /\ LET next == nextMsgNum[b]
         count == ReadCount(b)
     IN  /\ batch' = [batch EXCEPT ![b] =
                        [i \in 1 .. count |->
                           messages[(next + i - 1) % MaxMessages]]]
         /\ nextMsgNum' = [nextMsgNum EXCEPT ![b] = next + count]
  /\ hasMessages' = hasMessages \ {b}
  /\ g_hasNewMessages' = g_hasNewMessages \ {b}
  /\ pc' = [pc EXCEPT ![b] = "apply"]
  /\ UNCHANGED <<resetState, signaled>>

AcceptLocked(b) ==
  /\ pc[b] = "ready"
  /\ SkipToReset(b) \/ ReadUnread(b)
  /\ UNCHANGED <<minMsgNum, maxMsgNum, nextThreshold, lastBackendId, messages,
                 signals, trans, valid, owed>>

\* begin_transaction; calling it in a transaction is not refused
BeginTransaction(b) ==
  /\ AcceptLocked(b)
  /\ beginning' = beginning \cup {b}

\* the waiting loop of the demo: if (g_hasNewMessages) accept...
Poll(b) ==
  /\ b \in g_hasNewMessages
  /\ AcceptLocked(b)
  /\ UNCHANGED beginning

\* accept returns; begin_transaction then empties the transaction
Return(b) ==
  /\ pc' = [pc EXCEPT ![b] = "ready"]
  /\ batch' = [batch EXCEPT ![b] = <<>>]
  /\ beginning' = beginning \ {b}
  /\ IF b \in beginning
     THEN /\ active' = active \cup {b}
          /\ currentCmd' = [currentCmd EXCEPT ![b] = <<>>]
          /\ priorCmd' = [priorCmd EXCEPT ![b] = <<>>]
          /\ intent' = [intent EXCEPT ![b] = {}]
     ELSE UNCHANGED trans
  /\ UNCHANGED <<shared, signals, g_hasNewMessages>>

Invalidate(b, entries) ==
  /\ valid' = [valid EXCEPT ![b] = @ \ entries]
  /\ owed' = [owed EXCEPT ![b] = @ \ entries]

ApplyBatch(b) ==
  /\ pc[b] = "apply"
  /\ Invalidate(b, HitsOf(b, batch[b]))
  /\ Return(b)

ApplyReset(b) ==
  /\ pc[b] = "reset"
  /\ Invalidate(b, Entries)
  /\ Return(b)

-----------------------------------------------------------------------------
(* The caches and the transaction's messages.                               *)

\* add_cache_item: a fresh value, whether the key was cached before or not
AddItem(b, entry) ==
  /\ pc[b] = "ready"
  /\ valid' = [valid EXCEPT ![b] = @ \cup {entry}]
  /\ owed' = [owed EXCEPT ![b] = @ \ {entry}]
  /\ UNCHANGED <<shared, signals, g_hasNewMessages, calls, trans>>

\* add_invalidation_message, for a client that keeps to TxMax messages
AddMessage(b, msg, entries) ==
  /\ pc[b] = "ready" /\ b \in active
  /\ Len(currentCmd[b]) + Len(priorCmd[b]) < TxMax
  /\ currentCmd' = [currentCmd EXCEPT ![b] = AppendCapped(@, <<msg>>)]
  /\ intent' = [intent EXCEPT ![b] = @ \cup entries]
  /\ UNCHANGED <<shared, signals, g_hasNewMessages, calls, active, priorCmd,
                 valid, owed>>

RegisterRelcache(b, relId) ==
  AddMessage(b, RelMsg(DbOf[b], relId),
             IF relId = 0 THEN RelEntries ELSE {<<"rel", relId>>})

RegisterSyscache(b, cacheId, hash) ==
  AddMessage(b, SysMsg(DbOf[b], cacheId, hash), {<<"sys", hash>>})

\* command_end_invalidation_messages
CommandEnd(b) ==
  /\ pc[b] = "ready" /\ b \in active
  /\ Invalidate(b, HitsOf(b, currentCmd[b]))
  /\ priorCmd' = [priorCmd EXCEPT ![b] = AppendCapped(@, currentCmd[b])]
  /\ currentCmd' = [currentCmd EXCEPT ![b] = <<>>]
  /\ UNCHANGED <<shared, signals, g_hasNewMessages, calls, active, intent>>

EndTransaction(b) ==
  /\ active' = active \ {b}
  /\ currentCmd' = [currentCmd EXCEPT ![b] = <<>>]
  /\ priorCmd' = [priorCmd EXCEPT ![b] = <<>>]
  /\ intent' = [intent EXCEPT ![b] = {}]

\* the prior commands are undone in this backend's caches only
Rollback(b) ==
  /\ pc[b] = "ready" /\ b \in active
  /\ Invalidate(b, HitsOf(b, priorCmd[b]))
  /\ EndTransaction(b)
  /\ UNCHANGED <<shared, signals, g_hasNewMessages, calls>>

-----------------------------------------------------------------------------
(* send_shared_invalidation_messages.                                       *)

\* Mutant: the threshold is checked one message late.
CleanupDueLate == maxMsgNum - minMsgNum > nextThreshold

CleanupDue == maxMsgNum - minMsgNum >= nextThreshold

\* Mutant: the loop over the backends starts at 1.
IsOldestUnreadFromOne(num) ==
  num <= maxMsgNum /\ \A i \in Registered \ {0} : num <= nextMsgNum[i]

IsOldestUnread(num) ==
  /\ num <= maxMsgNum
  /\ \A i \in Registered : num <= nextMsgNum[i]

\* the cleanup, once per call and before anything is published
Cleanup ==
  IF CleanupDue
  THEN \E num \in {maxMsgNum} \cup {nextMsgNum[i] : i \in Registered} :
         /\ IsOldestUnread(num)
         /\ minMsgNum' = num
         /\ nextThreshold' = maxMsgNum - num + ThresholdStep
  ELSE UNCHANGED <<minMsgNum, nextThreshold>>

\* Mutant: a reader may lag a whole ring before it is marked.
LaggardsByRing == {i \in Registered : CleanupDue /\ Unread(i) > MaxMessages}

Laggards == {i \in Registered : CleanupDue /\ Unread(i) > MaxMessages \div 2}

\* the ring after out[1], out[2], ... went to maxMsgNum, maxMsgNum + 1, ...:
\* a slot holds the newest message number that maps to it
WriteRing(out) ==
  LET newest == maxMsgNum + Len(out) - 1
  IN  [slot \in 0 .. MaxMessages - 1 |->
         LET num == newest - ((newest - slot) % MaxMessages)
         IN  IF num < maxMsgNum THEN messages[slot]
             ELSE out[num - maxMsgNum + 1]]

Send(b, out) ==
  LET notified == IF out = <<>> THEN {} ELSE Registered \ {b}
      woken == (Laggards \cup notified) \ signaled
  IN  /\ Cleanup
      /\ messages' = WriteRing(out)
      /\ maxMsgNum' = maxMsgNum + Len(out)
      /\ resetState' = resetState \cup Laggards
      /\ hasMessages' = hasMessages \cup notified
      /\ signaled' = signaled \cup woken
      /\ signals' = signals \cup {i \in woken : pc[i] # "exited"}

\* Mutant: the messages of the command in progress are forgotten.
PublishedPriorOnly(b) == priorCmd[b]

Published(b) == AppendCapped(priorCmd[b], currentCmd[b])

\* commit_transaction: the current command joins the list unapplied
Commit(b) ==
  /\ pc[b] = "ready" /\ b \in active
  /\ maxMsgNum + Len(Published(b)) <= MaxMsgNum
  /\ Send(b, Published(b))
  /\ EndTransaction(b)
  /\ owed' = [i \in Slots |->
       IF DbOf[i] = DbOf[b] THEN owed[i] \cup (valid[i] \cap intent[b])
       ELSE owed[i]]
  /\ UNCHANGED <<lastBackendId, nextMsgNum, g_hasNewMessages, calls, valid>>

-----------------------------------------------------------------------------
Next == \E b \in Slots :
  \/ Register(b) \/ Exit(b) \/ HandleSignal(b)
  \/ BeginTransaction(b) \/ Poll(b) \/ ApplyBatch(b) \/ ApplyReset(b)
  \/ \E entry \in Entries : AddItem(b, entry)
  \/ \E relId \in RelIds : RegisterRelcache(b, relId)
  \/ \E cacheId \in CacheIds, hash \in Hashes : RegisterSyscache(b, cacheId, hash)
  \/ CommandEnd(b) \/ Rollback(b) \/ Commit(b)

Spec == Init /\ [][Next]_vars

\* The kernel delivers a pending signal; a call of accept returns; the waiting
\* loop of multi_process_demo keeps polling its flag.  Nothing makes a client
\* start or commit a transaction.
Fairness == \A b \in Slots :
  /\ WF_vars(HandleSignal(b))
  /\ WF_vars(ApplyBatch(b)) /\ WF_vars(ApplyReset(b))
  /\ WF_vars(Poll(b))

FairSpec == Spec /\ Fairness

-----------------------------------------------------------------------------
(* Properties.                                                              *)

TypeOK ==
  /\ minMsgNum \in Nat /\ maxMsgNum \in Nat /\ nextThreshold \in Nat
  /\ lastBackendId \in 0 .. MaxBackends
  /\ messages \in [0 .. MaxMessages - 1 -> Message]
  /\ nextMsgNum \in [Slots -> Nat]
  /\ resetState \subseteq Slots /\ hasMessages \subseteq Slots
  /\ signaled \subseteq Slots
  /\ signals \subseteq Slots /\ g_hasNewMessages \subseteq Slots
  /\ pc \in [Slots -> {"absent", "ready", "apply", "reset", "exited"}]
  /\ batch \in [Slots -> Seq(Message)]
  /\ beginning \subseteq Slots /\ active \subseteq Slots
  /\ currentCmd \in [Slots -> Seq(Message)]
  /\ priorCmd \in [Slots -> Seq(Message)]
  /\ valid \in [Slots -> SUBSET Entries]
  /\ intent \in [Slots -> SUBSET Entries]
  /\ owed \in [Slots -> SUBSET Entries]

\* minMsgNum never overtakes a reader: no registered backend, exited ones
\* included, still has to read a message below it.
MinIsBehindReaders ==
  \A b \in Registered : /\ minMsgNum <= nextMsgNum[b]
                        /\ nextMsgNum[b] <= maxMsgNum

\* The cleanup keeps the window between minMsgNum and maxMsgNum within one
\* transaction of the threshold, and a reader that it did not mark has lagged
\* at most half a ring plus what was published since.  Unlike UnreadFits this
\* does not depend on the size of the ring, and it is inductive together with
\* MinIsBehindReaders.
WindowBounds ==
  /\ \A b \in Slots : Len(priorCmd[b]) + Len(currentCmd[b]) <= TxMax
  /\ minMsgNum <= maxMsgNum
  /\ nextThreshold - ThresholdStep <= maxMsgNum - minMsgNum
  /\ maxMsgNum - minMsgNum <= nextThreshold - 1 + TxMax
  /\ \A b \in Registered \ resetState :
       Unread(b) <= MaxMessages \div 2
                    + (maxMsgNum - minMsgNum) - (nextThreshold - ThresholdStep)

\* what half a ring, the slack of the threshold and one transaction add up to
RingSuffices == MaxMessages \div 2 + ThresholdStep - 1 + TxMax <= MaxMessages

\* A reader that is not about to reset has at most MaxMessages unread
\* messages, so that the ring still holds every one of them.
UnreadFits ==
  \A b \in Registered \ resetState : Unread(b) <= MaxMessages

\* An entry that a committed transaction of the same database declared stale
\* and that is still CACHE_VALID will be invalidated: the backend resets, or
\* has read and not applied a message for it, or the ring still holds one that
\* it has not read.  No commit is forgotten, whatever interleaves with it.
StaleIsCovered ==
  \A b \in Registered : \A entry \in owed[b] :
    \/ pc[b] \in {"reset", "exited"} \/ b \in resetState
    \/ entry \in HitsOf(b, batch[b])
    \/ \E n \in nextMsgNum[b] .. maxMsgNum - 1 :
         entry \in Hits(b, messages[n % MaxMessages])

\* A process that waits for its flag and has messages to read has the flag or
\* a signal on its way (multiprocess_demo.md: signals tell backends to process
\* new messages).
WaiterIsWoken ==
  \A b \in Registered :
    pc[b] = "ready" /\ b \in hasMessages
      => b \in g_hasNewMessages \cup signals

\* What was published when a backend's flag was up is read in the end, unless
\* the process exits.
FlaggedCatchesUp ==
  \A b \in Slots, n \in 1 .. MaxMsgNum :
    (b \in g_hasNewMessages /\ maxMsgNum = n)
      ~> (pc[b] = "exited" \/ nextMsgNum[b] >= n)
=============================================================================
