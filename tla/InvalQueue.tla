----------------------------- MODULE InvalQueue -----------------------------
(***************************************************************************)
(* The cache invalidation of src/cache_invalidation inside one process:     *)
(* shared_inval_queue.h, backend.h, transaction.h, cache.h and              *)
(* invalidation_message.h.                                                  *)
(*                                                                          *)
(* Backend objects share a SharedInvalQueue.  Each method of the queue      *)
(* holds its mutex and is one step; what a Backend does between two of them *)
(* (inserting the messages of a commit one by one, applying what it has     *)
(* read) is several steps, between which the other backends act.  dbId is   *)
(* carried by messages and compared with nothing, so that it is left out;   *)
(* signaled is always equal to resetState, hasMessages is never read.       *)
(***************************************************************************)
EXTENDS Integers, Sequences

CONSTANTS
  MaxBackends,   \* bound: Backend objects constructed
  MaxMessages,   \* MAX_MESSAGES
  TxMax,         \* bound: messages a backend's client registers in a transaction
  MaxMsgNum,     \* bound: messages inserted in a behaviour
  RelIds,        \* relation ids of messages; 0, if there, means every relation
  CacheIds,      \* system cache ids passed by clients
  Hashes         \* hash values of system cache entries

ASSUME QueueAssumption ==
  /\ MaxBackends \in Nat
  /\ MaxMessages \in Nat \ {0}
  /\ TxMax \in [1 .. MaxBackends -> Nat]
  /\ RelIds \subseteq Nat
  /\ CacheIds \subseteq Nat
  /\ Hashes \subseteq Nat

Backends == 1 .. MaxBackends

-----------------------------------------------------------------------------
(* Messages and cache entries.                                              *)

CACHE_INVAL_RELCACHE == -1

Message == [id : -128 .. 127, relId : Nat, hashValue : Nat]

RelMsg(relId) == [id |-> CACHE_INVAL_RELCACHE, relId |-> relId, hashValue |-> 0]

\* msg.id = cacheId stores a uint32_t into an int8_t
SysMsg(cacheId, hash) ==
  [id |-> ((cacheId + 128) % 256) - 128, relId |-> 0, hashValue |-> hash]

RelEntries == {"rel"} \X (RelIds \ {0})
SysEntries == {"sys"} \X Hashes
Entries == RelEntries \cup SysEntries

\* the entries that acceptInvalidationMessages invalidates for a message
Hits(msg) ==
  IF msg.id = CACHE_INVAL_RELCACHE
  THEN IF msg.relId = 0 THEN RelEntries ELSE {<<"rel", msg.relId>>}
  ELSE IF msg.id >= 0 THEN {<<"sys", msg.hashValue>>}
  ELSE {}

HitsOf(msgs) == UNION {Hits(msg) : msg \in msgs}

Elements(list) == {list[i] : i \in DOMAIN list}

-----------------------------------------------------------------------------
VARIABLES
  minMsgNum, maxMsgNum,
  buffer,        \* the vector: grows to MaxMessages, is then overwritten
  backendCount,  \* backendStates.size()
  nextMsgNum, resetState,  \* of backendStates; resetState as a set of ids
  pc,            \* "absent", "ready", "apply" (getMessages has returned)
  batch,         \* the messages that getMessages returned
  beginning,     \* the accept in progress was called by beginTransaction
  outgoing,      \* what the loop of commitTransaction has still to insert
  inProgress, currentCmd, priorCmd,  \* the Transaction of each backend
  valid,         \* entries of the backend's caches that are valid
  unread,        \* history: messages inserted since the backend's last read
  intent,        \* history: entries the transaction's client declared stale
  owed,          \* history: valid entries a committed transaction made stale
  skipped        \* history: owed entries whose messages a reset has skipped

queue == <<minMsgNum, maxMsgNum, buffer, backendCount, nextMsgNum, resetState,
           unread>>
calls == <<pc, batch, beginning, outgoing>>
trans == <<inProgress, currentCmd, priorCmd, intent>>
caches == <<valid, owed, skipped>>
vars == <<queue, calls, trans, caches>>

Init ==
  /\ minMsgNum = 0 /\ maxMsgNum = 0
  /\ buffer = <<>>
  /\ unread = [b \in Backends |-> <<>>]
  /\ backendCount = 0
  /\ nextMsgNum = [b \in Backends |-> 0] /\ resetState = {}
  /\ pc = [b \in Backends |-> "absent"]
  /\ batch = [b \in Backends |-> {}]
  /\ beginning = {}
  /\ outgoing = [b \in Backends |-> <<>>]
  /\ inProgress = {}
  /\ currentCmd = [b \in Backends |-> <<>>]
  /\ priorCmd = [b \in Backends |-> <<>>]
  /\ valid = [b \in Backends |-> {}]
  /\ intent = [b \in Backends |-> {}]
  /\ owed = [b \in Backends |-> {}]
  /\ skipped = [b \in Backends |-> {}]

Registered == 1 .. backendCount

Unread(b) == maxMsgNum - nextMsgNum[b]

\* the thread of the backend is between two calls
Ready(b) == pc[b] = "ready" /\ outgoing[b] = <<>>

-----------------------------------------------------------------------------
(* The queue.                                                               *)

\* Backend::Backend and registerBackend; a Backend has no destructor, so that
\* its id stays registered when the object is gone
Construct(b) ==
  /\ b = backendCount + 1
  /\ backendCount' = b
  /\ nextMsgNum' = [nextMsgNum EXCEPT ![b] = maxMsgNum]
  /\ pc' = [pc EXCEPT ![b] = "ready"]
  /\ UNCHANGED <<minMsgNum, maxMsgNum, buffer, resetState, unread, batch,
                 beginning, outgoing, trans, caches>>

\* Mutant: the cleanup is due one message late.
CleanupDueLate == maxMsgNum - minMsgNum > MaxMessages

CleanupDue == maxMsgNum - minMsgNum >= MaxMessages

\* Mutant: a backend may lag a whole buffer before it is marked.
LaggardsByBuffer == {i \in Registered : Unread(i) > MaxMessages}

Laggards == {i \in Registered : Unread(i) > MaxMessages \div 2}

\* cleanupQueue: minMsgNum goes to the slowest reader, marked ones included
Cleanup ==
  IF CleanupDue
  THEN /\ \E num \in {maxMsgNum} \cup {nextMsgNum[i] : i \in Registered} :
            /\ num <= maxMsgNum
            /\ \A i \in Registered : num <= nextMsgNum[i]
            /\ minMsgNum' = num
       /\ resetState' = resetState \cup Laggards
  ELSE UNCHANGED <<minMsgNum, resetState>>

Slot(num) == num % MaxMessages

\* insertMessage, from the loop of commitTransaction; when the window is full
\* the message goes in after the cleanup, whether that made room or not
Insert(b) ==
  /\ outgoing[b] # <<>>
  /\ Cleanup
  /\ LET msg == Head(outgoing[b])
     IN  /\ buffer' = IF Len(buffer) <= Slot(maxMsgNum) THEN Append(buffer, msg)
                      ELSE [buffer EXCEPT ![Slot(maxMsgNum) + 1] = msg]
         /\ unread' = [i \in Backends |->
              IF i \in Registered THEN Append(unread[i], msg) ELSE unread[i]]
  /\ maxMsgNum' = maxMsgNum + 1
  /\ outgoing' = [outgoing EXCEPT ![b] = Tail(@)]
  /\ UNCHANGED <<backendCount, nextMsgNum, pc, batch, beginning, trans, caches>>

\* getMessages of a backend that is to reset: no messages, and nothing that
\* tells the caller why
SkipToReset(b) ==
  /\ b \in resetState
  /\ resetState' = resetState \ {b}
  /\ batch' = [batch EXCEPT ![b] = {}]
  /\ skipped' = [skipped EXCEPT ![b] =
       @ \cup (owed[b] \cap HitsOf(Elements(unread[b])))]

\* getMessages otherwise: everything that is unread
ReadUnread(b) ==
  /\ b \notin resetState
  /\ batch' = [batch EXCEPT ![b] =
       {buffer[Slot(n) + 1] :
          n \in {n \in nextMsgNum[b] .. maxMsgNum - 1 : Slot(n) < Len(buffer)}}]
  /\ UNCHANGED <<resetState, skipped>>

GetMessages(b) ==
  /\ Ready(b)
  /\ SkipToReset(b) \/ ReadUnread(b)
  /\ nextMsgNum' = [nextMsgNum EXCEPT ![b] = maxMsgNum]
  /\ unread' = [unread EXCEPT ![b] = <<>>]
  /\ pc' = [pc EXCEPT ![b] = "apply"]
  /\ UNCHANGED <<minMsgNum, maxMsgNum, buffer, backendCount, outgoing, trans,
                 valid, owed>>

-----------------------------------------------------------------------------
(* Backend.                                                                 *)

\* acceptInvalidationMessages, called by a client ...
Accept(b) ==
  /\ GetMessages(b)
  /\ UNCHANGED beginning

\* ... or by beginTransaction, which refuses nothing
BeginTransaction(b) ==
  /\ GetMessages(b)
  /\ beginning' = beginning \cup {b}

EndOrBegin(b) ==
  /\ currentCmd' = [currentCmd EXCEPT ![b] = <<>>]
  /\ priorCmd' = [priorCmd EXCEPT ![b] = <<>>]
  /\ intent' = [intent EXCEPT ![b] = {}]

\* the rest of acceptInvalidationMessages, then that of beginTransaction; a
\* backend that got no messages returns and leaves its caches as they are
Apply(b) ==
  /\ pc[b] = "apply"
  /\ pc' = [pc EXCEPT ![b] = "ready"]
  /\ batch' = [batch EXCEPT ![b] = {}]
  /\ valid' = [valid EXCEPT ![b] = @ \ HitsOf(batch[b])]
  /\ owed' = [owed EXCEPT ![b] = @ \ HitsOf(batch[b])]
  /\ skipped' = [skipped EXCEPT ![b] = @ \ HitsOf(batch[b])]
  /\ beginning' = beginning \ {b}
  /\ IF b \in beginning
     THEN inProgress' = inProgress \cup {b} /\ EndOrBegin(b)
     ELSE UNCHANGED trans
  /\ UNCHANGED <<queue, outgoing>>

\* addRelCacheEntry and addSysCacheEntry: put replaces the entry
AddEntry(b, entry) ==
  /\ Ready(b)
  /\ valid' = [valid EXCEPT ![b] = @ \cup {entry}]
  /\ owed' = [owed EXCEPT ![b] = @ \ {entry}]
  /\ skipped' = [skipped EXCEPT ![b] = @ \ {entry}]
  /\ UNCHANGED <<queue, calls, trans>>

\* bound: no client registers what could not be inserted any more
HasRoom(b) ==
  LET count == Len(currentCmd[b]) + Len(priorCmd[b])
  IN  count < TxMax[b] /\ maxMsgNum + count < MaxMsgNum

AddMessage(b, msg, entries) ==
  /\ Ready(b) /\ b \in inProgress
  /\ HasRoom(b)
  /\ currentCmd' = [currentCmd EXCEPT ![b] = Append(@, msg)]
  /\ intent' = [intent EXCEPT ![b] = @ \cup entries]
  /\ UNCHANGED <<queue, calls, inProgress, priorCmd, caches>>

RegisterRelcache(b, relId) ==
  AddMessage(b, RelMsg(relId),
             IF relId = 0 THEN RelEntries ELSE {<<"rel", relId>>})

RegisterSyscache(b, cacheId, hash) ==
  AddMessage(b, SysMsg(cacheId, hash), {<<"sys", hash>>})

\* commandEnd moves the messages and applies none of them
ExecuteCommand(b) ==
  /\ Ready(b) /\ b \in inProgress
  /\ priorCmd' = [priorCmd EXCEPT ![b] = @ \o currentCmd[b]]
  /\ currentCmd' = [currentCmd EXCEPT ![b] = <<>>]
  /\ UNCHANGED <<queue, calls, inProgress, intent, caches>>

\* Mutant: the messages of the command in progress are forgotten.
PublishedPriorOnly(b) == priorCmd[b]

Published(b) == priorCmd[b] \o currentCmd[b]

\* commitTransaction up to its loop; the backend's own caches are not touched,
\* it reads its messages from the queue like everybody
Commit(b) ==
  /\ Ready(b) /\ b \in inProgress
  /\ maxMsgNum + Len(Published(b)) <= MaxMsgNum
  /\ inProgress' = inProgress \ {b}
  /\ EndOrBegin(b)
  /\ outgoing' = [outgoing EXCEPT ![b] = Published(b)]
  /\ owed' = [i \in Backends |-> owed[i] \cup (valid[i] \cap intent[b])]
  /\ UNCHANGED <<queue, pc, batch, beginning, valid, skipped>>

\* rollback forgets the messages and applies none of them
Rollback(b) ==
  /\ Ready(b) /\ b \in inProgress
  /\ inProgress' = inProgress \ {b}
  /\ EndOrBegin(b)
  /\ UNCHANGED <<queue, calls, caches>>

-----------------------------------------------------------------------------
Next == \E b \in Backends :
  \/ Construct(b) \/ Accept(b) \/ BeginTransaction(b) \/ Apply(b)
  \/ \E entry \in Entries : AddEntry(b, entry)
  \/ \E relId \in RelIds : RegisterRelcache(b, relId)
  \/ \E cacheId \in CacheIds, hash \in Hashes : RegisterSyscache(b, cacheId, hash)
  \/ ExecuteCommand(b) \/ Commit(b) \/ Insert(b) \/ Rollback(b)

Spec == Init /\ [][Next]_vars

-----------------------------------------------------------------------------
(* Properties.                                                              *)

TypeOK ==
  /\ minMsgNum \in Nat /\ maxMsgNum \in Nat
  /\ buffer \in Seq(Message) /\ Len(buffer) <= MaxMessages
  /\ backendCount \in 0 .. MaxBackends
  /\ nextMsgNum \in [Backends -> Nat]
  /\ resetState \subseteq Backends
  /\ pc \in [Backends -> {"absent", "ready", "apply"}]
  /\ batch \in [Backends -> SUBSET Message]
  /\ beginning \subseteq Backends
  /\ outgoing \in [Backends -> Seq(Message)]
  /\ inProgress \subseteq Backends
  /\ currentCmd \in [Backends -> Seq(Message)]
  /\ priorCmd \in [Backends -> Seq(Message)]
  /\ valid \in [Backends -> SUBSET Entries]
  /\ unread \in [Backends -> Seq(Message)]
  /\ intent \in [Backends -> SUBSET Entries]
  /\ owed \in [Backends -> SUBSET Entries]
  /\ skipped \in [Backends -> SUBSET Entries]

\* A backend that is not to reset has at most MaxMessages unread messages,
\* although insertMessage puts a message into a full window when cleanupQueue
\* could not make room.
UnreadFits == \A b \in Registered \ resetState : Unread(b) <= MaxMessages

\* Every message that was inserted since the last read of a backend, and that
\* no reset will skip, is in the vector where getMessages will look for it,
\* however the vector has grown and wrapped.
UnreadKept ==
  \A b \in Registered \ resetState :
    /\ Unread(b) = Len(unread[b])
    /\ \A k \in 1 .. Len(unread[b]) :
         LET slot == Slot(nextMsgNum[b] + k - 1)
         IN  slot < Len(buffer) /\ buffer[slot + 1] = unread[b][k]

\* An entry that a committed transaction declared stale and that is still
\* valid is covered by a message that is being sent, unread or not yet applied,
\* in whatever order commits, reads and constructions interleave.  The only
\* exceptions are backends that are to reset, and entries whose message a
\* reset has skipped: those stay valid for ever.
StaleIsCovered ==
  \A b \in Registered \ resetState : \A entry \in owed[b] \ skipped[b] :
    \/ entry \in HitsOf(batch[b])
    \/ \E n \in nextMsgNum[b] .. maxMsgNum - 1 :
         entry \in Hits(buffer[Slot(n) + 1])
    \/ \E i \in Registered : entry \in HitsOf(Elements(outgoing[i]))
=============================================================================
