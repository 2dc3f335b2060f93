# TLA+ models of DBLab

DBLab is a collection of small C and C++ programs, each of which rebuilds one
mechanism of PostgreSQL: cache invalidation, the syslogger, interrupts, the tuple
store, resource owners, and several smaller ones. This directory holds
TLA+ modules of those mechanisms, the TLC runs that check them and the theorems
that TLAPS proves about them. Paths below are relative to the repository, which is
`src/`; line numbers are those of the modelled commit.

## Inventory

### Cache invalidation between processes (`cache_invalidation/backend_process.h`, `shared_memory.h`, `multi_process_demo.c`)

* State. In shared memory: a ring of 100 messages, `minMsgNum`, `maxMsgNum`,
  `nextThreshold`, and per backend `pid`, `nextMsgNum`, `resetState`, `hasMessages`,
  `signaled`. Per process: the flag `g_hasNewMessages`, two caches, a transaction with
  the messages of the current and of the prior commands. One POSIX semaphore.
* Operations. Register, begin, register a message, command end, commit, rollback,
  accept messages, the SIGUSR1 handler, exit.
* Interaction. A commit writes the ring and the flags of all other backends under
  the semaphore and signals them; a reader copies messages under the semaphore and
  applies them after releasing it.
* Hard. Interleavings of commits and readers, readers that are too slow (reset), a
  ring that wraps, signals that arrive anywhere (also inside `sem_wait`), processes
  that exit and stay registered.
* Correct when. No unread message is overwritten unless its reader resets; a cached
  entry that a committed transaction made stale is invalidated; a backend that waits
  is woken; the critical sections exclude each other.

### Cache invalidation in one process (`cache_invalidation/shared_inval_queue.h`, `backend.h`, `cache.h`, `transaction.h`, ...)

* State. The queue: a vector of messages that grows to 1024 and is then overwritten,
  `minMsgNum`, `maxMsgNum`, per backend a read position and `resetState`, one
  `std::mutex`. Per backend object: two caches, a transaction with two message lists.
* Operations. Construct, begin, register a message, execute command, commit, roll back,
  accept messages, add cache entries.
* Interaction. A commit inserts its messages one at a time, each under the mutex; a
  backend fetches everything unread under the mutex and applies it afterwards. Nobody is
  woken, and the committing backend reads its own messages like the others.
* Hard. The cleanup runs before every insertion into a full window, and the insertion
  goes ahead even if a slow backend kept the window full; a reset looks like no news.
* Correct when. What a backend has still to read is in the vector, and an entry that a
  committed transaction made stale is invalidated.

### Syslogger (`syslog_demo/common.h`, `backend.c`, `syslogger.c`; `pipe_demo.c`)

* State. The pipe (a byte stream), per process the rest of the message it writes, in
  the syslogger up to 100 pending buffers by pid, the log file.
* Operations. Cut a message into chunks of at most `PIPE_BUF` bytes and write each with
  one atomic `write`; read at most one maximal chunk per `select`, append its payload to
  the pending buffer of its pid, log the buffer when the chunk was the last one; stop.
* Hard. Chunks of processes interleave; reads are not aligned to chunks; writers die
  between two chunks; slots run out.
* Correct when. A line of the log is one message of one process, and nothing written
  is lost.

### Interrupts (`pg_interrupt_demo/pg_interrupt_demo.c`)

* State. Two flags that the SIGINT handler sets, three counters that hold interrupts
  back, the modes of the program (query running, reading from the frontend).
* Hard. The handler runs between any two statements, also inside `ProcessInterrupts`;
  an error jumps out of a function with `siglongjmp`.
* Correct when. No cancel request is lost, none is served in a protected region, and
  one that was held is served afterwards.

### Tuple store (`tuplestore_demo/tuplestore_demo.c`)

* State. An array of tuples that grows up to a limit; then a temporary file and one
  buffer that is used for writing and for reading; a read position.
* Hard. The buffer changes direction; file operations fail half-way; the limit and
  the growth are computed in bytes.
* Correct when. `get_next` returns what was put, in order, wherever it is kept.

### Resource owners (`ResourceOwner_management/`)

* State. A tree of owners, each with its resources; pointers to the owner of the top
  transaction and to the current one.
* Hard. Transactions, savepoints and queries end in orders nobody tried; deletion is
  recursive and the tree has pointers in both directions.
* Correct when. No dangling pointer, nothing survives its transaction, a savepoint
  does not touch the owners around it.

### Pipe demo (`syslog_demo/pipe_demo.c`)

* State. A circular buffer with a read position, a write position and a counter; in
  `simulate_fifo` a kernel pipe between a parent and its child.
* Operations. `pipe_write` and `pipe_read` of any length; the parent writes five
  messages, closes and waits, the child reads five times or to the end of the file.
* Hard. Full and empty differ in the counter alone; how many messages a read of the
  child finds depends on the sleeps of both.
* Correct when. The buffer is a first-in first-out pipe, and the child leaves with all
  messages.

### Access control lists (`acl_demo/`)

* State. Roles with lists of members; the list of a table and of each of its columns,
  entries of grantee, grantor and privileges.
* Operations. Add a member, add an entry, grant, revoke; `has_privs_of_role`, two
  versions of `aclmask`, the checks of a column and of a query.
* Interaction. A column check asks the column's list and then the table's; a query
  check asks the table and then the column check.
* Hard. Recursion over memberships without a record of where it has been; passes that
  return early; repeated entries; two places that combine the lists.
* Correct when. An entry holds what was granted and not revoked, a mask is what the
  entries give the role through all its memberships.

### Equivalence classes (`EquivalenceClass/equivalence_class_demo.c`)

* State. A list of classes (members, source clauses), the marks of clauses.
* Operations. `process_equivalence_demo` for each clause `a = b`, then the generation
  of equalities with a constant and of join conditions.
* Hard. The order of the clauses decides which classes there are; two classes are not
  merged; a class may have several constants.
* Correct when. The generated conditions follow from the clauses, and suffice for them.

### B-tree search (`btree_search_analysis/btree_search_demo.c`)

* State. Pages with keys, children, a right link and a high key; the place of a search
  and its stack.
* Operations. `_bt_search`: in each page `_bt_moveright`, `_bt_binsrch`, then down.
* Hard. The comparisons at a high key, with and without `nextkey`; pages that have been
  split since their parent was read, which is why `_bt_moveright` exists.
* Correct when. The position found divides the keys of the leaves.

### Flattening of OR trees (`or_flatten/`)

* State. A tree of Boolean expressions, a linked list with head, tail and length.
* Operations. `pull_ors` with `lappend`, `list_concat`, `list_copy`.
* Hard. The list operations trust the tail; nodes are shared with the old tree or freed.
* Correct when. The flat OR means the same, and somebody owns each node exactly once.

### Expression evaluators (`expr_demo/`)

* State. A context of variables; a tree, the instructions it is compiled to, a stack.
* Operations. Set a variable, evaluate the tree, compile, run the instructions.
* Hard. The order of operands on the stack, zero divisors, a stack nobody checks.
* Correct when. Both evaluations agree.

### Variable-length text (`text_type_demo/`)

* State. A text: a header of one byte or of four, and the bytes after it.
* Operations. Create, length, concatenate, substring, convert back.
* Hard. The border of the two formats, and the width of the header.
* Correct when. The bytes and the length read back are those that were stored.

## Modules

| module | models | abstract from |
|---|---|---|
| `SharedInval` | `backend_process.h`, `shared_memory.h`, the waiting loop of `multi_process_demo.c` | values of cache items, logging |
| `MCSharedInval` | values of its constants for TLC | |
| `InvalLock` | the semaphore and the signal around the sections of `backend_process.h` | what the sections do, except `maxMsgNum++` |
| `InvalQueue` | `shared_inval_queue.h`, `backend.h`, `transaction.h`, `cache.h`, `invalidation_message.h` | values of cache entries, `dbId`, flags nobody reads |
| `MCInvalQueue` | values of its constants for TLC | |
| `TupleStore` | `tuplestore_demo.c` | bytes of tuples, `malloc` |
| `TupleQueue` | what a tuple store promises | |
| `Syslog` | `backend.c`, `syslogger.c` | bytes: a stream of cells |
| `Interrupts` | `pg_interrupt_demo.c` | output, time |
| `ResourceOwner` | `resource_owner.cpp`, the queries of `main.cpp` | kinds of resources |
| `PipeRing` | the circular buffer of `pipe_demo.c` | the loops over bytes (closed forms) |
| `ByteQueue` | what a pipe promises | |
| `PipeFifo` | `simulate_fifo` of `pipe_demo.c` | the kernel's pipe, the texts |
| `Acl` | `acl_demo/` | bits (sets of privileges), names, ids |
| `EquivClass` | `equivalence_class_demo.c` | relations beyond the test for a constant |
| `BTreeSearch` | `btree_search_demo.c` | where pages are kept |
| `OrFlatten` | `or_flatten.c`, `bool_expr.h` | addresses (paths of nodes) |
| `Exprs` | `expr_demo/` | doubles (a finite field) |
| `VarText` | `varlena.cpp` | `malloc`, bytes (values) |
| `MCDemos` | the eight modules above but `ByteQueue` side by side, with values of their constants for TLC | |
| `SharedInvalProofs`, `InvalLockProofs`, `InvalQueueProofs`, `TupleStoreProofs`, `ResourceOwnerProofs`, `SyslogProofs` | theorems about the module of that name | |
| `DemosProofs` | theorems about `PipeRing`, `PipeFifo`, `Acl`, `EquivClass`, `VarText` and `Interrupts` | |
| `TreesProofs` | theorems about `Exprs`, `BTreeSearch` and `OrFlatten` | |

Operators whose comment begins with "Mutant:" are not part of a model: each is a
broken version of the operator after it, and the property it belongs to is violated
when it takes that operator's place.

### SharedInval

The variables have the names of the struct members and globals; a flag of
`backends[]` is the set of the ids for which it is 1. A critical section is one step:
`AcceptLocked` is `accept_invalidation_messages` up to `sem_post` (`SkipToReset` or
`ReadUnread`), `ApplyBatch` and `ApplyReset` are the rest, so that everything else may
happen in between. `Commit` is `commit_transaction` with all of
`send_shared_invalidation_messages`: cleanup once, then marking laggards, then
publishing. The order matters and is kept: the threshold is looked at before the
messages of the commit are in the ring. `Register` leaves out the check of
`MAX_BACKENDS` because the code has none; the model stops at `MaxBackends`.

Two history variables state the main property. `intent` collects the entries that a
transaction's client declared stale, from the arguments and not from the messages;
at commit the valid entries among them, in all caches of the database, become
`owed`. `StaleIsCovered` says that an owed entry is always covered by a pending
reset, by a message read and not applied, or by one in the unread part of the ring.

### InvalLock

One process step per machine-level event: call and return of `sem_wait`, load and store
of `maxMsgNum++`, `kill`, the handler. It justifies the steps of `SharedInval`, with a
limit it makes explicit: the handler is installed without `SA_RESTART`, `sem_wait`
returns `EINTR` when it is interrupted, and nobody looks at the result. From then on two
processes may be inside. `ExclusiveUnlessInterrupted` is the exact statement. `Die` ends a
process anywhere: one that dies inside leaves the semaphore taken, the others wait for
ever and never see what it left half done.

### InvalQueue

Each method of `SharedInvalQueue` holds the mutex and is one step. `commitTransaction` is
`Commit`, which empties the transaction, and then one `Insert` per message;
`acceptInvalidationMessages` is `GetMessages` (as `Accept`, or as the first half of
`BeginTransaction`) and then `Apply`. What a backend has fetched is kept as a set,
since applying messages twice or in another order makes no difference to a cache. `dbId`
is left out because no code compares it: a message hits every backend.

`unread` is a history variable, the list of messages inserted since a backend's last
read; `UnreadKept` compares the vector with it. `intent` and `owed` are those of
`SharedInval`. `skipped` collects the owed entries whose messages a reset threw away.
`StaleIsCovered` leaves them out: in this code nothing invalidates them any more.

### TupleStore and TupleQueue

A tuple is the number of its put. File operations fail a bounded number of times,
everywhere the code calls one, including the `fflush` whose result nobody reads
(`WrittenOrLost`) and an `fseek` after `buffer_start` was set (`FillFails`). Two history
variables, `damaged` and `misplaced`, record the failures after which the code has lost
data or serves an old buffer; the invariants hold as long as they are false.
`strict` is chosen at the start: a strict client calls `get_next` only after a rescan, as
`main` does, and its files do not fail. For it `IsAQueue` maps the acknowledged tuples to
the stored sequence of `TupleQueue` and `read_pos` to its cursor; for the other client
the mapping is constant and only the invariants say something.

### Syslog

The pipe is a sequence of cells, two for the header of a chunk and one per unit of
payload, so that a read of `ReadSize` cells can end anywhere in a chunk. A read that
begins at a header takes that chunk and drops what follows it (`ReadChunk`); one that
begins in a payload is refused (`RejectRead`); one that begins at the high half of a
pid, two zero bytes for pids below 65536, passes the test of the header and adds junk
to the buffer of a pid that is none (`MisreadChunk`). Entries of `pending_chunks` are
never given back. `merged`, `torn` and `dropped` record the cases the properties exclude.

### Interrupts

`at` is the region main is in, `step` its loop counter, `phase` the statement of
`ProcessInterrupts`; `StatementCancelHandler` is enabled between any two of them.

### ResourceOwner

Owners are numbered in the order of construction. `Destroy` is the destructor with
its recursion; `RollbackToSavepoint` releases what the code releases, the siblings.

### PipeRing, ByteQueue and PipeFifo

Writer and reader of the buffer are the same process, so a call is one step. The slot
of byte `k` of a call is `k` places after the position, modulo the size; `IsAPipe` maps
the `data_size` bytes from `read_pos` on to the content of `ByteQueue`. `PipeFifo` has a
step per `write`, `read` and `close`. The kernel's part is external: a read waits, takes
all there is and sees the end of the file when the parent has closed.

### Acl

A mask of bits is a set, so that `&`, `|` and `& ~` are set operations. `ledger` is a
history variable, what each grantor has granted and not revoked. `HasPrivsOfRole`
carries the set of roles whose calls are under way; a call for one of them would never
return, and the answer is then "endless". The three files have two versions of `aclmask`,
which are `BasicAclMask` and `AclMask` over the same two passes `MaskOf`; `CollectDirect` and
`CollectIndirect` are the bodies of the loops. `RolesAnswer`
compares the recursion with the closure of the memberships (`IsMember`), `MasksAreUnions`
the passes with the union of all entries that apply.

### EquivClass

A class is its members in order and the numbers of its source clauses. Each of the five
disjuncts of `ProcessEquivalence` is a branch of the function. `bms_make_singleton` holds
128 relations: the attributes of `Far` have an empty set and count as constants, which
`IsConst` models. `OutputsFollow` and `OutputsSuffice` speak of rows, assignments of
values to attributes, so that they say what the planner needs: conditions that neither
lose rows nor let wrong ones pass. `OutputsSuffice` excepts exactly the clauses that were
skipped because their sides are in two classes, and those of classes with two constants.

### BTreeSearch

Moving right, starting, halving and going down are steps of their own. The demo has one
process and never changes a page. `Split` is external: it is what the comment of
`_bt_moveright` says the function is for, the split of a leaf between two reads of the
search. `FoundIsPosition` compares the result with the sequence of the keys of all the
leaves; `MatchIsHere` says exactly when the leaf found holds the key.

`InOrder` says which trees a search may be started on. The leaves form a row, `LeafRow`, that
the right links follow to its end; the keys of a page ascend; the high key of a leaf is the
first key of the next one; an internal page has one child more than it has keys, and what is
left of a child (of the first: left of its parent) has a high key that is not above the key
before it. `create_sample_tree` meets all of it, although it names block 10 twice in block 3.

### OrFlatten

A node is known by its path, so that equal subexpressions differ and `freed` and the list's
cells can be compared with the nodes of the tree. A tree is a function from paths to nodes
whose arguments are paths again, the pointers of the code (`IsTree`). `Gather` is the loop of
`pull_ors` over the arguments of one OR; `MCDemos` builds the trees for TLC from nodes inside
one another (`TreeOf`). Constants, which no test makes, would be leaves like variables. A list is the cells that can be reached, the
length field and whether there is a tail: enough to follow `list_concat` with an empty list,
which loses cells.

### Exprs

Each instruction is a step; the tree walk, the compilation and the heights are recursive
functions over `Trees`, the expressions with at most `Nesting` operators above an operand,
which `generate_random_expr` bounds in the same way. Numbers are those of the field
of `P` elements: operations are exact, as in the reference both evaluators are compared
with, and zero is the only zero divisor. `EvaluatorsAgree` also says where they differ.

### VarText

The header is computed modulo what its bytes hold. `content` is a history variable, the
bytes the text should have. Where a length does not fit, `Intact` becomes false and the
model stops, since the code would read outside of the text.

## Runs

All runs set `CHECK_DEADLOCK FALSE`: every program stops at a bound of the model or
because its clients have nothing more to do.

| run | shows | bounds and why they are enough |
|---|---|---|
| `SharedInval` | `MinIsBehindReaders`, `WindowBounds`, `UnreadFits`, `StaleIsCovered` | 2 backends, ring of 4, threshold step 2, 5 messages, 1 per transaction: the ring wraps, the cleanup runs with and without laggards, readers reset, writers exit |
| `SharedInvalLive` | `FlaggedCatchesUp`, `StaleIsCovered` for system cache messages | ring of 2, 2 messages, the cache id 127, the largest that fits its field |
| `InvalLock` | `ExclusiveUnlessInterrupted`, `TakenHasHolder` | 3 processes, 4 sections, 2 messages: one inside, one blocked and interrupted, one that profits; any of them dies |
| `InvalQueue` | `UnreadFits`, `UnreadKept`, `StaleIsCovered` | 2 backends, a vector of 2, 4 messages, transactions of up to 2 messages in the first backend and 1 in the second: the vector grows, wraps, stays full because of a marked backend; commits, reads and resets interleave |
| `TupleStore` | `ContentsKept` (with `ArrayFits`), `BufferMirrorsFile`, refinement of `TupleQueue` | doubling, limited growth and spill within 4 puts, 5 more through a buffer of 4; 3 failures fill the buffer and fail once more |
| `Syslog` | `StreamKept`, `LinesAreMessages`, `Delivered` | 3 processes, 2 slots, messages of one full chunk and of two chunks, pipe of two chunks |
| `Interrupts` | `CancelIsNoticed`, `CountersMatchRegions`, `SignalledQueryStops`, `ProtectedRegions`, `HeldCancelIsServed` | 3 signals; loops of 2 or 3 steps |
| `ResourceOwner` | `TreeConsistent`, `NothingOutlivesTransaction`, `EnclosingKeepTheirs` | 5 owners (two transactions, or depth 5), 3 resources |
| `Demos` | the fifteen properties of the eight small modules, one module moving at a time | see below |
| `SharedInvalWakeup` | violates `WaiterIsWoken` | |
| `SyslogMerged` | violates `NothingLost` | 2 processes, messages of one payload cell, a payload limit of 4, so that two chunks of 3 cells are what one read takes |
| `ResourceOwnerRollback` | violates `RollbackReleasesInner` | as `ResourceOwner` |

The types of `TupleStore`, `Syslog` and `ResourceOwner` are a conjunct of the first invariant
of their runs; those of the other large modules are theorems.

Bounds of `Demos`:

* `IsAPipe`: a buffer of 3 and calls of up to 4 bytes, so that a call fills the buffer,
  empties it, wraps and asks for more than there is. `ChildGetsAll`: 5 messages and 5
  reads, the code's numbers.
* `LedgerKept`, `RolesAnswer`, `MasksAreUnions`, `TableDecides`: 3 roles, one grantor, a table
  and a column, 3 entries and memberships together: a cycle of three, a chain of two
  with an entry at its end, two entries of one pair.
* `OutputsFollow`, `OutputsSuffice`: 3 attributes, one of them far, 2 constants, 3 clauses:
  two classes and a clause between them, a class with two constants. (For more, the theorems.)
* `FoundIsPosition`, `MatchIsHere`: the sample tree, 15 scan keys (keys, high keys, keys
  between, before and after), with and without `nextkey`, one split of any leaf at any time.
* `EvaluatorsAgree`, `StackSuffices`: all trees of up to 2 operators above an operand, over the
  field of 3, with a variable that is set, not set or has no room in the context.
* `FlattenKeepsMeaning`, `FlattenOwnsNodes`: all trees of ORs nested 3 deep with up to 2
  arguments, over a variable and an AND that holds another OR.
* `TextKept`: headers of 3 bits and of 5 in place of 8 and 32, texts of up to 7 bytes:
  both formats, their border, and texts too long for the long header.

The constants of the code (100 messages, half a ring, step 10, 10 tuples of buffer) are
parameters; the small values keep their proportions as far as a property depends on
them, and where it depends on more (`UnreadFits`) the condition is stated and proved
for all values (`RingSuffices`).

### Disagreements between code and documentation

Three runs end in a counterexample on purpose.

* `SharedInvalWakeup`: `signaled` is cleared only by a reset (`backend_process.h:148`), so
  a backend is signalled once in its life.
* `SyslogMerged`: one read fetches two short chunks and uses the first; the second message
  is dropped (`syslogger.c:125`). With longer chunks a read may also end inside the second
  one, and the next read begins in its middle: those steps are in `Syslog` too.
* `ResourceOwnerRollback`: a rollback releases the siblings of the savepoint instead of
  the savepoints created within it (`resource_owner.cpp:270`).

Others were met and have no run of their own. In `SharedInval` laggards are looked for
before a commit publishes, not after (`backend_process.h:290`), and a large commit
overwrites unread messages; with `TxMax = 3` on a ring of 4 TLC finds `UnreadFits`
violated, and `NoOverwrite` says from which size on. In `InvalQueue` a reset returns an
empty list, which `shared_inval_queue.h:96` says means a reset and `backend.h:88` takes
for no news, and a rollback does not process messages locally as `transaction.h:88` says.
A cache id of 128 is negative in its `int8_t` field and its message invalidates nothing
(`backend_process.h:401`): with such an id TLC finds `StaleIsCovered` violated. In `TupleStore`
a `get_next` without a rescan takes its tuple from the buffer although that holds tuples to be
written (line 460 of the program), and returns another one on file than in memory
(`tuplestore_design.md:10`).
Further: the interrupted `sem_wait` above;
`tuplestore_design.md:99` counts the memory of tuples, the code has those lines
commented out (lines 232, 353, 362 of the program); `pg_interrupt_demo/README.md:111-113` says an unprotected read from the frontend
is cancelled at once, while line 128 of the program puts that off; the check for leaks
at commit (`resource_owner.cpp:172`) can never warn.

In the smaller programs (all listed in `PROJECT.json`):

* `Acl`: the columns never decide a query that names one (`TableDecides`), though
  `pg_acl_demo_column_main.c:41` means to keep a role off a column.
* `EquivClass`: two classes are not merged (`README.md:145-151` of the demo), the clause that
  makes a class is not marked with it (`README.md:252`), and the message that a condition can
  be pushed down prints a word of a bit set as the relation.
* `BTreeSearch`: for a key that is a high key the search ends on the leaf before the one that
  holds it (`MatchIsHere`), against the comment at line 262 of the program and against
  `key_range_clarification.md:276-284`, which has `_bt_moveright` go right for a key equal to
  the high key; the sample output in the demo's README names a wrong block.
* `Exprs`: the evaluators differ where a divisor is zero (`expr_demo/TESTING.md:32`).
* `OrFlatten`: joining an empty list loses cells; `main.c:131` frees nodes that `pull_ors` freed.
* `VarText`: the "long" string of `main.cpp:23` still gets the short format.

## Fairness

* `SharedInval`: a pending signal is delivered; a call of `accept` that has left the
  section returns; a process whose flag is up polls it, as the waiting loop
  of `multi_process_demo.c` does once a second until it exits (the property allows for
  an exit, which also covers the first backend, whose script does not wait). Starting and committing
  transactions are not fair.
* `Syslog`: the main loop reads a readable pipe (`ReadChunk`, `RejectRead`), until `Stop`.
  Backends are not fair.
* `Interrupts`: the program runs on (`Main`); the user need not choose or signal anything.

The other specifications have safety properties only.

## Proofs

`SharedInvalProofs` proves for every number of backends, every ring, threshold step and
transaction size:

* `Typing`: `Spec => []TypeOK`.
* `MinStaysBehind`: `Spec => []MinIsBehindReaders`.
* `WindowIsBounded`: `Spec => []WindowBounds`. The inductive invariant is `IInv`, the
  conjunction of `TypeOK`, `MinIsBehindReaders` and `WindowBounds`. `WindowBounds` ties the lag of an unmarked
  reader to the growth of the window since the last cleanup; it is what makes the bound
  inductive: a cleanup establishes it for the readers it does not mark, a commit moves
  both sides by the same amount, a read moves the lag down.
* `NoOverwrite`: if `MaxMessages \div 2 + ThresholdStep - 1 + TxMax <= MaxMessages`
  (`RingSuffices`) then `Spec => []UnreadFits`. With the constants of the code that means
  transactions of at most 41 messages; the code allows 100.
* `CommitsReachEveryCache`: if moreover the lists of a transaction hold what its client
  registers (`TxMax <= ListMax`) and the cache ids it passes fit their `int8_t` field
  (`CommitsFit` is the three together), then `Spec => []StaleIsCovered`. Beyond each of the
  three the code does forget commits: messages are overwritten before they are read, dropped
  without an error when a list holds 100, or carry a negative id that no reader compares with
  (a cache id of 128 to 254; 255 even turns into the id that means a relation). The inductive
  invariant `CInv` adds to `IInv` that the two lists of a transaction invalidate all that its
  client declared stale (`IntentQueued`) and that unregistered slots have nothing in
  their caches and only a process inside `accept` has messages read and not applied (`Idle`).
  The hard step is a commit: it moves `priorCmd \o currentCmd` into the ring, and what is
  owed before it stays covered because it overwrites nothing that is unread.
* `CaughtUpIsFresh`: under the same conditions a backend that has read and applied all there
  is and is not to reset has no stale entry.

`InvalQueueProofs` proves, for every number of backends, every size of the vector and any
transactions:

* `Typing`: `Spec => []TypeOK`, with the vector never longer than `MaxMessages`.
* `LagIsBounded`: `Spec => []UnreadFits`. No condition on the sizes is needed here: the
  check precedes every single message, so that a backend the cleanup did not mark lags at
  most half the vector before the insertion (`InsertLag`), and `MaxMessages` after it.
* `NothingOverwritten`: `Spec => []UnreadKept`. `IInv` adds to the two invariants that
  `minMsgNum` is behind every reader, that the vector is as long as the number of messages
  until it is full, and that ids not given out have read nothing. An insertion writes
  the slot of `maxMsgNum`; by `SlotsDiffer` no unread message, less than `MaxMessages`
  older, is in that slot.
* `OnlyResetsLoseMessages`: if cache ids fit (`CacheIdsFit`) then `Spec => []StaleIsCovered`.
  Lists of any length are fine here. The induction runs over the history `unread` and not
  over the vector (`StaleIsPending`): for a backend that is to reset, part of the vector is
  overwritten, but `unread` still says what the reset will skip. `NothingOverwritten` turns
  it into a statement about the vector.

`InvalLockProofs` proves `Typing`, `LockWorksUninterrupted` and `NobodyWaitsInVain`
(`TakenHasHolder`) for any set of processes. The invariant of the second says that, while
no wait was interrupted, the semaphore is 0 or 1 and is 1 only when nobody is inside or
died there, that at most one process is inside or died there, that a value it has
loaded still equals `maxMsgNum`, and that `maxMsgNum` counts every store.

About `Interrupts`, `DemosProofs` proves, for any lengths of the loops and any number of signals, `Typing`,
`NothingLostBetweenFlags` (`CancelIsNoticed`), `CountersBalanced` (`CountersMatchRegions`),
`SignalStopsQuery` (`SignalledQueryStops`) and `RegionsProtected` (the action property
`ProtectedRegions`). Its invariant adds where main can be when it is inside
`ProcessInterrupts` (`Places`), that nobody is past the test of the counters in a region that
raises one (`Passed`), and that a query signalled in time still has a pending cancel and has
not passed its last check (`Aimed`).

`TupleStoreProofs` proves, for any limit of memory, any sizes, any buffer of at least 3
tuples and any bound on puts and failures, `ContentsSurvive` (`ContentsKept`),
`ArrayIsNotOverrun` (`ArrayFits`), `BufferIsCurrent` (`BufferMirrorsFile`) and `StoreIsAQueue`
(`IsAQueue`, the refinement of `TupleQueue`). With less than 3 tuples in a buffer the flush
threshold would not be above 1. `ArrayFits`, a conjunct of `ContentsKept`, is inductive with the types: growth adds at least
one place and takes no more than the limit leaves, because a quotient times its divisor does
not exceed the dividend (`QuotientBelow`).
The inductive invariant of the others adds to the order of the contents and to `BufferMirrorsFile` that tuples are in memory or on file but never
in both and that write mode comes with something to write (`OnePlace`), without which a flush
could drop what is pending. For the strict client it adds that nothing is damaged or misplaced, that the
buffer stays below the threshold, and that it is in read mode from a rescan to the next
put (`Steady`): then what is read through the buffer is `file[read_pos + 1]`, and the file is
all there is.

`ResourceOwnerProofs` proves, for any number of owners and resources, `Consistent`
(`TreeConsistent`), `TransactionsEndClean` (`NothingOutlivesTransaction`) and
`EnclosingOwnersKeep` (the action property `EnclosingKeepTheirs`). Everything rests on what the
recursion of the destructor visits. `Subtree` is a recursive function over the numbers of
owners; `BelowIsReach` shows that the function exists, because a child has a larger number
than its parent, and that it is the least set that holds the owner and the children of its
members. The invariant `RInv` adds to `TreeConsistent` that parents come before children
(`Shape`), that the top owner is the only live one without a parent (`Rooted`), from which follows
that the live owners are those below it, and that no other owner holds anything (`OnlyLiveHold`).

`SyslogProofs` proves, for any processes, slots, sizes of chunks and of the pipe, and messages
of any length, `StreamIsKept` (`StreamKept`) and `LinesAreWhole` (`LinesAreMessages`). The
invariant `SInv` describes the pipe as chunks, each a header and as many cells as it says
(`Chunks`), ties the place of the next read to the start of one while no read took more than
one (`Aligned`), says what a process that is between two chunks has still to write
(`Unsent`) and what a pending buffer holds (`Pending`), and that the log, the pending buffer
and the pipe together are, in this order, what a process has written (`Accounted`). A line is
whole because within a process the cells are in order (`Ordered`) and a buffer is logged
exactly when the last chunk of its message arrives (`WholeLines`). Most of the proof is about
sequences: what selecting a pid's payload from the stream does to appended, dropped and
concatenated cells.

`DemosProofs` also has the theorems about these small modules.

* Pipe. For every size of the buffer and calls of any length, `PipeTyping`,
  `CounterIsDistance` (the counter is the distance of the positions) and `RingIsAPipe`: the
  buffer implements `ByteQueue`. The step that carries it: within one turn of the circle
  different offsets from a position are different slots, so what a write stores is not
  among the bytes held, and what a read leaves stands where it stood. `EnoughReads`: if
  `Reads >= Messages`, which holds in the code (5 and 5), `ChildGetsAll` is an invariant; each
  read takes at least one message.
* Access control lists. For any roles, grantors, columns and masks, `AclTyping` and
  `ListsFollowGrants` (`LedgerKept`). With the types `LedgerKept` is inductive: a pair without an
  entry has nothing granted, so a new entry may hold just what the call grants; a grant or
  revoke changes the first entry of a pair, which is of no other pair, and the ledger alike.
  The other three follow from the types, in every state. `SearchAnswersRight` (`RolesAnswer`):
  the recursion is a function because each call has one more role under way and there are
  finitely many (`SearchExists`, `CallInduction`); by the same induction an answer "yes" has a
  chain of memberships behind it, "no" rules one out, and below "endless" every role under way
  is above the one that is met again (`Chain`). `LoopsFindUnions` (`MasksAreUnions`): after
  each entry the result is enough, or it holds all that the entries so far give
  (`DirectFinds`, `AllFinds`). `TableListDecides` (`TableDecides`): a mask is never more than
  what was asked for.
* Equivalence classes. For any attributes, constants and clauses in any order, `EquivTyping`,
  `Disjoint` (no item in two classes), `MarksRight`, `ConditionsFollow` (`OutputsFollow`) and
  `ConditionsSuffice` (`OutputsSuffice`). The invariant: classes are disjoint, the clauses a class
  has as sources are about its members, and members of a class are equal in every row the
  clauses let pass. A new member is equal to the one it came with because its clause is
  one of the clauses; the conditions suffice because every member is compared with the
  class's constant or, in a class without one, with every other member.
* Texts. `TextsAreKept` (`TextKept`), for texts of any length and headers of any width that is
  a multiple of 4 and leaves the long format room above the border: doubling or quadrupling a
  size and reading it back is exact as long as the size fits, and both operations decide the
  format anew from the new size.

`TreesProofs` has those about the demos that work on trees.

* Evaluators. For any `Nesting`, constants, assignments and sizes of the context:
  `BothEvaluatorsAgree` (`EvaluatorsAgree`) and `StackIsLow` (`StackSuffices`).
  `Nodes` is a recursion over numbers, the other functions are recursions over trees that
  exist because an operator's operands are one level below it (`TreeRecursion`). The lemma
  that carries the proof, `AlwaysDoes`, is about any stack: the instructions of a tree, executed
  on it, push the value of the tree and leave what is below alone, or stop at a division by
  zero when the tree has one, and the stack never rises by more than `Height + 1`. The
  invariant `ExprInv` says that the state is the one after some number of instructions.
* B-tree search. For any tree in order, any root that is no page's right neighbour, any scan
  keys and any number of splits: `SearchFindsPosition` (`FoundIsPosition`) and
  `SearchFindsMatch` (`MatchIsHere`). The invariant `SearchInv` says that the key is beyond the
  high key of the left neighbour of the current page (`Reached`), that it is beyond the slots
  before `low` and not beyond those from `high` on (`Halved`), and that the pages are in order
  (`Ordered`), for which a split is shown to keep each part of `InOrder`: the new leaf takes the
  place after the old one in the row. When the search ends, all keys of the leaves before are
  not above a high key the scan key is beyond, and those of the leaves after are not below
  one it is not beyond; `KeysFrom` lists them in this order.
* OR trees. For any set of trees of any depth and width: `FlatteningKeepsMeaning`
  (`FlattenKeepsMeaning`) and `FlatteningOwnsNodes` (`FlattenOwnsNodes`). By induction from the
  deepest nodes up, the list of an OR holds the first nodes that are no ORs on the paths below
  it (`Tops`), in the order of their paths, and its length and tail are right, while the nodes
  freed are the ORs above them (`OnlyOrs`). An OR has the truth value of the OR of its `Tops`
  because OR is associative in SQL's logic too; each node is below exactly one of the
  `Tops` or freed because a path has one first node that is no OR.

The assumptions are the `ASSUME`s of the modules: sizes are naturals, the ring and the
threshold step are not zero, the buffer of the tuple store has room for 3, keys are naturals,
there are finitely many roles, and the header of a long text holds a multiple of 4 that is more
than four times the border of the formats (2^32 and 127 in the code). Numbers other than zero divide
every number modulo `P`, which makes `P` a prime; the pages that a search starts on are in order
(`InOrder`) and the mark of a missing neighbour is the number of no page (0xFFFFFFFF in the
code); each of the OR trees is a tree (`IsTree`). TLC evaluates the assumptions in every run of
their modules. Conditions that the code does not enforce (`RingSuffices`, `CommitsFit`,
`CacheIdsFit`, `Reads >= Messages`) are hypotheses of the theorems that need them, each satisfied
by the constants of the run that checks the property.

Out of the prover's reach and left to TLC: liveness (`FlaggedCatchesUp`, `Delivered`,
`HeldCancelIsServed`) and `ENABLED`. Recursive functions are within it: `Subtree`, `PayloadOf`, the
search of `HasPrivsOfRole`, the loops of `MaskOf` and `Gather`, and the functions over trees are
shown to exist and to do what they should by induction over the numbers up to a bound, as a
statement about the set of numbers for which it holds (`UpTo`). `OrNodes`, `PathsIn` and `NodeAt`
of `MCDemos`, which only build an instance for TLC, are recursive operators and nothing is
proved about them.

Each invariant, safety action property and refinement of a passing run is a theorem. Only
model-checked: the three liveness properties above.

## Not modelled

* Failures of `malloc`, and what a program does with memory it has freed or freed twice: the
  models say who owns what and stop there.
* Formatting, printing, timing, names longer than their fields.
* Creation and removal of the shared memory, the menu that forks the backends, writes beyond
  `MAX_BACKENDS`, `maxMsgNum` beyond an `int`: the code does nothing about them, and no state
  after them means anything.
* Splits of internal pages of the B-tree: the demo has no insertion that could put the new
  page into its parent.
* Rounding of doubles, infinities.
* Overflow where the B-tree search subtracts keys to compare them (lines 159 and 234 of the
  program): the model compares the keys, as the subtraction does while it fits an `int`.

## What is left

Nothing of the safety properties. The three liveness properties rest on the bounds of their
runs, and the models end where the list above says.
