-------------------------------- MODULE Syslog --------------------------------
(***************************************************************************)
(* src/syslog_demo: backends cut log messages into chunks and write them to *)
(* a named pipe; the syslogger reads the pipe, collects the chunks of each  *)
(* process and appends complete messages to the log file.                   *)
(*                                                                          *)
(* The pipe is a stream of cells.  A chunk takes two cells for its header   *)
(* ("head": nuls, len and the low half of pid; "tail": the high half of pid *)
(* and is_last) and one per unit of payload.  A write is atomic; a read     *)
(* takes up to sizeof(PipeProtoChunk) cells, wherever chunks begin and end. *)
(***************************************************************************)
EXTENDS Integers, Sequences, FiniteSets

CONSTANTS
  Procs,            \* pids of the backends
  OtherPid,         \* a pid read out of bytes that are not a pid
  PIPE_MAX_PAYLOAD, \* payload cells of a full chunk
  MAX_PENDING_CHUNKS,
  PipeSize,         \* cells the pipe holds
  Lengths,          \* lengths of messages
  MaxSent           \* bound: messages sent in a behaviour

ASSUME SyslogAssumption ==
  /\ OtherPid \notin Procs
  /\ PIPE_MAX_PAYLOAD \in Nat \ {0}
  /\ MAX_PENDING_CHUNKS \in Nat
  /\ PipeSize \in Nat /\ MaxSent \in Nat
  /\ Lengths \subseteq Nat \ {0}

Pids == Procs \cup {OtherPid}

HeaderCells == 2
ReadSize == HeaderCells + PIPE_MAX_PAYLOAD

Part(p, msg, i, n) == [kind |-> "data", pid |-> p, msg |-> msg, part |-> i, of |-> n]
Text(p, msg, n) == [i \in 1 .. n |-> Part(p, msg, i, n)]

\* what a misread chunk adds to a message
Junk == Part(OtherPid, 0, 1, 1)

Header(p, len, last) ==
  << [kind |-> "head", pid |-> p, len |-> len, last |-> last],
     [kind |-> "tail"] >>

Parts == {Junk} \cup UNION {
  {Part(p, msg, i, n) : i \in 1 .. n} :
    p \in Procs, msg \in 1 .. MaxSent, n \in Lengths }

VARIABLES
  pipe,     \* the cells in the pipe
  toSend,   \* what a process has left to write of its message
  sent,     \* messages begun so far
  slots,    \* pids in pending_chunks, whose entries are never given back
  buffer,   \* what pending_chunks holds for a pid
  log,      \* the messages in the log file
  running,
  written,  \* history: all payload a pid wrote to the pipe
  merged,   \* history: a read took more than the chunk it began with
  torn,     \* history: pids that gave up a message after its first chunk
  dropped   \* history: pids a chunk of which found no free slot

senders == <<toSend, sent, written, torn>>
reader == <<slots, buffer, log, merged, dropped>>
vars == <<pipe, senders, reader, running>>

Init ==
  /\ pipe = <<>>
  /\ toSend = [p \in Procs |-> <<>>]
  /\ sent = 0
  /\ slots = {} /\ buffer = [p \in Pids |-> <<>>]
  /\ log = <<>>
  /\ running = TRUE
  /\ written = [p \in Procs |-> <<>>]
  /\ merged = FALSE /\ torn = {} /\ dropped = {}

-----------------------------------------------------------------------------
(* A backend: send_log_message and write_pipe_chunks.                       *)

SendMessage(p) ==
  /\ toSend[p] = <<>> /\ sent < MaxSent
  /\ sent' = sent + 1
  /\ \E n \in Lengths : toSend' = [toSend EXCEPT ![p] = Text(p, sent', n)]
  /\ UNCHANGED <<pipe, written, torn, reader, running>>

\* Mutant: a message of one full payload gets no last chunk.
IsLastOffByOne(len) == len < PIPE_MAX_PAYLOAD

\* Mutant: every chunk is marked as the last one.
IsLastAlways(len) == TRUE

IsLast(len) == len <= PIPE_MAX_PAYLOAD

\* write() of one chunk; it blocks while the pipe has no room for all of it
WriteChunk(p) ==
  /\ running /\ toSend[p] # <<>>
  /\ LET text == toSend[p]
         last == IsLast(Len(text))
         len == IF Len(text) <= PIPE_MAX_PAYLOAD THEN Len(text)
                ELSE PIPE_MAX_PAYLOAD
     IN  /\ Len(pipe) + HeaderCells + len <= PipeSize
         /\ pipe' = pipe \o Header(p, len, last) \o SubSeq(text, 1, len)
         /\ written' = [written EXCEPT ![p] = @ \o SubSeq(text, 1, len)]
         /\ toSend' = [toSend EXCEPT ![p] = SubSeq(text, len + 1, Len(text))]
  /\ UNCHANGED <<sent, torn, reader, running>>

\* A write fails or the process dies: the rest of the message is not sent.  A
\* later message of this pid may be that of a new process.
GiveUp(p) ==
  /\ toSend[p] # <<>>
  /\ toSend' = [toSend EXCEPT ![p] = <<>>]
  /\ torn' = IF toSend[p][1].part > 1 THEN torn \cup {p} ELSE torn
  /\ UNCHANGED <<pipe, sent, written, reader, running>>

-----------------------------------------------------------------------------
(* The syslogger: process_pipe_input, one read each.                        *)

Taken == IF Len(pipe) < ReadSize THEN Len(pipe) ELSE ReadSize
Front == pipe[1]

Read ==
  /\ running /\ pipe # <<>>
  /\ pipe' = SubSeq(pipe, Taken + 1, Len(pipe))

\* find_or_create_pending_chunk(pid) does not return NULL
HasSlot(pid) == pid \in slots \/ Cardinality(slots) < MAX_PENDING_CHUNKS

\* Mutant: the buffer keeps the message that was logged.
BufferKept(text, last) == text

\* what is left in the buffer: process_complete_message resets it
BufferAfter(text, last) == IF last THEN <<>> ELSE text

Collect(pid, payload, last) ==
  LET text == buffer[pid] \o payload
  IN  /\ slots' = slots \cup {pid}
      /\ log' = IF last THEN Append(log, text) ELSE log
      /\ buffer' = [buffer EXCEPT ![pid] = BufferAfter(text, last)]

\* The read begins with a chunk.  The cells behind that chunk are not used.
ReadChunk ==
  /\ Read
  /\ Front.kind = "head"
  /\ merged' = (merged \/ Taken > HeaderCells + Front.len)
  /\ IF HasSlot(Front.pid)
     THEN /\ Collect(Front.pid,
                     SubSeq(pipe, HeaderCells + 1, HeaderCells + Front.len),
                     Front.last)
          /\ UNCHANGED dropped
     ELSE /\ dropped' = dropped \cup {Front.pid}
          /\ UNCHANGED <<slots, buffer, log>>
  /\ UNCHANGED <<senders, running>>

\* the first two bytes are not zero: "invalid protocol header"
RejectRead ==
  /\ Read
  /\ Front.kind # "head"
  /\ UNCHANGED <<senders, reader, running>>

\* The two zero bytes are the high half of a small pid: text is taken for len,
\* pid and is_last, and what follows on the stack for payload.
MisreadChunk ==
  /\ Read
  /\ Front.kind = "tail"
  /\ IF HasSlot(OtherPid)
     THEN \E last \in BOOLEAN : Collect(OtherPid, <<Junk>>, last)
     ELSE UNCHANGED <<slots, buffer, log>>
  /\ UNCHANGED <<senders, merged, dropped, running>>

\* SIGINT or SIGTERM: the main loop ends, cleanup frees what is pending
Stop ==
  /\ running
  /\ running' = FALSE
  /\ slots' = {} /\ buffer' = [p \in Pids |-> <<>>]
  /\ UNCHANGED <<pipe, senders, log, merged, dropped>>

Next ==
  \/ \E p \in Procs : SendMessage(p) \/ WriteChunk(p) \/ GiveUp(p)
  \/ ReadChunk \/ RejectRead \/ MisreadChunk \/ Stop

\* select() reports a readable pipe and the main loop reads it
Fairness == WF_vars(ReadChunk) /\ WF_vars(RejectRead)

Spec == Init /\ [][Next]_vars /\ Fairness
-----------------------------------------------------------------------------
(* Properties.                                                              *)

TypeOK ==
  /\ \A i \in DOMAIN pipe :
       \/ pipe[i] \in Parts
       \/ pipe[i] = [kind |-> "tail"]
       \/ pipe[i] \in [kind : {"head"}, pid : Procs,
                       len : 1 .. PIPE_MAX_PAYLOAD, last : BOOLEAN]
  /\ Len(pipe) <= PipeSize
  /\ toSend \in [Procs -> Seq(Parts)] /\ written \in [Procs -> Seq(Parts)]
  /\ sent \in 0 .. MaxSent
  /\ slots \subseteq Pids /\ Cardinality(slots) <= MAX_PENDING_CHUNKS
  /\ buffer \in [Pids -> Seq(Parts)]
  /\ \A i \in DOMAIN log : log[i] \in Seq(Parts)
  /\ running \in BOOLEAN /\ merged \in BOOLEAN
  /\ torn \subseteq Procs /\ dropped \subseteq Procs

Concat(texts) ==
  LET upTo[i \in 0 .. Len(texts)] ==
        IF i = 0 THEN <<>> ELSE upTo[i - 1] \o texts[i]
  IN  upTo[Len(texts)]

IsOf(p, cell) == cell.kind = "data" /\ cell.pid = p

PayloadOf(p, cells) ==
  LET upTo[i \in 0 .. Len(cells)] ==
        IF i = 0 THEN <<>>
        ELSE IF IsOf(p, cells[i]) THEN Append(upTo[i - 1], cells[i])
        ELSE upTo[i - 1]
  IN  upTo[Len(cells)]

IsWhole(text) ==
  /\ text # <<>>
  /\ text = Text(text[1].pid, text[1].msg, text[1].of)

\* What a process wrote is what was logged, then what is pending for it, then
\* what is in the pipe.
Accounted(p) ==
  written[p] = PayloadOf(p, Concat(log)) \o buffer[p] \o PayloadOf(p, pipe)

\* As long as every read finds a single chunk, no payload is lost, repeated or
\* reordered between a process and the log, unless it found no slot; and no
\* more slots are given out than there are.
StreamKept ==
  /\ TypeOK
  /\ running /\ ~merged => \A p \in Procs \ dropped : Accounted(p)

\* As long as every read finds a single chunk, a line of the log is one message
\* of one process, whatever the chunks of other processes interleave with,
\* unless the pid once gave up in the middle of a message.
LinesAreMessages ==
  ~merged => \A i \in DOMAIN log :
    log[i] = <<>> \/ log[i][1].pid \in torn \/ IsWhole(log[i])

\* "The syslogger process reads log messages from the pipe, reassembles the
\* messages that were cut into chunks and writes them to the log file"
\* (DESIGN.md:37): no message is lost on the way, however the reads fall.
NothingLost == running => \A p \in Procs \ dropped : Accounted(p)

IsEndOf(msg, cell) == cell.msg = msg /\ cell.part = cell.of

WrittenBy(p, msg) == \E i \in DOMAIN written[p] : IsEndOf(msg, written[p][i])

Logged(msg) ==
  \E i \in DOMAIN log : \E j \in DOMAIN log[i] : IsEndOf(msg, log[i][j])

\* What a process finished writing is logged in the end, unless reads merged
\* chunks, the process found no slot or the syslogger stopped.
Delivered ==
  \A msg \in 1 .. MaxSent :
    (\E p \in Procs : WrittenBy(p, msg))
      ~> (\/ Logged(msg) \/ merged \/ ~running
          \/ \E p \in dropped : WrittenBy(p, msg))
=============================================================================
