------------------------------ MODULE Interrupts ------------------------------
(***************************************************************************)
(* src/pg_interrupt_demo/pg_interrupt_demo.c: a SIGINT handler that only    *)
(* sets flags, a main program that looks at them in CHECK_FOR_INTERRUPTS,   *)
(* and three counters that hold interrupts back.                            *)
(*                                                                          *)
(* The handler runs to its end between any two statements of main, so it is *)
(* one step; ProcessInterrupts is one step per flag it reads or writes.     *)
(* Nothing ever sets ProcDiePending, whose branch is left out.              *)
(***************************************************************************)
EXTENDS Integers

CONSTANTS
  TotalSteps,   \* steps of a query
  ReadSteps,    \* parts of a frontend message
  CommitSteps,  \* steps of a commit
  MaxSignals    \* bound: SIGINTs

ASSUME StepsAssumption ==
  /\ TotalSteps \in Nat /\ ReadSteps \in Nat /\ CommitSteps \in Nat
  /\ MaxSignals \in Nat

VARIABLES
  InterruptPending, QueryCancelPending,
  InterruptHoldoffCount, QueryCancelHoldoffCount, CritSectionCount,
  QueryRunning, ReadingFromFrontend, InTransaction,
  at,      \* the part of the program main is in
  step,    \* iterations of its loop begun (QueryProgress in a query)
  phase,   \* "work", "check" (the iteration's work is done), or where it is in
           \* ProcessInterrupts: "entered", "cleared", "cancel"
  second,  \* demo 1 has read from the frontend and is in its second query
  signals, \* SIGINTs so far
  aimed    \* history: one arrived in this query before its last check

flags == <<InterruptPending, QueryCancelPending>>
counts == <<InterruptHoldoffCount, QueryCancelHoldoffCount, CritSectionCount>>
modes == <<ReadingFromFrontend, InTransaction>>
vars == <<flags, counts, QueryRunning, modes, at, step, phase, second, signals,
          aimed>>

Init ==
  /\ InterruptPending = FALSE /\ QueryCancelPending = FALSE
  /\ InterruptHoldoffCount = 0 /\ QueryCancelHoldoffCount = 0
  /\ CritSectionCount = 0
  /\ QueryRunning = FALSE
  /\ ReadingFromFrontend = FALSE /\ InTransaction = FALSE
  /\ at = "menu" /\ step = 0 /\ phase = "work" /\ second = FALSE
  /\ signals = 0 /\ aimed = FALSE

-----------------------------------------------------------------------------
(* StatementCancelHandler.                                                  *)

QueryOver == ~QueryRunning \/ step >= TotalSteps

StatementCancelHandler ==
  /\ at # "exited" /\ signals < MaxSignals
  /\ signals' = signals + 1
  /\ InterruptPending' = TRUE /\ QueryCancelPending' = TRUE
  /\ aimed' = (aimed \/ (at = "query" /\ ~(phase = "work" /\ QueryOver)))
  /\ UNCHANGED <<counts, QueryRunning, modes, at, step, phase, second>>

-----------------------------------------------------------------------------
(* CHECK_FOR_INTERRUPTS and ProcessInterrupts.                              *)

\* Mutant: InterruptHoldoffCount is not looked at.
CanProcessInCommits == CritSectionCount = 0 /\ QueryCancelHoldoffCount = 0

INTERRUPTS_CAN_BE_PROCESSED ==
  /\ InterruptHoldoffCount = 0
  /\ CritSectionCount = 0
  /\ QueryCancelHoldoffCount = 0

Check ==
  /\ phase = "check"
  /\ phase' = IF InterruptPending THEN "entered" ELSE "work"
  /\ UNCHANGED <<flags, counts, QueryRunning, modes, at, step, second, signals,
                 aimed>>

\* Mutant: a held interrupt is forgotten.
EnterForgetful ==
  /\ phase = "entered"
  /\ InterruptPending' = FALSE
  /\ phase' = IF INTERRUPTS_CAN_BE_PROCESSED THEN "cleared" ELSE "work"
  /\ UNCHANGED <<QueryCancelPending, counts, QueryRunning, modes, at, step,
                 second, signals, aimed>>

Enter ==
  /\ phase = "entered"
  /\ IF INTERRUPTS_CAN_BE_PROCESSED
     THEN InterruptPending' = FALSE /\ phase' = "cleared"
     ELSE UNCHANGED InterruptPending /\ phase' = "work"
  /\ UNCHANGED <<QueryCancelPending, counts, QueryRunning, modes, at, step,
                 second, signals, aimed>>

\* if (QueryCancelPending): put off while reading from the frontend
TestCancel ==
  /\ phase = "cleared"
  /\ InterruptPending' =
       (InterruptPending \/ (QueryCancelPending /\ ReadingFromFrontend))
  /\ phase' = IF QueryCancelPending /\ ~ReadingFromFrontend THEN "cancel"
              ELSE "work"
  /\ UNCHANGED <<QueryCancelPending, counts, QueryRunning, modes, at, step,
                 second, signals, aimed>>

\* Mutant: the query is not told to stop.
CancelKeepsRunning ==
  /\ phase = "cancel"
  /\ QueryCancelPending' = FALSE
  /\ phase' = "work"
  /\ UNCHANGED <<InterruptPending, counts, QueryRunning, modes, at, step, second,
                 signals, aimed>>

Cancel ==
  /\ phase = "cancel"
  /\ QueryCancelPending' = FALSE
  /\ QueryRunning' = FALSE
  /\ phase' = "work"
  /\ UNCHANGED <<InterruptPending, counts, modes, at, step, second, signals,
                 aimed>>

-----------------------------------------------------------------------------
(* The program: menu, ExecuteQuery, ReadFromFrontend,                       *)
(* SimulateTransactionCommit, SimulateWALWrite.                             *)

Limit ==
  CASE at = "query" -> TotalSteps
    [] at \in {"read", "readHeld"} -> ReadSteps
    [] at \in {"commit", "commitHeld"} -> CommitSteps
    [] at \in {"wal", "walCrit"} -> 1
    [] OTHER -> 0

\* the rest of main's step: it goes to the beginning of a part
Goto(part) == at' = part /\ step' = 0 /\ phase' = "work"

Keep == UNCHANGED <<flags, signals>>

\* an iteration up to its CHECK_FOR_INTERRUPTS
Work ==
  /\ phase = "work" /\ step < Limit
  /\ at = "query" => QueryRunning
  /\ step' = step + 1 /\ phase' = "check"
  /\ Keep
  /\ UNCHANGED <<counts, QueryRunning, modes, at, second, aimed>>

StartQuery(isSecond) ==
  /\ QueryRunning' = TRUE /\ aimed' = FALSE
  /\ second' = isSecond
  /\ Goto("query")

Choose ==
  /\ at = "menu"
  /\ \/ StartQuery(FALSE) /\ UNCHANGED <<counts, modes>>
     \/ /\ Goto("commit") /\ InTransaction' = TRUE
        /\ UNCHANGED <<counts, QueryRunning, ReadingFromFrontend, second, aimed>>
     \/ /\ Goto("wal")
        /\ UNCHANGED <<counts, QueryRunning, modes, second, aimed>>
     \/ /\ Goto("walCrit")
        /\ CritSectionCount' = CritSectionCount + 1
        /\ UNCHANGED <<InterruptHoldoffCount, QueryCancelHoldoffCount,
                       QueryRunning, modes, second, aimed>>
     \/ /\ Goto("exited")
        /\ UNCHANGED <<counts, QueryRunning, modes, second, aimed>>
  /\ Keep

QueryReturns ==
  /\ at = "query" /\ phase = "work" /\ QueryOver
  /\ IF second THEN Goto("menu") /\ UNCHANGED ReadingFromFrontend
     ELSE Goto("read") /\ ReadingFromFrontend' = TRUE
  /\ Keep
  /\ UNCHANGED <<counts, QueryRunning, InTransaction, second, aimed>>

\* HOLD_CANCEL_INTERRUPTS, and the message is read again
HoldRead ==
  /\ at = "read" /\ phase = "work" /\ step = ReadSteps
  /\ QueryCancelHoldoffCount' = QueryCancelHoldoffCount + 1
  /\ Goto("readHeld")
  /\ Keep
  /\ UNCHANGED <<InterruptHoldoffCount, CritSectionCount, QueryRunning, modes,
                 second, aimed>>

\* RESUME_..._INTERRUPTS
Resume(count) == IF count > 0 THEN count - 1 ELSE 0

\* the regions end with a check of their own
GotoCheck(part) == at' = part /\ step' = 0 /\ phase' = "check"

\* Mutant: the region ends without RESUME_CANCEL_INTERRUPTS.
ReadReturnsHeld ==
  /\ at = "readHeld" /\ phase = "work" /\ step = ReadSteps
  /\ ReadingFromFrontend' = FALSE
  /\ GotoCheck("readDone")
  /\ Keep
  /\ UNCHANGED <<counts, QueryRunning, InTransaction, second, aimed>>

ReadReturns ==
  /\ at = "readHeld" /\ phase = "work" /\ step = ReadSteps
  /\ QueryCancelHoldoffCount' = Resume(QueryCancelHoldoffCount)
  /\ ReadingFromFrontend' = FALSE
  /\ GotoCheck("readDone")
  /\ Keep
  /\ UNCHANGED <<InterruptHoldoffCount, CritSectionCount, QueryRunning,
                 InTransaction, second, aimed>>

SecondQuery ==
  /\ at = "readDone" /\ phase = "work"
  /\ StartQuery(TRUE)
  /\ Keep /\ UNCHANGED <<counts, modes>>

\* HOLD_INTERRUPTS, and the transaction is committed again
HoldCommit ==
  /\ at = "commit" /\ phase = "work" /\ step = CommitSteps
  /\ InterruptHoldoffCount' = InterruptHoldoffCount + 1
  /\ Goto("commitHeld")
  /\ Keep
  /\ UNCHANGED <<QueryCancelHoldoffCount, CritSectionCount, QueryRunning, modes,
                 second, aimed>>

CommitReturns ==
  /\ at = "commitHeld" /\ phase = "work" /\ step = CommitSteps
  /\ InterruptHoldoffCount' = Resume(InterruptHoldoffCount)
  /\ InTransaction' = FALSE
  /\ GotoCheck("commitDone")
  /\ Keep
  /\ UNCHANGED <<QueryCancelHoldoffCount, CritSectionCount, QueryRunning,
                 ReadingFromFrontend, second, aimed>>

BackToMenu ==
  /\ at = "commitDone" /\ phase = "work"
  /\ Goto("menu")
  /\ Keep
  /\ UNCHANGED <<counts, QueryRunning, modes, second, aimed>>

\* The second iteration of SimulateWALWrite calls ReportError: the counters are
\* reset, then the process exits in a critical section and jumps out of the
\* function otherwise.
ReportError ==
  /\ at \in {"wal", "walCrit"} /\ phase = "work" /\ step = 1
  /\ InterruptHoldoffCount' = 0 /\ QueryCancelHoldoffCount' = 0
  /\ Goto(IF CritSectionCount > 0 THEN "exited" ELSE "menu")
  /\ Keep
  /\ UNCHANGED <<CritSectionCount, QueryRunning, modes, second, aimed>>

Main ==
  \/ Work \/ Check \/ Enter \/ TestCancel \/ Cancel
  \/ QueryReturns \/ HoldRead \/ ReadReturns \/ SecondQuery
  \/ HoldCommit \/ CommitReturns \/ BackToMenu \/ ReportError

Next == StatementCancelHandler \/ Choose \/ Main

\* the program runs on; the user need not choose anything
Spec == Init /\ [][Next]_vars /\ WF_vars(Main)
-----------------------------------------------------------------------------
(* Properties.                                                              *)

TypeOK ==
  /\ InterruptPending \in BOOLEAN /\ QueryCancelPending \in BOOLEAN
  /\ InterruptHoldoffCount \in Nat /\ QueryCancelHoldoffCount \in Nat
  /\ CritSectionCount \in Nat
  /\ QueryRunning \in BOOLEAN
  /\ ReadingFromFrontend \in BOOLEAN /\ InTransaction \in BOOLEAN
  /\ at \in {"menu", "query", "read", "readHeld", "readDone", "commit",
             "commitHeld", "commitDone", "wal", "walCrit", "exited"}
  /\ step \in Nat /\ step <= Limit
  /\ phase \in {"work", "check", "entered", "cleared", "cancel"}
  /\ second \in BOOLEAN /\ signals \in 0 .. MaxSignals /\ aimed \in BOOLEAN

\* A cancel request is never lost between the two flags, at whatever statement
\* of ProcessInterrupts the signal arrives: the next check will see it.
CancelIsNoticed ==
  QueryCancelPending => InterruptPending \/ phase \in {"cleared", "cancel"}

\* A counter is up exactly inside its region, also after an error that jumps
\* out of a function.
CountersMatchRegions ==
  at # "exited" =>
    /\ InterruptHoldoffCount = IF at = "commitHeld" THEN 1 ELSE 0
    /\ QueryCancelHoldoffCount = IF at = "readHeld" THEN 1 ELSE 0
    /\ CritSectionCount = IF at = "walCrit" THEN 1 ELSE 0

\* A query that was signalled before its last check does not complete.
SignalledQueryStops ==
  at = "query" /\ phase = "work" /\ aimed /\ step = TotalSteps => ~QueryRunning

\* A cancel is never acted on in a protected region or amid a frontend message.
ProtectedRegions ==
  [][QueryCancelPending /\ ~QueryCancelPending' =>
       at \notin {"read", "readHeld", "commitHeld", "walCrit"}]_vars

\* A cancel that a commit or a frontend message holds back is acted on in the
\* end: the region ends and checks.
HeldCancelIsServed ==
  (QueryCancelPending /\ at \in {"read", "readHeld", "commitHeld"})
    ~> ~QueryCancelPending
=============================================================================
