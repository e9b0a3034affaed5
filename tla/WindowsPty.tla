----------------------------- MODULE WindowsPty -----------------------------
(***************************************************************************)
(* The pseudoconsole on Windows (tty/windows): its blocking ends are read  *)
(* and written by two threads of their own, each joined to the PTY thread  *)
(* by a bounded pipe, and an exit of the program comes in a callback.  All *)
(* of them wake the PTY thread by posting the event it registered to the   *)
(* poller, which knows nothing of the pipes: PollMode::Level asks for an   *)
(* event while there is data, but an event comes only from a waker that    *)
(* an empty read, or a full write, left behind.                            *)
(*                                                                         *)
(* `conout` is output on its way to the terminal, `conin` input.  Only the *)
(* number of items in a pipe matters.  The pipes (piper) call the waker of *)
(* the last poll that was Pending, once, when the other end moves on.      *)
(* pty_read gets the lock of the terminal at once.                         *)
(*                                                                         *)
(* `missed` is no state of the program: the PTY thread went on without a   *)
(* waker behind it, because pty_read stopped at MAX_LOCKED_READ, because   *)
(* it registered for writing with the pipe full after a write that fitted, *)
(* or because the program exited before it registered.                     *)
(***************************************************************************)
EXTENDS Integers

CONSTANTS PIPE_CAPACITY,
          LockedRead,   \* MAX_LOCKED_READ
          MaxInput,     \* items of input that are waiting at a time
          MaxPackets    \* packets of one event that are told apart

ASSUME PipesAssumption ==
  /\ PIPE_CAPACITY \in Nat \ {0}
  /\ LockedRead \in Nat \ {0}
  /\ MaxPackets \in Nat \ {0}
  /\ MaxInput \in Nat

VARIABLES pipe, thread, token, threadWaker,  \* the pipes and their threads
          waker, reg, first,                 \* the PTY thread's wakers and interests
          posted,                            \* packets in the poller
          place, batch, event, writable,     \* the event loop
          processed, missed,
          input, queued, notifiedLoop,       \* the channel and the write list
          exit                               \* the program and its exit callback

threadVars == <<pipe, thread, token, threadWaker, waker>>
loopState == <<place, batch, event, writable, processed, missed>>
inputVars == <<input, queued, notifiedLoop>>

pipeVars == <<threadVars, reg, first, posted, loopState, inputVars, exit>>

Ends == {"conin", "conout"}

\* The events that are registered: for reading, and for reading and writing.
Packets == {"read", "write", "child"}

InitPipes ==
  /\ pipe = [e \in Ends |-> 0]
  /\ thread = [e \in Ends |-> "run"]
  /\ token = [e \in Ends |-> FALSE]
  /\ threadWaker = [e \in Ends |-> FALSE]
  /\ waker = [e \in Ends |-> FALSE]
  /\ reg = [e \in Ends \cup {"child"} |-> "none"]
  /\ first = TRUE
  /\ posted = [k \in Packets |-> 0]
  /\ place = "register_conin" /\ batch = [k \in Packets |-> 0] /\ event = "none"
  /\ writable = FALSE /\ processed = 0
  /\ missed = [e \in Ends \cup {"child"} |-> FALSE]
  /\ input = 0 /\ queued = 0 /\ notifiedLoop = FALSE
  /\ exit = "running"

\* Packets can pile up while the loop is busy; the count stops at the bound.
Post(k) == posted' = [posted EXCEPT ![k] = IF @ < MaxPackets THEN @ + 1 ELSE @]

-----------------------------------------------------------------------------
(* The threads of the pipes.                                               *)

restOfThreads == <<first, reg, loopState, inputVars, exit>>

\* The reader has no room in its pipe, the writer nothing to write.
Blocked(e) == pipe[e] = (IF e = "conout" THEN PIPE_CAPACITY ELSE 0)

\* Poll::Pending; the thread is about to park.
ThreadPending(e) ==
  /\ thread[e] = "run" /\ Blocked(e)
  /\ threadWaker' = [threadWaker EXCEPT ![e] = TRUE]
  /\ thread' = [thread EXCEPT ![e] = "park"]
  /\ UNCHANGED <<pipe, token, waker, posted, restOfThreads>>

\* thread::park returns, for a token that may have come earlier.
ThreadUnparked(e) ==
  /\ thread[e] = "park" /\ token[e]
  /\ token' = [token EXCEPT ![e] = FALSE]
  /\ thread' = [thread EXCEPT ![e] = "run"]
  /\ UNCHANGED <<pipe, threadWaker, waker, posted, restOfThreads>>

\* Poll::Ready: one item from the console, or to it.
ThreadMoves(e) ==
  /\ thread[e] = "run" /\ ~Blocked(e)
  /\ pipe' = [pipe EXCEPT ![e] = IF e = "conout" THEN @ + 1 ELSE @ - 1]
  /\ threadWaker' = [threadWaker EXCEPT ![e] = FALSE]
  /\ waker' = [waker EXCEPT ![e] = FALSE]
  /\ thread' = [thread EXCEPT ![e] = IF waker[e] THEN "wake" ELSE "run"]
  /\ UNCHANGED <<token, posted, restOfThreads>>

\* Registration::wake_by_ref: the event is posted if it is of interest.
ThreadWakes(e) ==
  /\ thread[e] = "wake"
  /\ thread' = [thread EXCEPT ![e] = "run"]
  /\ IF reg[e] = "write" \/ (e = "conout" /\ reg[e] = "read")
     THEN Post(reg[e]) ELSE UNCHANGED posted
  /\ UNCHANGED <<pipe, token, threadWaker, waker, restOfThreads>>

ThreadStep == \E e \in Ends :
  ThreadPending(e) \/ ThreadUnparked(e) \/ ThreadMoves(e) \/ ThreadWakes(e)

-----------------------------------------------------------------------------
(* Registration by the event loop.                                         *)

Interest == IF writable THEN "write" ELSE "read"

\* Mutant: the event is not sent to start off with.
RegisterConin_silent ==
  /\ place = "register_conin"
  /\ reg' = [reg EXCEPT !["conin"] = Interest]
  /\ place' = "register_conout"
  /\ UNCHANGED <<threadVars, first, posted, batch, event, writable, processed, missed,
                 inputVars, exit>>

\* UnblockedWriter::register: the event is sent to start off with if there is room.
RegisterConin ==
  /\ place = "register_conin"
  /\ reg' = [reg EXCEPT !["conin"] = Interest]
  /\ IF pipe["conin"] # PIPE_CAPACITY /\ writable THEN Post("write") ELSE UNCHANGED posted
  /\ missed' = [missed EXCEPT !["conin"] =
                  /\ writable /\ pipe["conin"] = PIPE_CAPACITY
                  /\ ~waker["conin"] /\ thread["conin"] # "wake"]
  /\ place' = "register_conout"
  /\ UNCHANGED <<threadVars, first, batch, event, writable, processed, inputVars, exit>>

\* UnblockedReader::register: it is sent if there is data, and the first time.
RegisterConout ==
  /\ place = "register_conout"
  /\ reg' = [reg EXCEPT !["conout"] = Interest]
  /\ IF pipe["conout"] # 0 \/ first THEN Post(Interest) ELSE UNCHANGED posted
  /\ first' = FALSE
  /\ place' = "register_child"
  /\ UNCHANGED <<threadVars, batch, event, writable, processed, missed, inputVars, exit>>

\* ChildExitWatcher::register.
RegisterChild ==
  /\ place = "register_child"
  /\ reg' = [reg EXCEPT !["child"] = Interest]
  /\ place' = "wait"
  /\ UNCHANGED <<threadVars, first, posted, batch, event, writable, processed, missed,
                 inputVars, exit>>

-----------------------------------------------------------------------------
(* The event loop.                                                         *)

Quiet(packets) == \A k \in Packets : packets[k] = 0

Wait ==
  /\ place = "wait"
  /\ ~Quiet(posted) \/ notifiedLoop
  /\ batch' = posted
  /\ posted' = [k \in Packets |-> 0]
  /\ notifiedLoop' = FALSE
  /\ place' = IF Quiet(posted) /\ input = 0 THEN "wait" ELSE "drain"
  /\ UNCHANGED <<threadVars, reg, first, event, writable, processed, missed,
                 input, queued, exit>>

DrainChannel ==
  /\ place = "drain"
  /\ queued' = queued + input
  /\ input' = 0
  /\ place' = "events"
  /\ UNCHANGED <<threadVars, reg, first, posted, batch, event, writable, processed,
                 missed, notifiedLoop, exit>>

\* An event is taken; the exit of the program ends the loop, which deregisters.
TakeEvent(k) ==
  /\ place = "events" /\ batch[k] # 0
  /\ batch' = [batch EXCEPT ![k] = @ - 1]
  /\ IF k = "child"
     THEN /\ exit = "reported"
          /\ place' = "exited" /\ event' = "none"
          /\ reg' = [e \in Ends \cup {"child"} |-> "none"]
     ELSE place' = "read" /\ event' = k /\ UNCHANGED reg
  /\ UNCHANGED <<threadVars, first, posted, writable, processed, missed, inputVars, exit>>

Unpark(e) ==
  /\ token' = [token EXCEPT ![e] = @ \/ threadWaker[e]]
  /\ threadWaker' = [threadWaker EXCEPT ![e] = FALSE]

\* The end of pty_read, and of an event that is not for writing.
ReadEnds ==
  /\ processed' = 0
  /\ IF event = "write" THEN place' = "write" /\ UNCHANGED event
     ELSE place' = "events" /\ event' = "none"

\* pty_read: try_read takes items, and the loop goes on up to its limit.
ReadItems ==
  /\ place = "read"
  /\ \E n \in 1 .. pipe["conout"] :
       /\ pipe' = [pipe EXCEPT !["conout"] = @ - n]
       /\ missed' = [missed EXCEPT !["conout"] = processed + n >= LockedRead]
       /\ IF processed + n >= LockedRead THEN ReadEnds
          ELSE processed' = processed + n /\ UNCHANGED <<place, event>>
  /\ waker' = [waker EXCEPT !["conout"] = FALSE]
  /\ Unpark("conout")
  /\ UNCHANGED <<thread, reg, first, posted, batch, writable, inputVars, exit>>

\* Nothing is left: the waker stays with the pipe.
ReadNothing ==
  /\ place = "read" /\ pipe["conout"] = 0
  /\ waker' = [waker EXCEPT !["conout"] = TRUE]
  /\ missed' = [missed EXCEPT !["conout"] = FALSE]
  /\ ReadEnds
  /\ UNCHANGED <<pipe, thread, token, threadWaker, reg, first, posted, batch,
                 writable, inputVars, exit>>

\* pty_write: try_write puts items in the pipe until it is full.
WriteItems ==
  /\ place = "write" /\ queued # 0 /\ pipe["conin"] # PIPE_CAPACITY
  /\ pipe' = [pipe EXCEPT !["conin"] = @ + 1]
  /\ queued' = queued - 1
  /\ waker' = [waker EXCEPT !["conin"] = FALSE]
  /\ Unpark("conin")
  /\ UNCHANGED <<thread, reg, first, posted, loopState, input, notifiedLoop, exit>>

WriteNothing ==
  /\ place = "write" /\ (queued = 0 \/ pipe["conin"] = PIPE_CAPACITY)
  /\ waker' = [waker EXCEPT !["conin"] = @ \/ queued # 0]
  /\ place' = "events" /\ event' = "none"
  /\ UNCHANGED <<pipe, thread, token, threadWaker, reg, first, posted, batch,
                 writable, processed, missed, inputVars, exit>>

\* Interest in writing is registered if it changed.
RegisterAgain ==
  /\ place = "events" /\ Quiet(batch)
  /\ writable' = (queued # 0)
  /\ place' = IF writable' # writable THEN "register_conin" ELSE "wait"
  /\ UNCHANGED <<threadVars, reg, first, posted, batch, event, processed, missed,
                 inputVars, exit>>

LoopStep ==
  \/ RegisterConin \/ RegisterConout \/ RegisterChild
  \/ Wait \/ DrainChannel \/ (\E k \in Packets : TakeEvent(k))
  \/ ReadItems \/ ReadNothing \/ WriteItems \/ WriteNothing \/ RegisterAgain

-----------------------------------------------------------------------------
(* The interface and the program.                                          *)

Send ==
  /\ input + queued < MaxInput
  /\ input' = input + 1
  /\ notifiedLoop' = TRUE
  /\ UNCHANGED <<threadVars, reg, first, posted, loopState, queued, exit>>

ProgramExits ==
  /\ exit = "running"
  /\ exit' = "exited"
  /\ UNCHANGED <<threadVars, reg, first, posted, loopState, inputVars>>

child_exit_callback ==
  /\ exit = "exited"
  /\ exit' = "reported"
  /\ IF reg["child"] # "none" THEN Post("child") ELSE UNCHANGED posted
  /\ missed' = [missed EXCEPT !["child"] = reg["child"] = "none"]
  /\ UNCHANGED <<threadVars, reg, first, place, batch, event, writable, processed, inputVars>>

NextPipes == ThreadStep \/ LoopStep \/ Send \/ ProgramExits \/ child_exit_callback

SpecPipes == InitPipes /\ [][NextPipes]_pipeVars

-----------------------------------------------------------------------------
(* Properties.                                                             *)

Idle == place = "wait" /\ Quiet(posted) /\ ~notifiedLoop

\* No wake-up is lost between the PTY thread and the others, but for the cases of
\* `missed`.  When the loop waits, nothing is posted and no thread is about to post, no
\* output is in the pipe, input that did not fit waits behind a full pipe, and the exit
\* of the program is not waiting to be taken.  A thread stays parked only while it has
\* nothing to do.
NoLostWakeup ==
  /\ Idle => /\ thread["conout"] = "wake" \/ pipe["conout"] = 0 \/ missed["conout"]
             /\ \/ thread["conin"] = "wake" \/ queued = 0
                \/ pipe["conin"] = PIPE_CAPACITY \/ missed["conin"]
             /\ exit = "reported" => missed["child"]
  /\ \A e \in Ends : (thread[e] = "park" /\ ~token[e]) => Blocked(e)

=============================================================================
