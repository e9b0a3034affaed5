---------------------------- MODULE PtyEventLoop ----------------------------
(***************************************************************************)
(* The PTY thread (event_loop.rs) between the user interface thread, which *)
(* sends it messages and shares the terminal with it, and the program      *)
(* behind the pseudoterminal.                                              *)
(*                                                                         *)
(* Input bytes are numbered in the order the interface sends them.  Output *)
(* is a sequence of items: plain text, and the begin (bsu) and end (esu)   *)
(* of a synchronized update.  `pc` is the place of the PTY thread:         *)
(*   poll -> peek -> stop_sync -> poll          (timeout)                  *)
(*        -> peek -> drain -> events -> interest -> poll                   *)
(*   events -> lease -> read <-> try_lock, parse -> finish -> write, exit  *)
(* Errors of the system other than EIO after a hangup are left out, and so *)
(* are interrupted calls.  Reads behave as on Linux.                       *)
(***************************************************************************)
EXTENDS Integers, Sequences, SequencesExt, FiniteSets

CONSTANTS READ_BUFFER_SIZE,  \* items pty_read buffers without the lock
          MAX_LOCKED_READ,   \* items pty_read parses under the lock
          PtyLoads           \* programs, users and options to explore

ASSUME BoundsAssumption ==
  /\ {READ_BUFFER_SIZE, MAX_LOCKED_READ} \subseteq Nat \ {0}
  /\ \A l \in PtyLoads :
        /\ {l.output, l.messages} \subseteq Nat
        /\ {l.inputLen, l.capacity} \subseteq Nat \ {0}
        /\ l.drain \in BOOLEAN

VARIABLES
  load,               \* which of PtyLoads this is, chosen once
  data, next, at,     \* the terminal's lock, see FairMutex
  rx,                 \* messages in the channel
  messages,           \* number of messages sent
  sent,               \* number of input bytes sent
  notify_pending,     \* the interface is between send and Poller::notify
  notified,           \* the poller has been notified
  wakeup,             \* an Event::Wakeup is queued for the interface
  drawing,            \* the interface locks in order to draw
  emitted,            \* output of the program
  pty_out,            \* output in the kernel
  written,            \* input the kernel took
  consumed,           \* number of input bytes the program read
  hup, exited, sigchld,
  pc, events, reading_from, buf, processed, write_list, writing, interest,
  sync, sync_buffer, deadline,  \* ansi::Processor, synchronized updates
  applied,            \* output the terminal has processed
  shown               \* output that is on the screen

lockVars == <<data, next, at>>
uiVars == <<rx, messages, sent, notify_pending>>
uiDraw == <<drawing, shown>>
childVars == <<emitted, consumed, hup, exited>>
loopVars == <<events, reading_from, interest>>
writeVars == <<write_list, writing, written>>
readVars == <<buf, processed>>
parserVars == <<sync, sync_buffer, deadline, applied>>
flagVars == <<notified, sigchld, wakeup>>

vars == <<lockVars, uiVars, uiDraw, childVars, loopVars, writeVars, readVars,
          parserVars, flagVars, pc, pty_out>>

MaxOutput == load.output        \* items the program writes
MaxMessages == load.messages    \* messages the interface sends
MaxInputLen == load.inputLen    \* longest input message, in bytes
PtyCapacity == load.capacity    \* input bytes the kernel buffers
drain_on_exit == load.drain

UI == "ui"
PTY == "pty"

INSTANCE FairMutex WITH Threads <- {UI, PTY}, NoThread <- "none"

NoWriting == <<>>

Init ==
  /\ load \in PtyLoads
  /\ InitMutex
  /\ rx = <<>> /\ messages = 0 /\ sent = 0 /\ notify_pending = FALSE
  /\ notified = FALSE /\ wakeup = FALSE /\ drawing = FALSE
  /\ emitted = <<>> /\ pty_out = <<>> /\ written = <<>> /\ consumed = 0
  /\ hup = FALSE /\ exited = FALSE /\ sigchld = FALSE
  /\ pc = "poll" /\ events = <<>> /\ reading_from = "events"
  /\ buf = <<>> /\ processed = 0
  /\ write_list = <<>> /\ writing = NoWriting /\ interest = FALSE
  /\ sync = FALSE /\ sync_buffer = <<>> /\ deadline = "none"
  /\ applied = <<>> /\ shown = <<>>

-----------------------------------------------------------------------------
(* The user interface thread.                                              *)

\* EventLoopSender::send, up to the call of Poller::notify.
send(msg) ==
  /\ messages < MaxMessages
  /\ ~notify_pending
  /\ at[UI] \in {"idle", "locked"}
  /\ rx' = Append(rx, msg)
  /\ messages' = messages + 1
  /\ notify_pending' = TRUE
  /\ UNCHANGED <<lockVars, uiDraw, childVars, loopVars, writeVars, readVars,
                 parserVars, flagVars, pc, pty_out>>

\* Notifier::notify: nothing is sent for an empty slice.
notify(len) ==
  /\ len # 0
  /\ send([type |-> "Input", bytes |-> [k \in 1 .. len |-> sent + k]])
  /\ sent' = sent + len

on_resize == send([type |-> "Resize"]) /\ UNCHANGED sent

Shutdown == send([type |-> "Shutdown"]) /\ UNCHANGED sent

PollerNotify ==
  /\ notify_pending
  /\ notify_pending' = FALSE
  /\ notified' = TRUE
  /\ UNCHANGED <<lockVars, rx, messages, sent, uiDraw, childVars, loopVars,
                 writeVars, readVars, parserVars, sigchld, wakeup, pc, pty_out>>

restOfUi == <<uiVars, childVars, loopVars, writeVars, readVars, parserVars,
              notified, sigchld, pc, pty_out>>

\* A Wakeup makes the interface lock the terminal and draw; it also locks the
\* terminal to handle other events.
UiDraw == ~notify_pending /\ wakeup /\ wakeup' = FALSE /\ drawing' = TRUE
          /\ lock(UI) /\ UNCHANGED <<shown, restOfUi>>

UiUse == ~notify_pending /\ lock(UI) /\ drawing' = FALSE
         /\ UNCHANGED <<wakeup, shown, restOfUi>>

UiLock == (LockNext(UI) \/ LockData(UI) \/ LockReturn(UI))
          /\ UNCHANGED <<wakeup, uiDraw, restOfUi>>

UiUnlock ==
  /\ ~notify_pending
  /\ Unlock(UI)
  /\ shown' = IF drawing THEN applied ELSE shown
  /\ UNCHANGED <<wakeup, drawing, restOfUi>>

-----------------------------------------------------------------------------
(* The program, the kernel, and time.                                      *)

restOfEnv == <<lockVars, uiVars, uiDraw, loopVars, writeVars, readVars,
               notified, wakeup, pc, sync, sync_buffer, applied>>

Emit(item) ==
  /\ ~hup /\ ~exited
  /\ Len(emitted) < MaxOutput
  /\ emitted' = Append(emitted, item)
  /\ pty_out' = Append(pty_out, item)
  /\ UNCHANGED <<restOfEnv, consumed, hup, exited, sigchld, deadline>>

Consume ==
  /\ ~exited
  /\ consumed < Len(written)
  /\ consumed' = consumed + 1
  /\ UNCHANGED <<restOfEnv, emitted, hup, exited, sigchld, deadline, pty_out>>

Hangup ==
  /\ ~hup
  /\ hup' = TRUE
  /\ UNCHANGED <<restOfEnv, emitted, consumed, exited, sigchld, deadline, pty_out>>

ChildExit ==
  /\ ~exited
  /\ exited' = TRUE
  /\ sigchld' = TRUE
  /\ UNCHANGED <<restOfEnv, emitted, consumed, hup, deadline, pty_out>>

SyncTimeout ==
  /\ deadline = "armed"
  /\ deadline' = "expired"
  /\ UNCHANGED <<restOfEnv, childVars, sigchld, pty_out>>

-----------------------------------------------------------------------------
(* The PTY thread: waiting, timeouts and the channel.                      *)

env == <<uiDraw, childVars>>

Writable == Len(written) - consumed < PtyCapacity

RwEvent == [key |-> "rw", readable |-> pty_out # <<>>,
            writable |-> interest /\ Writable, is_interrupt |-> hup]

RwReady == pty_out # <<>> \/ hup \/ (interest /\ Writable)

\* The ready events, in either order.
ReadyEvents ==
  LET child == IF sigchld THEN <<[key |-> "child"]>> ELSE <<>>
      rw    == IF RwReady THEN <<RwEvent>> ELSE <<>>
  IN  {child \o rw, rw \o child}

\* Poller::wait: returns for an event, a notification, or the timeout.
PollWait ==
  /\ pc = "poll"
  /\ sigchld \/ RwReady \/ notified \/ (sync /\ deadline = "expired")
  /\ events' \in ReadyEvents
  /\ notified' = FALSE
  /\ pc' = "peek"
  /\ UNCHANGED <<env, lockVars, uiVars, reading_from, interest, writeVars,
                 readVars, parserVars, sigchld, wakeup, pty_out>>

restOfLoop == <<env, uiVars, writeVars, readVars, flagVars, pty_out>>

Peek ==
  /\ pc = "peek"
  /\ \/ /\ events = <<>> /\ rx = <<>>
        /\ lock(PTY)
        /\ pc' = "stop_sync"
     \/ /\ events # <<>> \/ rx # <<>>
        /\ pc' = "drain"
        /\ UNCHANGED lockVars
  /\ UNCHANGED <<restOfLoop, loopVars, parserVars>>

\* The steps of the PTY thread inside lock(), and in lease() and lock_unfair().
PtyLock ==
  /\ LockNext(PTY) \/ LockData(PTY) \/ LockReturn(PTY) \/ LockUnfairData(PTY)
  /\ UNCHANGED <<restOfLoop, loopVars, parserVars, pc>>

stop_sync ==
  /\ pc = "stop_sync"
  /\ Unlock(PTY)
  /\ applied' = applied \o sync_buffer
  /\ sync' = FALSE
  /\ sync_buffer' = <<>>
  /\ deadline' = "none"
  /\ wakeup' = TRUE
  /\ pc' = "poll"
  /\ UNCHANGED <<env, uiVars, loopVars, writeVars, readVars, notified, sigchld,
                 pty_out>>

\* Everything up to a Shutdown is taken out of the channel.
drain_recv_channel ==
  LET stops   == {k \in 1 .. Len(rx) : rx[k].type = "Shutdown"}
      taken   == IF stops = {} THEN rx
                 ELSE SubSeq(rx, 1, CHOOSE k \in stops : \A j \in stops : k <= j)
      isInput(m) == m.type = "Input"
      inputs  == SelectSeq(taken, isInput)
  IN  /\ pc = "drain"
      /\ rx' = SubSeq(rx, Len(taken) + 1, Len(rx))
      /\ write_list' = write_list \o [k \in DOMAIN inputs |-> inputs[k].bytes]
      /\ pc' = IF stops = {} THEN "events" ELSE "shutdown"
      /\ UNCHANGED <<env, lockVars, messages, sent, notify_pending, loopVars,
                     writing, written, readVars, parserVars, flagVars, pty_out>>

-----------------------------------------------------------------------------
(* The PTY thread: events.                                                 *)

\* Mutant: the signal is consumed, and the exit only handled if it came alone.
ChildEvent_lost ==
  /\ pc = "events" /\ events # <<>> /\ Head(events).key = "child"
  /\ sigchld' = FALSE
  /\ IF Len(events) > 1
     THEN events' = Tail(events) /\ UNCHANGED <<lockVars, pc>>
     ELSE lock(PTY) /\ pc' = "exit" /\ UNCHANGED events
  /\ UNCHANGED <<env, uiVars, reading_from, interest, writeVars, readVars,
                 parserVars, notified, wakeup, pty_out>>

\* next_child_event, and the start of what follows an exit.
ChildEvent ==
  /\ pc = "events" /\ events # <<>> /\ Head(events).key = "child"
  /\ sigchld' = FALSE
  /\ IF ~exited
     THEN /\ events' = Tail(events)
          /\ UNCHANGED <<lockVars, pc, reading_from>>
     ELSE /\ IF drain_on_exit
             THEN lease(PTY) /\ pc' = "lease" /\ reading_from' = "exit"
             ELSE lock(PTY) /\ pc' = "exit" /\ UNCHANGED reading_from
          /\ UNCHANGED events
  /\ UNCHANGED <<env, uiVars, interest, writeVars, readVars, parserVars,
                 notified, wakeup, pty_out>>

\* No I/O is tried on a dead PTY; otherwise reading comes before writing.
ReadWriteEvent ==
  /\ pc = "events" /\ events # <<>> /\ Head(events).key = "rw"
  /\ LET event == Head(events)
     IN  \/ /\ event.is_interrupt \/ ~(event.readable \/ event.writable)
            /\ events' = Tail(events)
            /\ UNCHANGED <<lockVars, pc, reading_from>>
         \/ /\ ~event.is_interrupt /\ event.readable
            /\ lease(PTY) /\ pc' = "lease" /\ reading_from' = "events"
            /\ UNCHANGED events
         \/ /\ ~event.is_interrupt /\ ~event.readable /\ event.writable
            /\ pc' = "write"
            /\ UNCHANGED <<lockVars, events, reading_from>>
  /\ UNCHANGED <<restOfLoop, interest, parserVars>>

\* Term::exit under the lock, the last Wakeup, and the end of the loop.
Exit ==
  /\ pc = "exit"
  /\ Unlock(PTY)
  /\ wakeup' = TRUE
  /\ pc' = "exited"
  /\ UNCHANGED <<env, uiVars, loopVars, writeVars, readVars, parserVars, notified,
                 sigchld, pty_out>>

\* Mutant: only the buffer that is being written counts.
needs_write_current == writing # NoWriting

needs_write == writing # NoWriting \/ write_list # <<>>

\* Level-triggered interest in writing, for as long as there is input.
RegisterInterest ==
  /\ pc = "events" /\ events = <<>>
  /\ interest' = needs_write
  /\ pc' = "poll"
  /\ UNCHANGED <<restOfLoop, lockVars, events, reading_from, parserVars>>

-----------------------------------------------------------------------------
(* pty_read.                                                               *)

restOfRead == <<env, uiVars, loopVars, writeVars, notified, sigchld>>

TakeLease ==
  /\ pc = "lease"
  /\ LeaseNext(PTY)
  /\ pc' = "read"
  /\ buf' = <<>>
  /\ processed' = 0
  /\ UNCHANGED <<restOfRead, parserVars, wakeup, pty_out>>

\* Ok(got).  A full buffer leaves nothing to read into.
ReadSome ==
  /\ pc = "read"
  /\ LET room == READ_BUFFER_SIZE - Len(buf)
     IN  \E got \in 0 .. Len(pty_out) :
           /\ got <= room /\ (got = 0 <=> room = 0)
           /\ buf' = buf \o SubSeq(pty_out, 1, got)
           /\ pty_out' = SubSeq(pty_out, got + 1, Len(pty_out))
  /\ IF at[PTY] = "leased" THEN NeedData(PTY) ELSE UNCHANGED lockVars
  /\ pc' = "try_lock"
  /\ UNCHANGED <<restOfRead, parserVars, wakeup, processed>>

\* Err(WouldBlock): back to the poller once everything is parsed.
ReadBlocked ==
  /\ pc = "read"
  /\ pty_out = <<>> /\ ~hup /\ Len(buf) < READ_BUFFER_SIZE
  /\ pc' = IF buf = <<>> THEN "finish" ELSE "try_lock"
  /\ UNCHANGED <<restOfRead, lockVars, readVars, parserVars, wakeup, pty_out>>

\* Err(EIO): pty_read returns, with whatever is in its buffer.
ReadFailed ==
  /\ pc = "read"
  /\ pty_out = <<>> /\ hup /\ Len(buf) < READ_BUFFER_SIZE
  /\ pc' = "failed"
  /\ buf' = <<>>
  /\ UNCHANGED <<restOfRead, lockVars, processed, parserVars, wakeup, pty_out>>

\* Mutant: what was read is forgotten when the lock is not available.
TryLock_forgetful ==
  /\ pc = "try_lock" /\ at[PTY] = "trying"
  /\ IF data = "none"
     THEN try_lock_unfair(PTY) /\ UNCHANGED <<pc, buf>>
     ELSE pc' = "read" /\ buf' = <<>> /\ UNCHANGED lockVars
  /\ UNCHANGED <<restOfRead, processed, parserVars, wakeup, pty_out>>

TryLock ==
  /\ pc = "try_lock" /\ at[PTY] = "trying"
  /\ IF data = "none"
     THEN try_lock_unfair(PTY) /\ UNCHANGED pc
     ELSE IF Len(buf) >= READ_BUFFER_SIZE
          THEN lock_unfair(PTY) /\ UNCHANGED pc
          ELSE pc' = "read" /\ UNCHANGED lockVars
  /\ UNCHANGED <<restOfRead, readVars, parserVars, wakeup, pty_out>>

\* ansi::Processor::advance on one item: an update is buffered until it ends, and
\* a begin inside of an update extends it.
AdvanceItem(p, item) ==
  IF ~p.sync
  THEN [p EXCEPT !.applied = Append(@, item),
                 !.sync = (item = "bsu"),
                 !.deadline = IF item = "bsu" THEN "armed" ELSE @]
  ELSE IF item = "esu"
       THEN [applied |-> Append(p.applied \o p.buffer, item), sync |-> FALSE,
             buffer |-> <<>>, deadline |-> "none"]
       ELSE [p EXCEPT !.buffer = Append(@, item),
                      !.deadline = IF item = "bsu" THEN "armed" ELSE @]

Parse ==
  /\ pc = "try_lock" /\ at[PTY] = "leased_locked"
  /\ LET p == FoldLeft(AdvanceItem,
                       [applied |-> applied, sync |-> sync,
                        buffer |-> sync_buffer, deadline |-> deadline], buf)
     IN  /\ applied' = p.applied
         /\ sync' = p.sync
         /\ sync_buffer' = p.buffer
         /\ deadline' = p.deadline
  /\ processed' = processed + Len(buf)
  /\ buf' = <<>>
  /\ pc' = IF processed' >= MAX_LOCKED_READ THEN "finish" ELSE "read"
  /\ UNCHANGED <<restOfRead, lockVars, wakeup, pty_out>>

\* Mutant: the guard outlives pty_read.
ReadFinished_locked ==
  /\ pc = "finish"
  /\ wakeup' = (wakeup \/ (Len(sync_buffer) < processed /\ processed > 0))
  /\ pc' = "unlease"
  /\ UNCHANGED <<restOfRead, lockVars, readVars, parserVars, pty_out>>

\* The end of pty_read: a redraw unless all of it was synchronized; the guard is
\* dropped, then the lease.
ReadFinished ==
  /\ pc = "finish"
  /\ wakeup' = (wakeup \/ (Len(sync_buffer) < processed /\ processed > 0))
  /\ IF at[PTY] = "leased_locked"
     THEN DropGuard(PTY) ELSE UNCHANGED lockVars
  /\ pc' = "unlease"
  /\ UNCHANGED <<restOfRead, readVars, parserVars, pty_out>>

FailedFinished ==
  /\ pc = "failed"
  /\ IF at[PTY] = "leased_locked"
     THEN DropGuard(PTY) ELSE UNCHANGED lockVars
  /\ pc' = "unlease_failed"
  /\ UNCHANGED <<restOfRead, readVars, parserVars, wakeup, pty_out>>

\* Back in the event loop: on to writing, or to the next event after a failure.
\* After the last read of a program that exited, its result is ignored.
Unlease ==
  /\ pc \in {"unlease", "unlease_failed"}
  /\ DropLease(PTY)
  /\ processed' = 0
  /\ IF reading_from = "exit"
     THEN pc' = "lock_exit" /\ UNCHANGED events
     ELSE IF pc = "unlease" /\ Head(events).writable
          THEN pc' = "write" /\ UNCHANGED events
          ELSE pc' = "events" /\ events' = Tail(events)
  /\ UNCHANGED <<env, uiVars, reading_from, interest, writeVars, notified,
                 sigchld, wakeup, buf, parserVars, pty_out>>

LockExit ==
  /\ pc = "lock_exit"
  /\ lock(PTY)
  /\ pc' = "exit"
  /\ UNCHANGED <<restOfRead, readVars, parserVars, wakeup, pty_out>>

-----------------------------------------------------------------------------
(* pty_write.                                                              *)

restOfWrite == <<env, lockVars, uiVars, reading_from, interest, readVars,
                 parserVars, flagVars, pty_out>>

\* ensure_next and goto_next.
goto_next ==
  /\ pc = "write"
  /\ writing = NoWriting /\ write_list # <<>>
  /\ writing' = [bytes |-> Head(write_list), written |-> 0]
  /\ write_list' = Tail(write_list)
  /\ UNCHANGED <<restOfWrite, pc, events, written>>

remaining_bytes ==
  SubSeq(writing.bytes, writing.written + 1, Len(writing.bytes))

\* Ok(n): the kernel takes at least one byte, and no more than it has room for.
WriteSome ==
  /\ pc = "write" /\ writing # NoWriting /\ ~hup
  /\ \E n \in 1 .. Len(remaining_bytes) :
       /\ n <= PtyCapacity - (Len(written) - consumed)
       /\ written' = written \o SubSeq(remaining_bytes, 1, n)
       /\ writing' = IF writing.written + n >= Len(writing.bytes)
                     THEN NoWriting
                     ELSE [writing EXCEPT !.written = @ + n]
  /\ UNCHANGED <<restOfWrite, pc, events, write_list>>

\* Ok(0) for an empty slice, or Err(WouldBlock): the rest is kept for later.
WriteBlocked ==
  /\ pc = "write" /\ writing # NoWriting /\ ~hup
  /\ remaining_bytes = <<>> \/ ~Writable
  /\ pc' = "events"
  /\ events' = Tail(events)
  /\ UNCHANGED <<restOfWrite, writeVars>>

\* Err(EIO) breaks the event loop.
WriteFailed ==
  /\ pc = "write" /\ writing # NoWriting /\ hup
  /\ pc' = "broken"
  /\ UNCHANGED <<restOfWrite, events, writeVars>>

WriteFinished ==
  /\ pc = "write" /\ writing = NoWriting /\ write_list = <<>>
  /\ pc' = "events"
  /\ events' = Tail(events)
  /\ UNCHANGED <<restOfWrite, writeVars>>

-----------------------------------------------------------------------------
(* Specification.                                                          *)

Messages == (\E len \in 0 .. MaxInputLen : notify(len)) \/ on_resize \/ Shutdown

UiStep == UiLock \/ UiUnlock \/ PollerNotify

Program == (\E item \in {"text", "bsu", "esu"} : Emit(item))
           \/ Consume \/ Hangup \/ ChildExit

PtyStep ==
  \/ PollWait \/ Peek \/ PtyLock \/ stop_sync \/ drain_recv_channel
  \/ ChildEvent \/ ReadWriteEvent \/ Exit \/ RegisterInterest
  \/ TakeLease \/ ReadSome \/ ReadBlocked \/ ReadFailed \/ TryLock \/ Parse
  \/ ReadFinished \/ FailedFinished \/ Unlease \/ LockExit
  \/ goto_next \/ WriteSome \/ WriteBlocked \/ WriteFailed \/ WriteFinished

Next ==
  /\ \/ Messages \/ UiDraw \/ UiUse \/ UiStep
     \/ Program \/ SyncTimeout
     \/ PtyStep
  /\ UNCHANGED load

\* Both threads keep running and get a mutex they keep asking for; the interface
\* handles a queued Wakeup; the program reads its input and, after it closed the
\* terminal, exits ("the inevitable `Exited` event"); time passes.
Fairness ==
  /\ WF_vars(PtyStep)
  /\ SF_vars(pc = "lease" /\ TakeLease)
  /\ SF_vars(PtyLock)
  /\ WF_vars(UiStep)
  /\ SF_vars(UiLock)
  /\ SF_vars(UiDraw)
  /\ WF_vars(Consume)
  /\ WF_vars(hup /\ ChildExit)
  /\ WF_vars(SyncTimeout)

Spec == Init /\ [][Next]_<<vars, load>> /\ Fairness

-----------------------------------------------------------------------------
(* Properties.                                                             *)

Ended == pc \in {"exited", "shutdown", "broken"}

ChannelBytes ==
  LET isInput(m) == m.type = "Input"
      inputs == SelectSeq(rx, isInput)
  IN  [k \in DOMAIN inputs |-> inputs[k].bytes]

\* No byte is lost, duplicated or reordered.  Input goes through the channel, the write
\* list, partial writes and WouldBlock; the terminal processes the program's output
\* whatever the read sizes, failed locks and synchronized updates.
BytesInOrder ==
  LET current == IF writing = NoWriting THEN <<>> ELSE remaining_bytes
      parsed  == applied \o sync_buffer \o buf
  IN  /\ written \o current \o FlattenSeq(write_list) \o FlattenSeq(ChannelBytes)
           = [k \in 1 .. sent |-> k]
      /\ IsPrefix(parsed, emitted)
      /\ ~hup => parsed \o pty_out = emitted

\* Input reaches the program's side of the PTY, as long as the loop runs.  What the
\* program writes comes to the screen, also after a synchronized update that is never
\* ended, and whatever was processed does so before and after its exit.
BytesReach ==
  /\ (sent # Len(written)) ~> (sent = Len(written) \/ Ended \/ hup)
  /\ (emitted # shown) ~> \/ shown = applied /\ (shown = emitted \/ hup \/ pc = "exited")
                          \/ pc \in {"shutdown", "broken"}

\* The loop ends after the exit of the program, and after a Shutdown in the channel,
\* also one that is overtaken by events.
LoopEnds ==
  (exited \/ \E k \in DOMAIN rx : rx[k].type = "Shutdown") ~> Ended

\* The interface is not kept from the terminal by a PTY thread that reads, spins
\* on try_lock_unfair or waits for the data under its lease.
UiServed == (at[UI] = "want_next") ~> (at[UI] = "locked")

=============================================================================
