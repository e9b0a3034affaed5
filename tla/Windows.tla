------------------------------ MODULE Windows ------------------------------
(***************************************************************************)
(* The main thread: winit's event loop with its handlers (event.rs), the   *)
(* contexts of the open windows (window_context.rs), the timers            *)
(* (scheduler.rs) and what decides when a window is drawn and how many     *)
(* lines it has (display/mod.rs, display/window.rs, message_bar.rs).       *)
(*                                                                         *)
(* `pc` is the place of the thread: it polls for the next callback, drains *)
(* the event queue of one window, or ends an iteration with the timers.    *)
(* Time is left out: any scheduled timer may be due.  What is drawn is     *)
(* left out too; `stale` tells that a window does not show its state.      *)
(* The windows are not on Wayland, where the compositor gives the frames.  *)
(***************************************************************************)
EXTENDS Integers, Sequences, SequencesExt, FiniteSets

CONSTANTS Window,          \* identities of windows
          Loads,           \* sets of inputs; a behaviour has those of one of them
          Heights,         \* heights of a window, in lines
          MessageLines,    \* [message -> lines its text takes]
          MIN_FREE_LINES,  \* lines a message leaves free
          MaxQueue,        \* events in a window's queue
          MaxProxy,        \* user events of other threads on their way
          MaxFrames,       \* Frame timers and events of a window
          unfocused_hollow

ASSUME WindowsAssumption ==
  /\ Heights \subseteq Nat \ {0} /\ Heights # {}
  /\ MessageLines \in [{"config", "ipc"} -> Nat]
  /\ {MaxQueue, MaxProxy, MaxFrames, MIN_FREE_LINES} \subseteq Nat
  /\ unfocused_hollow \in BOOLEAN

VARIABLES
  load,     \* the inputs of this behaviour
  open,     \* the windows of the processor
  running,  \* the event loop has not been told to exit
  proxy,    \* user events on their way to the thread
  timers,   \* how many timers of a topic a window has
  pc,       \* where the thread is
  win       \* the windows, see Context

vars == <<load, open, running, proxy, timers, pc, win>>

Topic == {"BlinkCursor", "BlinkTimeout", "Frame"}

Message == DOMAIN MessageLines

UserEvent == [ty : {"Frame", "BlinkCursor", "BlinkCursorTimeout", "Wakeup", "Exit",
                    "Bell", "CursorBlinkingChange"}, win : Window]
             \cup [ty : {"Message"}, message : Message]
             \cup [ty : {"ConfigReload"}, ok : BOOLEAN]
             \cup [ty : {"CreateWindow", "IpcConfig"}]

WindowEvent == [ty : {"Typing", "PopMessage", "CloseRequested"}]
               \cup [ty : {"Focused", "Occluded", "Preedit"}, on : BOOLEAN]
               \cup [ty : {"Resized"}, height : Heights \cup {0}]

\* What is kept of a window: fields of WindowContext, Display, Window and
\* Term.  redraw_owed: winit has to deliver RedrawRequested.  bell:
\* visual_bell.start_time is set.  blinking: the cursor's style and mode let
\* it blink.  renderer_stale: pending_renderer_update is set.  The last two
\* are observers: the window shows an older state; messages were removed
\* without an update of the display.
Context ==
  [event_queue : Seq(WindowEvent \cup UserEvent), dirty : BOOLEAN, occluded : BOOLEAN,
   hold : BOOLEAN, has_frame : BOOLEAN, requested_redraw : BOOLEAN, redraw_owed : BOOLEAN,
   bell : BOOLEAN, focused : BOOLEAN, blinking : BOOLEAN, preedit : BOOLEAN,
   cursor_hidden : BOOLEAN, cursor_blink_timed_out : BOOLEAN,
   height : Heights, screen_lines : Nat \ {0}, messages : Seq(Message),
   dimensions : Heights \cup {0}, pending_update : BOOLEAN, renderer_stale : BOOLEAN,
   stale : BOOLEAN, ipc_cleared : BOOLEAN]

\* Window::new, Display::new, WindowContext::new.
NewContext(h, hold, blinking) ==
  [event_queue |-> <<>>, dirty |-> FALSE, occluded |-> FALSE, hold |-> hold, has_frame |-> TRUE,
   requested_redraw |-> FALSE, redraw_owed |-> FALSE, bell |-> FALSE, focused |-> TRUE,
   blinking |-> blinking, preedit |-> FALSE, cursor_hidden |-> FALSE,
   cursor_blink_timed_out |-> FALSE, height |-> h, screen_lines |-> h, messages |-> <<>>,
   dimensions |-> 0, pending_update |-> FALSE, renderer_stale |-> FALSE, stale |-> FALSE,
   ipc_cleared |-> FALSE]

Poll == [at |-> "poll"]
UpdateTimers == [at |-> "timers"]
Drain(w, cause, todo) == [at |-> "drain", win |-> w, cause |-> cause, todo |-> todo]

(***************************************************************************)
(* The scheduler.  A timer that repeats stays scheduled when it fires.     *)
(***************************************************************************)
NoTimers == [t \in Topic |-> 0]

schedule(ts, w, topic) == [ts EXCEPT ![w][topic] = @ + 1]

unschedule(ts, w, topic) == [ts EXCEPT ![w][topic] = IF @ = 0 THEN 0 ELSE @ - 1]

unschedule_window(ts, w) == [ts EXCEPT ![w] = NoTimers]

TimerEvent(w, topic) ==
  [ty |-> IF topic = "BlinkTimeout" THEN "BlinkCursorTimeout" ELSE topic, win |-> w]

(***************************************************************************)
(* Lines that the message bar takes, and lines left for the terminal.      *)
(***************************************************************************)
BarLines(h, ms) ==
  IF ms = <<>> THEN 0
  ELSE LET max_lines == IF h > MIN_FREE_LINES THEN h - MIN_FREE_LINES ELSE 0
           lines == MessageLines[Head(ms)]
       IN  IF lines > max_lines THEN max_lines ELSE lines

Layout(c) ==
  LET left == c.height - BarLines(c.height, c.messages)
  IN  IF left < 1 THEN 1 ELSE left

\* Message::pop, with its duplicates.
Popped(ms) == SelectSeq(Tail(ms), LAMBDA m : m # Head(ms))

remove_target(ms, target) == SelectSeq(ms, LAMBDA m : m # target)

(***************************************************************************)
(* Window::request_redraw, when `cond` holds.                              *)
(***************************************************************************)
Requested(c, cond) ==
  IF cond /\ ~c.requested_redraw
    THEN [c EXCEPT !.requested_redraw = TRUE, !.redraw_owed = TRUE]
    ELSE c

\* A new window whose cursor blinks does not wait for its focus event.
StartBlinking(w, blinks) ==
  IF blinks THEN <<[ty |-> "CursorBlinkingChange", win |-> w]>> ELSE <<>>

(***************************************************************************)
(* What the user sees changes: the window has to be drawn.                 *)
(***************************************************************************)
Visible(c) == <<c.cursor_hidden, c.messages, c.screen_lines, c.preedit, c.bell,
                c.focused /\ unfocused_hollow>>

Observed(old, new) == [new EXCEPT !.stale = @ \/ Visible(new) # Visible(old)]

-----------------------------------------------------------------------------
Init ==
  /\ load \in Loads
  /\ running = TRUE
  /\ timers = [w \in Window |-> NoTimers]
  /\ pc = Poll
  /\ \E h \in Heights, hold \in BOOLEAN, blinks \in BOOLEAN :
       /\ h = Max(Heights) \/ "Resized" \in load
       /\ hold => "exit" \in load
       /\ blinks => "cursor" \in load
       /\ win = [w \in Window |-> NewContext(h, hold, blinks)]
       /\ \E w \in Window : open = {w} /\ proxy = StartBlinking(w, blinks)

(***************************************************************************)
(* Other threads send user events: the PTY thread of a window, the logger, *)
(* the monitor of the configuration, the IPC socket.                       *)
(***************************************************************************)
Send(events) ==
  /\ running
  /\ Len(proxy) < MaxProxy
  /\ proxy' = proxy \o events

\* The terminal of w changes and its thread wakes the interface up.
Output(w) ==
  /\ "output" \in load /\ w \in open
  /\ \/ Send(<<[ty |-> "Wakeup", win |-> w]>>)
     \/ "bell" \in load /\ Send(<<[ty |-> "Bell", win |-> w], [ty |-> "Wakeup", win |-> w]>>)
  /\ win' = [win EXCEPT ![w].stale = TRUE]
  /\ UNCHANGED <<load, open, running, timers, pc>>

\* The program changes whether the cursor blinks, or is shown at all.
CursorStyle(w) ==
  /\ "cursor" \in load /\ w \in open
  /\ Send(<<[ty |-> "CursorBlinkingChange", win |-> w]>>)
  /\ win' = [win EXCEPT ![w].blinking = ~@]
  /\ UNCHANGED <<load, open, running, timers, pc>>

\* The shell of w exits; something is logged; a file changed; a client asks.
OtherThreads ==
  /\ \/ \E w \in open : "exit" \in load /\ Send(<<[ty |-> "Exit", win |-> w]>>)
     \/ \E m \in Message : "message" \in load /\ Send(<<[ty |-> "Message", message |-> m]>>)
     \/ \E ok \in BOOLEAN : "reload" \in load /\ Send(<<[ty |-> "ConfigReload", ok |-> ok]>>)
     \/ "ipc" \in load /\ Send(<<[ty |-> "IpcConfig"]>>)
     \/ "create" \in load /\ Send(<<[ty |-> "CreateWindow"]>>)
  /\ UNCHANGED <<load, open, running, timers, pc, win>>

(***************************************************************************)
(* Callbacks of winit: window_event and user_event.                        *)
(***************************************************************************)
HasRoom(w) == Len(win[w].event_queue) < MaxQueue

\* A window event other than a redraw is queued.
window_event(w) ==
  /\ pc = Poll /\ running /\ w \in open
  /\ HasRoom(w)
  /\ \E e \in WindowEvent :
       /\ e.ty \in load
       /\ e.ty = "Focused" => e.on # win[w].focused
       /\ e.ty = "Occluded" => e.on # win[w].occluded
       /\ e.ty = "CloseRequested" => Len(proxy) < MaxProxy
       /\ win' = [win EXCEPT ![w].event_queue = Append(@, e)]
  /\ UNCHANGED <<load, open, running, proxy, timers, pc>>

\* The first user event is taken off the proxy's queue.
Receive(ty) ==
  /\ pc = Poll /\ running
  /\ proxy # <<>> /\ Head(proxy).ty = ty
  /\ proxy' = Tail(proxy)

Wakeup ==
  /\ Receive("Wakeup")
  /\ LET w == Head(proxy).win
     IN  win' = [win EXCEPT ![w] = IF w \notin open THEN @
                                   ELSE Requested([@ EXCEPT !.dirty = TRUE], @.has_frame)]
  /\ UNCHANGED <<load, open, running, timers, pc>>

\* Mutant: a window that became dirty while it had no frame is not drawn.
Frame_forgotten ==
  /\ Receive("Frame")
  /\ LET w == Head(proxy).win
     IN  win' = [win EXCEPT ![w] = IF w \notin open THEN @ ELSE [@ EXCEPT !.has_frame = TRUE]]
  /\ UNCHANGED <<load, open, running, timers, pc>>

Frame ==
  /\ Receive("Frame")
  /\ LET w == Head(proxy).win
     IN  win' = [win EXCEPT ![w] = IF w \notin open THEN @
                                   ELSE Requested([@ EXCEPT !.has_frame = TRUE], @.dirty)]
  /\ UNCHANGED <<load, open, running, timers, pc>>

\* The window closes unless it is held; the last one ends the program.
Exit ==
  /\ Receive("Exit")
  /\ LET w == Head(proxy).win
     IN  IF w \in open /\ ~win[w].hold
           THEN /\ open' = open \ {w}
                /\ timers' = unschedule_window(timers, w)
                /\ running' = (open' # {})
           ELSE UNCHANGED <<open, timers, running>>
  /\ UNCHANGED <<load, pc, win>>

\* A window opens, or fails to.  Its identity is not one that an event on
\* its way still names.
CreateWindow ==
  /\ pc = Poll /\ running
  /\ proxy # <<>> /\ Head(proxy).ty = "CreateWindow"
  /\ \/ \E w \in Window \ open :
          /\ \A e \in Range(proxy) : "win" \in DOMAIN e => e.win # w
          /\ open' = open \cup {w}
          /\ win' = [win EXCEPT ![w] = NewContext(@.height, @.hold, @.blinking)]
          /\ proxy' = Tail(proxy) \o StartBlinking(w, win[w].blinking)
     \/ proxy' = Tail(proxy) /\ UNCHANGED <<open, win>>
  /\ UNCHANGED <<load, running, timers, pc>>

Enqueued(c, e) == [c EXCEPT !.event_queue = Append(@, e)]

\* Events of all windows and of one: they are queued as well.
Broadcast ==
  /\ Receive("Message") /\ \A w \in open : HasRoom(w)
  /\ win' = [w \in Window |-> IF w \in open THEN Enqueued(win[w], Head(proxy)) ELSE win[w]]
  /\ UNCHANGED <<load, open, running, timers, pc>>

Forward ==
  /\ \E ty \in {"BlinkCursor", "BlinkCursorTimeout", "Bell", "CursorBlinkingChange"} : Receive(ty)
  /\ LET w == Head(proxy).win
     IN  HasRoom(w) /\ win' = [win EXCEPT ![w] = IF w \in open THEN Enqueued(@, Head(proxy)) ELSE @]
  /\ UNCHANGED <<load, open, running, timers, pc>>

\* WindowContext::update_config; `relayout` tells that the font, the cursor
\* or the padding is another one.
update_config(c, w, relayout) ==
  [Enqueued(c, [ty |-> "CursorBlinkingChange", win |-> w]) EXCEPT
     !.dirty = TRUE, !.stale = TRUE, !.pending_update = @ \/ relayout]

\* Mutant: the messages are removed without an update of the display.
WithoutConfigErrors_only(c) == [c EXCEPT !.messages = remove_target(@, "config")]

\* Errors of the last load are removed from the message bar.
WithoutConfigErrors(c) ==
  IF c.messages = <<>> THEN c
  ELSE [c EXCEPT !.messages = remove_target(@, "config"), !.pending_update = TRUE]

\* A load that fails logs an error, which comes back as a message.
ConfigReload ==
  /\ pc = Poll /\ running
  /\ proxy # <<>> /\ Head(proxy).ty = "ConfigReload"
  /\ \A w \in open : HasRoom(w)
  /\ IF Head(proxy).ok
       THEN /\ proxy' = Tail(proxy)
            /\ \E relayout \in BOOLEAN :
                 win' = [w \in Window |->
                           IF w \in open
                             THEN update_config(WithoutConfigErrors(win[w]), w, relayout)
                             ELSE win[w]]
       ELSE /\ proxy' = Append(Tail(proxy), [ty |-> "Message", message |-> "config"])
            /\ win' = [w \in Window |->
                         IF w \in open THEN Observed(win[w], WithoutConfigErrors(win[w]))
                                       ELSE win[w]]
  /\ UNCHANGED <<load, open, running, timers, pc>>

\* reset_window_config, add_window_config: of one window or of all.
IpcConfig ==
  /\ Receive("IpcConfig") /\ \A w \in open : HasRoom(w)
  /\ \E relayout \in BOOLEAN, targets \in {open} \cup {{w} : w \in open} :
       win' = [w \in Window |->
                 IF w \in targets
                   THEN LET c == [win[w] EXCEPT !.messages = remove_target(@, "ipc")]
                        IN  update_config([c EXCEPT !.ipc_cleared = @ \/ c.messages # win[w].messages],
                                          w, relayout)
                   ELSE win[w]]
  /\ UNCHANGED <<load, open, running, timers, pc>>

-----------------------------------------------------------------------------
(***************************************************************************)
(* WindowContext::handle_event for AboutToWait and RedrawRequested: the    *)
(* queue is drained (below, one event at a time), then the batch ends.     *)
(***************************************************************************)
about_to_wait ==
  /\ pc = Poll /\ running
  /\ LET todo == {w \in open : win[w].event_queue # <<>>}
     IN  IF todo = {} THEN pc' = UpdateTimers
         ELSE \E w \in todo : pc' = Drain(w, "wait", todo \ {w})
  /\ UNCHANGED <<load, open, running, proxy, timers, win>>

\* Mutant: the frame is used up but no new one is asked for.
request_frame_not(ts, w, c) == ts

\* Display::request_frame, after a draw of c.
request_frame(ts, w, c) == IF c.occluded THEN ts ELSE schedule(ts, w, "Frame")

\* WindowContext::draw and Display::draw; `done` tells that the animation of
\* the bell ends.
draw(c, done) ==
  LET d == [c EXCEPT !.dirty = FALSE, !.requested_redraw = FALSE, !.redraw_owed = FALSE,
                     !.renderer_stale = FALSE, !.stale = FALSE]
      e == IF ~c.bell THEN d
           ELSE IF c.has_frame THEN Requested(d, TRUE) ELSE [d EXCEPT !.dirty = TRUE]
  IN  IF c.occluded THEN [c EXCEPT !.requested_redraw = FALSE, !.redraw_owed = FALSE]
      ELSE [e EXCEPT !.has_frame = FALSE, !.bell = @ /\ ~done]

\* Display::handle_update.
handle_update(c) ==
  LET h == IF c.dimensions = 0 THEN c.height ELSE c.dimensions
      d == [c EXCEPT !.height = h, !.dimensions = 0, !.pending_update = FALSE, !.ipc_cleared = FALSE]
  IN  [d EXCEPT !.screen_lines = Layout(d), !.dirty = TRUE,
                !.renderer_stale = @ \/ h # c.height \/ Layout(d) # c.screen_lines]

\* What follows the drained queue: pending updates of the display.
Updated(c) == IF c.pending_update THEN Observed(c, handle_update(c)) ELSE c

\* ... and, when the batch ends an iteration, the next redraw.
RequestAfterBatch(c) == Requested(c, c.dirty /\ c.has_frame /\ ~c.occluded)

Frames(w) ==
  timers[w]["Frame"] + Len(SelectSeq(proxy, LAMBDA e : e.ty = "Frame" /\ e.win = w))

\* winit delivers a redraw, requested or of its own.
RedrawRequested(w) ==
  /\ pc = Poll /\ running /\ w \in open
  /\ win[w].redraw_owed \/ "expose" \in load
  /\ Frames(w) < MaxFrames
  /\ IF win[w].event_queue = <<>>
       THEN /\ \E done \in BOOLEAN : win' = [win EXCEPT ![w] = draw(@, done)]
            /\ timers' = request_frame(timers, w, win[w])
            /\ UNCHANGED pc
       ELSE pc' = Drain(w, "redraw", {}) /\ UNCHANGED <<win, timers>>
  /\ UNCHANGED <<load, open, running, proxy>>

BatchDone ==
  /\ pc.at = "drain" /\ win[pc.win].event_queue = <<>>
  /\ LET w == pc.win
         c == Updated(win[w])
     IN  \/ /\ pc.cause = "redraw"
            /\ \E done \in BOOLEAN : win' = [win EXCEPT ![w] = draw(c, done)]
            /\ timers' = request_frame(timers, w, c)
            /\ pc' = Poll
         \/ /\ pc.cause = "wait"
            /\ win' = [win EXCEPT ![w] = RequestAfterBatch(c)]
            /\ IF pc.todo = {} THEN pc' = UpdateTimers
               ELSE \E v \in pc.todo : pc' = Drain(v, "wait", pc.todo \ {v})
            /\ UNCHANGED timers
  /\ UNCHANGED <<load, open, running, proxy>>

\* Scheduler::update at the end of an iteration: one due timer is sent, or
\* the thread waits for the next callback.
SendTimer(w, topic) ==
  /\ pc = UpdateTimers
  /\ timers[w][topic] > 0
  /\ Len(SelectSeq(proxy, LAMBDA e : e = TimerEvent(w, topic))) < MaxFrames
  /\ proxy' = Append(proxy, TimerEvent(w, topic))
  /\ timers' = IF topic = "BlinkCursor" THEN timers ELSE unschedule(timers, w, topic)
  /\ UNCHANGED <<load, open, running, pc, win>>

Wait ==
  /\ pc = UpdateTimers
  /\ pc' = Poll
  /\ UNCHANGED <<load, open, running, proxy, timers, win>>

-----------------------------------------------------------------------------
(***************************************************************************)
(* input::Processor::handle_event: the first event of the queue.           *)
(***************************************************************************)
\* The event and the window it is for, once it is off the queue.
Event == Head(win[pc.win].event_queue)

Window1 == [win[pc.win] EXCEPT !.event_queue = Tail(@)]

Handling(ty) ==
  /\ pc.at = "drain"
  /\ win[pc.win].event_queue # <<>> /\ Event.ty = ty

\* The event leaves the window as c and the timers as ts.
Leave(c, ts) ==
  /\ win' = [win EXCEPT ![pc.win] = Observed(@, c)]
  /\ timers' = ts
  /\ UNCHANGED <<load, open, running, pc>>

(***************************************************************************)
(* update_cursor_blinking: what it leaves of the window and of the timers. *)
(* The configuration has a blink_timeout.                                  *)
(***************************************************************************)
Blinks(c) == c.blinking /\ ~c.preedit /\ c.focused

update_cursor_blinking(c) ==
  IF Blinks(c) THEN [c EXCEPT !.cursor_blink_timed_out = FALSE]
  ELSE [c EXCEPT !.cursor_blink_timed_out = FALSE, !.cursor_hidden = FALSE, !.dirty = TRUE]

BlinkTimers(c) ==
  LET w == pc.win
      ts == unschedule(unschedule(timers, w, "BlinkCursor"), w, "BlinkTimeout")
  IN  IF Blinks(c) THEN schedule(schedule(ts, w, "BlinkCursor"), w, "BlinkTimeout") ELSE ts

BlinkCursor ==
  /\ Handling("BlinkCursor")
  /\ Leave(IF Window1.cursor_blink_timed_out THEN Window1
           ELSE [Window1 EXCEPT !.cursor_hidden = ~@, !.dirty = TRUE], timers)

BlinkCursorTimeout ==
  /\ Handling("BlinkCursorTimeout")
  /\ Leave([Window1 EXCEPT !.cursor_blink_timed_out = TRUE, !.cursor_hidden = FALSE, !.dirty = TRUE],
           unschedule(timers, pc.win, "BlinkCursor"))

MessageEvent ==
  /\ Handling("Message")
  /\ Leave(IF Contains(Window1.messages, Event.message) THEN Window1
           ELSE [Window1 EXCEPT !.messages = Append(@, Event.message), !.pending_update = TRUE],
           timers)

\* The bell alone does not make the window dirty; the output it came with does.
Bell == Handling("Bell") /\ Leave([Window1 EXCEPT !.bell = TRUE], timers)

CursorBlinkingChange ==
  Handling("CursorBlinkingChange") /\ Leave(update_cursor_blinking(Window1), BlinkTimers(Window1))

CloseRequested ==
  /\ Handling("CloseRequested")
  /\ Leave([Window1 EXCEPT !.hold = FALSE], timers)
  /\ proxy' = Append(proxy, [ty |-> "Exit", win |-> pc.win])

Resized ==
  /\ Handling("Resized")
  /\ Leave(IF Event.height = 0 THEN Window1
           ELSE [Window1 EXCEPT !.dimensions = Event.height, !.pending_update = TRUE], timers)

Focused ==
  /\ Handling("Focused")
  /\ LET c == [Window1 EXCEPT !.focused = Event.on, !.dirty = @ \/ unfocused_hollow]
     IN  Leave(update_cursor_blinking(c), BlinkTimers(c))

Occluded == Handling("Occluded") /\ Leave([Window1 EXCEPT !.occluded = Event.on], timers)

ImePreedit ==
  /\ Handling("Preedit")
  /\ LET c == [Window1 EXCEPT !.preedit = Event.on]
     IN  IF c = Window1 THEN Leave(c, timers)
         ELSE Leave([update_cursor_blinking(c) EXCEPT !.dirty = TRUE], BlinkTimers(c))

\* A key is typed: the cursor is shown and the interval starts again.
on_typing_start ==
  /\ Handling("Typing")
  /\ LET c == Window1
         w == pc.win
     IN  IF timers[w]["BlinkCursor"] > 0
           THEN Leave([c EXCEPT !.cursor_hidden = FALSE, !.dirty = @ \/ c.cursor_hidden],
                      schedule(unschedule(timers, w, "BlinkCursor"), w, "BlinkCursor"))
           ELSE IF c.cursor_blink_timed_out THEN Leave(update_cursor_blinking(c), BlinkTimers(c))
           ELSE Leave(c, timers)

\* The close button of the message bar, or ClearLogNotice.
pop_message ==
  /\ Handling("PopMessage")
  /\ Leave(IF Window1.messages = <<>> THEN Window1
           ELSE [Window1 EXCEPT !.messages = Popped(@), !.pending_update = TRUE], timers)

handle_event ==
  \/ /\ \/ BlinkCursor \/ BlinkCursorTimeout \/ MessageEvent \/ Bell \/ CursorBlinkingChange
        \/ Resized \/ Focused \/ Occluded \/ ImePreedit \/ on_typing_start \/ pop_message
     /\ UNCHANGED proxy
  \/ CloseRequested

-----------------------------------------------------------------------------
user_event ==
  \/ Wakeup \/ Frame \/ Exit \/ CreateWindow \/ Broadcast \/ Forward \/ ConfigReload \/ IpcConfig

Next ==
  \/ OtherThreads
  \/ \E w \in Window : Output(w) \/ CursorStyle(w) \/ window_event(w) \/ RedrawRequested(w)
  \/ user_event \/ about_to_wait \/ BatchDone \/ Wait \/ handle_event
  \/ \E w \in Window, topic \in Topic : SendTimer(w, topic)

\* winit calls the handlers again and again, delivers every user event and
\* every redraw that was requested, and a Frame timer is due at some time.
Fairness ==
  /\ WF_vars(about_to_wait) /\ WF_vars(BatchDone) /\ WF_vars(Wait) /\ WF_vars(handle_event)
  /\ SF_vars(user_event)
  /\ \A w \in Window :
       /\ SF_vars(win[w].redraw_owed /\ RedrawRequested(w))
       /\ SF_vars(SendTimer(w, "Frame"))

Spec == Init /\ [][Next]_vars /\ Fairness

-----------------------------------------------------------------------------
(***************************************************************************)
(* Properties.                                                             *)
(***************************************************************************)
TypeOK ==
  /\ load \in Loads /\ open \subseteq Window /\ running \in BOOLEAN
  /\ Range(proxy) \subseteq UserEvent
  /\ timers \in [Window -> [Topic -> Nat]]
  /\ \A w \in Window : Range(win[w].event_queue) \subseteq WindowEvent \cup UserEvent

\* Whatever changes what a window shows (output of the program, a blinking
\* cursor, a message, a new size) is drawn in the end, unless the window is
\* covered or closed first.  `dirty`, has_frame, requested_redraw and
\* `occluded` are set by five handlers, and a change that comes while the
\* window has no frame is left to the Frame event.
ChangesDrawn ==
  \A w \in Window : win[w].stale ~> (~win[w].stale \/ win[w].occluded \/ w \notin open)

\* The terminal has the lines that the height of the window and the message
\* bar leave it, once all events have been handled.  Removing IPC messages is
\* the exception: it is not followed by an update of the display.
LayoutSettles ==
  \A w \in Window :
    win[w].screen_lines # Layout(win[w])
      ~> (win[w].screen_lines = Layout(win[w]) \/ win[w].ipc_cleared \/ w \notin open)

\* A window that has used its frame gets another: its Frame timer runs or the
\* event is on its way.  Otherwise it would never be drawn again.
FrameReturns == \A w \in open : ~win[w].has_frame => Frames(w) > 0

\* "Only change state when timeout isn't reached, since we could get
\* BlinkCursor and BlinkCursorTimeout events at the same time": a cursor that
\* stopped blinking is visible.
TimedOutShown == \A w \in open : win[w].cursor_blink_timed_out => ~win[w].cursor_hidden

\* Timers of removed windows do not "stick around forever".
TimersOfOpen == \A w \in Window \ open : timers[w] = NoTimers

=============================================================================
