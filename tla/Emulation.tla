------------------------------ MODULE Emulation ------------------------------
(***************************************************************************)
(* The two threads of the program (src/src/qt/Pretendo.cpp): the emulation *)
(* thread, which runs one frame after the other, and the GUI thread, whose *)
(* handlers start, stop, pause and reset it and to which it posts          *)
(* onFrameCompleted().                                                     *)
(*                                                                         *)
(* A handler runs to its end before the next event is taken, but the       *)
(* emulation thread goes on in the meantime: todo is what the handler has  *)
(* still to do, and every element of it is one step.  The machine (CPU,    *)
(* PPU, APU, cartridge) has no lock; who may touch it when is what this    *)
(* module is about.  A frame is one step that may take any time.           *)
(***************************************************************************)
EXTENDS Naturals, Sequences

CONSTANTS
    Menu,           \* what the user does, a set of the names below
    Rom,            \* a game is named on the command line
    Files,          \* what a file to load may turn out to be
    Tests,          \* tests of --test-config; 0 without one
    Limit,          \* frames of a test, or of --test-frames; 0 for no limit
    InputFrames,    \* raw_framecount_ at which a test presses buttons
    ResetFrames,    \* and at which it presses RESET
    MaxQueue,       \* bound on the frames the GUI lags behind
    MaxFrames       \* bound on the frame counters, which stop there

UserActions == {"Run", "Stop", "Pause", "Preferences", "Reset", "Load", "Free",
                "Pick", "Close"}
\* No cartridge, one whose mapper is not implemented, and one that runs.
Carts == {"empty", "unmapped", "game"}
ASSUME MenuAssumption == Menu \subseteq UserActions
ASSUME FilesAssumption == Files \subseteq Carts /\ Files # {}
ASSUME BoundsAssumption ==
    /\ Rom \in BOOLEAN
    /\ Tests \in Nat /\ Limit \in Nat
    /\ MaxQueue \in Nat \ {0} /\ MaxFrames \in Nat
    /\ Limit < MaxFrames
    /\ Tests > 0 => Limit > 0

VARIABLES
    t_running, t_paused,    \* EmulationThread's flags, under state_mutex_
    pc,             \* where run() is
    cart,           \* nes::cart, see Carts
    buttons,        \* a scheduled button is set in controller1
    frames,         \* frames the machine has run since its hard reset
    held,           \* and how many of them with the same button down
    queue,          \* events posted to the GUI thread
    todo,           \* what the handler that runs has still to do
    running, paused,        \* Pretendo's flags
    raw,            \* raw_framecount_
    limit,          \* frame_limit_
    test,           \* regression_current_test_
    closed          \* the window is destroyed

thread  == <<t_running, t_paused, pc>>
machine == <<cart, buttons, frames, held>>
window  == <<running, paused, raw, limit, test, closed>>
vars == <<thread, machine, queue, todo, window>>

Regression == Tests > 0
Mapped == cart = "game"         \* nes::cart.mapper() != nullptr
Upto(n) == IF n < MaxFrames THEN n + 1 ELSE n

-----------------------------------------------------------------------------
(* EmulationThread::run()                                                  *)

\* The top of the loop.  MaxQueue stands for the GUI not lagging for ever.
Check ==
    /\ pc = "check"
    /\ \/ t_running /\ t_paused /\ pc' = "parked"
       \/ ~t_running /\ pc' = "off"
       \/ /\ t_running /\ ~t_paused
          /\ Len(queue) < MaxQueue
          /\ pc' = "frame"
    /\ UNCHANGED <<t_running, t_paused, machine, queue, todo, window>>

\* nes::run_frame()
RunFrame ==
    /\ pc = "frame" /\ pc' = "emit"
    /\ frames' = Upto(frames)
    /\ held' = (IF buttons THEN Upto(held) ELSE 0)
    /\ UNCHANGED <<t_running, t_paused, cart, buttons, queue, todo, window>>

\* read_samples() and the queued call; then the thread sleeps, or is late.
Emit ==
    /\ pc = "emit" /\ pc' = "check"
    /\ queue' = Append(queue, "frame")
    /\ UNCHANGED <<t_running, t_paused, machine, todo, window>>

Thread == Check \/ RunFrame \/ Emit

-----------------------------------------------------------------------------
(* The parts of the handlers.                                              *)
Stop == <<"signal", "join", "stopped">>         \* on_action_Stop_triggered
Free == Stop \o <<"unload">>                    \* on_action_Free_ROM_triggered
Restart == <<"signal", "join", "reset", "start">>

Do(op) == todo # <<>> /\ Head(todo) = op
Done == todo' = Tail(todo)
Wake == IF pc = "parked" THEN "check" ELSE pc

\* A mutant: stopLoop() changes the flags without waking the thread.
SignalWithoutWake ==
    /\ Do("signal") /\ Done
    /\ t_running' = FALSE /\ t_paused' = FALSE
    /\ UNCHANGED <<pc, machine, queue, window>>

\* stopLoop() up to wait() ...
Signal ==
    /\ Do("signal") /\ Done
    /\ t_running' = FALSE /\ t_paused' = FALSE
    /\ pc' = Wake
    /\ UNCHANGED <<machine, queue, window>>

\* ... and wait().
Join ==
    /\ Do("join") /\ pc = "off" /\ Done
    /\ UNCHANGED <<thread, machine, queue, window>>

\* A mutant: Stop leaves the window's paused_ as it is.
StoppedKeepsPaused ==
    /\ Do("stopped") /\ Done
    /\ running' = FALSE /\ raw' = 0
    /\ UNCHANGED <<thread, machine, queue, paused, limit, test, closed>>

Stopped ==
    /\ Do("stopped") /\ Done
    /\ running' = FALSE /\ paused' = FALSE /\ raw' = 0
    /\ UNCHANGED <<thread, machine, queue, limit, test, closed>>

Unload ==
    /\ Do("unload") /\ Done
    /\ cart' = "empty"
    /\ UNCHANGED <<thread, buttons, frames, held, queue, window>>

\* Cart::load(), which fails and leaves no cartridge for a file it cannot read,
\* but not for one whose mapper is unknown.
Load ==
    /\ Do("load") /\ Done
    /\ cart' \in Files
    /\ UNCHANGED <<thread, buttons, frames, held, queue, window>>

\* A mutant: input::reset() leaves the buttons as they are.
ResetKeepsButtons ==
    /\ Do("hard") /\ Done
    /\ frames' = 0 /\ held' = 0
    /\ UNCHANGED <<thread, cart, buttons, queue, window>>

\* nes::reset() when a game is run ...
HardReset ==
    /\ Do("hard") /\ Done
    /\ frames' = 0 /\ buttons' = FALSE /\ held' = 0
    /\ UNCHANGED <<thread, cart, queue, window>>

\* ... and while it runs, hard or soft.
Reset ==
    /\ Do("reset") /\ Done
    /\ buttons' = FALSE /\ held' = 0
    /\ UNCHANGED <<thread, cart, frames, queue, window>>

\* startLoop()
Start ==
    /\ Do("start") /\ Done
    /\ t_running' = TRUE /\ t_paused' = FALSE
    /\ pc' = (IF t_running THEN Wake ELSE "check")
    /\ UNCHANGED <<machine, queue, window>>

\* on_action_Run_triggered
Run ==
    /\ Do("run")
    /\ \/ paused /\ todo' = <<"pause">> \o Tail(todo) /\ UNCHANGED window
       \/ ~paused /\ (running \/ ~Mapped) /\ Done /\ UNCHANGED window
       \/ /\ ~paused /\ ~running /\ Mapped
          /\ todo' = <<"hard", "start">> \o Tail(todo)
          /\ running' = TRUE /\ paused' = FALSE /\ raw' = 0
          /\ UNCHANGED <<limit, test, closed>>
    /\ UNCHANGED <<thread, machine, queue>>

\* on_action_Pause_triggered, a toggle.
Pause ==
    /\ Do("pause") /\ Done
    /\ \/ running /\ ~paused /\ paused' = TRUE /\ t_paused' = TRUE /\ UNCHANGED pc
       \/ /\ running /\ paused /\ Mapped
          /\ paused' = FALSE /\ t_paused' = FALSE /\ pc' = Wake
       \/ (~running \/ (paused /\ ~Mapped)) /\ UNCHANGED <<paused, t_paused, pc>>
    /\ UNCHANGED <<t_running, machine, queue, running, raw, limit, test, closed>>

\* saveScreenshot() reads the lines submitted so far.
Shot ==
    /\ Do("shot") /\ Done
    /\ UNCHANGED <<thread, machine, queue, window>>

\* A test ends: setFrameLimit(0), and the next one is queued.
EndTest ==
    /\ Do("end") /\ Done
    /\ limit' = 0 /\ test' = test + 1
    /\ queue' = Append(queue, "next")
    /\ UNCHANGED <<thread, machine, running, paused, raw, closed>>

\* A mutant: after a ROM that cannot be cart, no other test is tried.
BeginTestGivesUp ==
    /\ Do("begin")
    /\ todo' = (IF cart # "empty" THEN <<"run">> ELSE <<>>)
    /\ limit' = (IF cart # "empty" THEN Limit ELSE limit)
    /\ test' = (IF cart # "empty" THEN test ELSE test + 1)
    /\ UNCHANGED <<thread, machine, queue, running, paused, raw, closed>>

\* startNextRegressionTest() after the load.
BeginTest ==
    /\ Do("begin")
    /\ IF cart # "empty"
       THEN todo' = <<"run">> /\ limit' = Limit /\ UNCHANGED <<test, queue>>
       ELSE Done /\ test' = test + 1 /\ queue' = Append(queue, "next")
                 /\ UNCHANGED limit
    /\ UNCHANGED <<thread, machine, running, paused, raw, closed>>

PostClose ==
    /\ Do("finish") /\ Done
    /\ queue' = Append(queue, "close")
    /\ UNCHANGED <<thread, machine, window>>

\* ~Pretendo() is done: no event is taken any more.
Destroy ==
    /\ Do("destroy") /\ Done
    /\ closed' = TRUE
    /\ UNCHANGED <<thread, machine, queue, running, paused, raw, limit, test>>

Handler ==
    \/ Signal \/ Join \/ Stopped \/ Unload \/ Load \/ HardReset \/ Reset
    \/ Start \/ Run \/ Pause \/ Shot \/ EndTest \/ BeginTest \/ PostClose
    \/ Destroy

-----------------------------------------------------------------------------
(* The events of the GUI thread's loop.                                    *)
Idle == todo = <<>> /\ ~closed

\* onFrameCompleted() of a frame of the game that runs.
Counted ==
    /\ raw' = Upto(raw)
    /\ LET scripted == Regression /\ test < Tests
           again == scripted /\ raw' \in ResetFrames IN
       /\ buttons' = (IF scripted THEN raw' \in InputFrames ELSE buttons)
       /\ held' = (IF scripted THEN 0 ELSE held)
       /\ todo' = (IF again THEN Restart
                   ELSE IF limit = 0 \/ raw' < limit THEN <<>>
                   ELSE <<"shot">> \o Stop \o Free \o
                        (IF scripted THEN <<"end">> ELSE Free \o <<"destroy">>))

OnFrameCompleted ==
    /\ (Idle \/ Do("dialog")) /\ queue # <<>> /\ Head(queue) = "frame"
    /\ queue' = Tail(queue)
    /\ IF running /\ ~paused THEN Counted
       ELSE UNCHANGED <<raw, buttons, held, todo>>
    /\ UNCHANGED <<thread, cart, frames, running, paused, limit, test, closed>>

\* startNextRegressionTest()
NextTest ==
    /\ Idle /\ queue # <<>> /\ Head(queue) = "next"
    /\ queue' = Tail(queue)
    /\ todo' = Stop \o Free \o
               (IF test < Tests THEN <<"load", "begin">> ELSE <<"finish">>)
    /\ UNCHANGED <<thread, machine, window>>

CloseWindow ==
    /\ Idle /\ queue # <<>> /\ Head(queue) = "close"
    /\ queue' = Tail(queue)
    /\ todo' = Free \o <<"destroy">>
    /\ UNCHANGED <<thread, machine, window>>

Event == OnFrameCompleted \/ NextTest \/ CloseWindow

\* The user's actions; Hard Reset is Reset here.  The preferences are a modal
\* dialog, during which frames are still delivered.
Triggered(action) ==
    CASE action = "Run"   -> <<"run">>
      [] action = "Stop"  -> Stop
      [] action = "Pause" -> <<"pause">>
      [] action = "Preferences" ->
            IF running /\ ~paused THEN <<"pause", "dialog", "pause">> ELSE <<"dialog">>
      [] action = "Reset" ->
            IF ~running THEN <<>> ELSE IF paused THEN <<"reset">> ELSE Restart
      [] action = "Load"  -> Stop \o Free \o <<"load">>
      [] action = "Free"  -> Free
      [] action = "Pick"  -> Stop \o Free \o <<"load", "run">>
      [] action = "Close" -> Free \o <<"destroy">>

User ==
    /\ Idle
    /\ \E action \in Menu : todo' = Triggered(action)
    /\ UNCHANGED <<thread, machine, queue, window>>

Dismiss ==
    /\ Do("dialog") /\ Done
    /\ UNCHANGED <<thread, machine, queue, window>>

-----------------------------------------------------------------------------
\* The window as constructed; a regression run begins with a queued
\* startNextRegressionTest().
Init ==
    /\ t_running = FALSE /\ t_paused = FALSE /\ pc = "off"
    /\ cart = (IF Rom THEN "game" ELSE "empty")
    /\ buttons = FALSE /\ frames = 0 /\ held = 0
    /\ queue = (IF Regression THEN <<"next">> ELSE <<>>)
    /\ todo = <<"run">>
    /\ running = FALSE /\ paused = FALSE /\ raw = 0 /\ test = 0
    /\ limit = (IF Regression THEN 0 ELSE Limit)
    /\ closed = FALSE

Next == Thread \/ Handler \/ Event \/ User \/ Dismiss

\* The operating system schedules both threads, a dialog is dismissed, and the
\* event loop takes every event in turn.
Spec ==
    /\ Init /\ [][Next]_vars
    /\ WF_vars(Thread) /\ WF_vars(Handler) /\ WF_vars(Event) /\ WF_vars(Dismiss)

-----------------------------------------------------------------------------
\* Between two events the window and the thread agree on what is going on, and
\* without a running game there is no thread.
InStep ==
    todo = <<>> =>
        /\ t_running = running /\ t_paused = paused
        /\ paused => running
        /\ ~running => pc = "off"

\* A cartridge is loaded and unloaded only while no thread exists that could
\* be using its memory.
CartUntouched == Do("unload") \/ Do("load") => pc = "off"

\* The emulation thread never runs a frame without a cartridge.
FramesNeedCart == pc \in {"frame", "emit"} => Mapped

\* What the two threads owe each other whatever the user does: all three.
ThreadInStep == InStep /\ CartUntouched /\ FramesNeedCart

\* The machine is not reset under a frame that is being run.
ResetBetweenFrames == Do("hard") \/ Do("reset") => pc \notin {"frame", "emit"}

\* The frames a game is credited with are its own: none was posted by the
\* game before it.
CountsOwnFrames == running /\ ~Do("hard") => raw <= frames

\* A game begins with no button held by the one before it.
StartsWithoutButtons == pc = "frame" /\ frames = 0 => ~buttons

\* A scripted test sees its own game and nothing of the one before: all three.
TestsIsolated == ResetBetweenFrames /\ CountsOwnFrames /\ StartsWithoutButtons

\* Once the user has paused the game, the thread stops at the next frame.
PauseTakesEffect == paused ~> (pc = "parked" \/ ~paused)

\* A game that is not paused goes on, once the user leaves it alone: no wake-up
\* of the thread is lost.
GameRuns ==
    <>[][~User]_vars => (running /\ ~paused ~> (pc = "frame" \/ ~running \/ paused))

\* Every handler ends: the GUI thread never waits for ever.
HandlersEnd == todo # <<>> ~> todo = <<>>

\* Neither thread waits for a wake-up that was lost: all three.
NobodyWaits == PauseTakesEffect /\ GameRuns /\ HandlersEnd

\* "Run the screenshot regression suite described by FILE and exit" (README.md).
RegressionEnds == <>closed
=============================================================================
