----------------------------- MODULE MCEmulation -----------------------------
(* Small instances of Emulation: an interactive session and test runs.     *)
EXTENDS Emulation

AllActions == UserActions
NoActions == {}
PauseAndReset == {"Pause", "Reset"}
AnyFile == Carts
KnownMappers == {"empty", "game"}
FirstFrame == {1}
BothFrames == {1, 2}
NoFrames == {}
=============================================================================
