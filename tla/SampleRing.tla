------------------------------ MODULE SampleRing ------------------------------
(***************************************************************************)
(* The ring of samples (src/src/Apu.cpp): the emulation thread writes it   *)
(* while it runs a frame and copies the frame's samples for the audio      *)
(* device behind it (src/src/qt/Pretendo.cpp), and the audio viewer copies *)
(* it from the GUI thread at any time, with no lock between the two        *)
(* (src/src/qt/AudioViewer.cpp).  A sample is its number.                  *)
(***************************************************************************)
EXTENDS Naturals, Sequences

CONSTANTS
    Size,           \* buffer_size
    FrameSamples,   \* how many samples a frame may produce
    Take,           \* how many of them the thread hands over, 800
    View,           \* and the viewer draws, 1024
    MaxSamples      \* bound on the samples produced

ASSUME RingAssumption ==
    /\ Size \in Nat \ {0} /\ Take \in Nat /\ View \in Nat /\ MaxSamples \in Nat
    /\ FrameSamples \subseteq 1..Size - 1

VARIABLES
    ring,           \* sample_buffer_
    start, end,     \* sample_buffer_start, sample_buffer_end
    produced,       \* history: how many samples were ever produced
    left,           \* samples the frame in progress has still to produce
    at,             \* the thread: "idle", "frame" or "copy"
    first,          \* vpos_ is 0 and not 262: the frame is a reset's first
    base,           \* history: produced when the frame began
    handed,         \* the last frame's samples, as the window gets them
    viewing,        \* whether the viewer is copying
    index, view,    \* its index and what it has copied
    mark,           \* history: produced when start was last set
    since           \* history: samples produced since the mark it began at

thread  == <<ring, end, produced, left, at, first, base, mark, handed>>
viewer  == <<viewing, index, view, since>>
ringVars == <<thread, start, viewer>>

Following(i) == (i + 1) % Size

RingInit ==
    /\ ring = [i \in 0..Size - 1 |-> 0]
    /\ start = 0 /\ end = 0 /\ produced = 0 /\ left = 0
    /\ at = "idle" /\ first = TRUE /\ base = 0 /\ mark = 0 /\ handed = <<>>
    /\ viewing = FALSE /\ index = 0 /\ view = <<>> /\ since = 0

\* A mutant: the copy of the last frame is where the next one starts.
MarkTaken == start' = (start + Len(handed)) % Size

\* start_frame(), which execute_scanline calls if the last frame ended.
MarkFrame == start' = IF first THEN start ELSE end

BeginFrame ==
    /\ at = "idle" /\ at' = "frame"
    /\ MarkFrame
    /\ mark' = IF first THEN mark ELSE produced
    /\ base' = produced
    /\ left' \in FrameSamples
    /\ produced + left' <= MaxSamples
    /\ UNCHANGED <<ring, end, produced, first, handed, viewer>>

\* A sample in apu::tick().
Sample ==
    /\ at = "frame" /\ left > 0
    /\ ring' = [ring EXCEPT ![end] = produced]
    /\ end' = Following(end)
    /\ produced' = produced + 1
    /\ left' = left - 1
    /\ since' = since + 1
    /\ UNCHANGED <<start, at, first, base, mark, handed, viewing, index, view>>

EndFrame ==
    /\ at = "frame" /\ left = 0 /\ at' = "copy"
    /\ UNCHANGED <<ring, start, end, produced, left, first, base, mark, handed, viewer>>

\* How many samples read_samples() finds from start.
Available == (end + Size - start) % Size

\* read_samples() in the thread, which leaves start where it is.
CopyFrame ==
    /\ at = "copy" /\ at' = "idle"
    /\ handed' = [i \in 1..(IF Available < Take THEN Available ELSE Take)
                     |-> ring[(start + i - 1) % Size]]
    /\ first' = FALSE
    /\ UNCHANGED <<ring, start, end, produced, left, base, mark, viewer>>

\* ppu::reset() between two frames: the ring is left as it is.
RingReset ==
    /\ at = "idle" /\ first' = TRUE
    /\ UNCHANGED <<ring, start, end, produced, left, at, base, mark, handed, viewer>>

-----------------------------------------------------------------------------
(* read_samples() in the viewer, one sample at a time.                     *)
BeginView ==
    /\ ~viewing /\ viewing' = TRUE
    /\ index' = start /\ view' = <<>> /\ since' = produced - mark
    /\ UNCHANGED <<thread, start>>

ViewSample ==
    /\ viewing /\ Len(view) < View /\ index # end
    /\ view' = Append(view, ring[index])
    /\ index' = Following(index)
    /\ UNCHANGED <<thread, start, viewing, since>>

EndView ==
    /\ viewing /\ (Len(view) = View \/ index = end)
    /\ viewing' = FALSE
    /\ UNCHANGED <<thread, start, index, view, since>>

RingNext ==
    \/ BeginFrame \/ Sample \/ EndFrame \/ CopyFrame \/ RingReset
    \/ BeginView \/ ViewSample \/ EndView

RingSpec == RingInit /\ [][RingNext]_ringVars

-----------------------------------------------------------------------------
Consecutive(s) == \A i \in 1..Len(s) - 1 : s[i + 1] = s[i] + 1

(* What the window gets of a frame is that frame's samples, from its first *)
(* one and in order, at most Take of them.  The first frame after a reset  *)
(* is left out: the mark is not moved for it.                              *)
FrameHandedOver ==
    [][CopyFrame /\ ~first =>
          /\ Len(handed') = IF produced - base < Take THEN produced - base ELSE Take
          /\ \A i \in 1..Len(handed') : handed'[i] = base + i - 1]_ringVars

(* The viewer's unlocked copy is a stretch of consecutive samples as long  *)
(* as the thread has not got round the ring since the mark it started at:  *)
(* almost four frames, or three behind a reset.                            *)
ViewIsContiguous == since <= Size => Consecutive(view)
=============================================================================
