--------------------------- MODULE Emulation_proof ---------------------------
(***************************************************************************)
(* Emulation for any menu, any number of tests and frames, and any bounds: *)
(* the window and the thread agree between two events, the cartridge is    *)
(* exchanged only when the thread is gone, and no frame runs without one.  *)
(* Without a user at the menu a test sees only its own game.               *)
(*                                                                         *)
(* Inv says which step of a handler may follow which, and what the flags   *)
(* are when each step is the next one.  For the tests, Alone adds which    *)
(* events wait in the queue and behind which steps.                        *)
(***************************************************************************)
EXTENDS Emulation, TLAPS

Ops == {"signal", "join", "stopped", "unload", "load", "hard", "start", "run",
        "pause", "dialog", "shot", "end", "begin", "finish", "destroy"}

Follows(a, b) ==
    \/ a = "signal" /\ b = "join"
    \/ a = "join" /\ b = "stopped"
    \/ a = "stopped" /\ b \in {"signal", "unload"}
    \/ a = "unload" /\ b \in {"signal", "load", "end", "finish", "destroy"}
    \/ a = "load" /\ b \in {"run", "begin"}
    \/ a = "hard" /\ b = "start"
    \/ a = "pause" /\ b = "dialog"
    \/ a = "dialog" /\ b = "pause"
    \/ a = "shot" /\ b = "signal"

\* A handler may end with this step.
MayEnd(a) == a \in Ops \ {"signal", "join", "hard", "shot"}

Linked(s) ==
    /\ s \in Seq(Ops)
    /\ \A i \in 1..(Len(s) - 1) : Follows(s[i], s[i + 1])

Ready(s) == Linked(s) /\ (Len(s) > 0 => MayEnd(s[Len(s)]))

Types ==
    /\ t_running \in BOOLEAN /\ t_paused \in BOOLEAN
    /\ running \in BOOLEAN /\ paused \in BOOLEAN
    /\ pc \in {"off", "check", "parked", "frame", "emit"}

\* What InStep says of the flags.
Agree ==
    /\ t_running = running /\ t_paused = paused
    /\ paused => running
    /\ ~running => pc = "off"

Quiet == ~t_running /\ ~t_paused /\ pc = "off"

\* What holds when op is the next step of a handler.
Fits(op) ==
    /\ op = "join" => ~t_running /\ ~t_paused
    /\ op = "stopped" => Quiet
    /\ op \in {"hard", "start"} => Quiet /\ running /\ ~paused
    /\ op \in {"unload", "load", "begin", "end", "finish", "destroy"} =>
         Agree /\ ~running
    /\ op \in {"signal", "run", "pause", "dialog", "shot", "idle"} => Agree

Plain ==
    /\ Ready(todo)
    /\ IF todo = <<>> THEN Fits("idle") ELSE Fits(Head(todo))

\* The handler of Reset, which is not part of a longer one.
Resetting ==
    \/ todo = Restart /\ Agree /\ running /\ ~paused
    \/ todo = <<"join", "reset", "start">> /\ ~t_running /\ ~t_paused
         /\ running /\ ~paused
    \/ todo = <<"reset", "start">> /\ Quiet /\ running /\ ~paused
    \/ todo = <<"reset">> /\ Agree

CartInv == running \/ pc # "off" => cart = "game"

Inv == Types /\ CartInv /\ (Plain \/ Resetting)

-----------------------------------------------------------------------------
(* Sequences of steps.                                                     *)
LEMMA TailReady ==
    ASSUME NEW s, Ready(s), s # <<>>
    PROVE  /\ Ready(Tail(s))
           /\ Tail(s) = <<>> => MayEnd(Head(s))
           /\ Tail(s) # <<>> => Follows(Head(s), Head(Tail(s)))
           /\ Head(s) \in Ops
<1>1. s \in Seq(Ops) /\ Len(s) \in Nat /\ Len(s) > 0 /\ Head(s) = s[1]
  BY DEF Ready, Linked
<1>2. /\ Tail(s) \in Seq(Ops) /\ Len(Tail(s)) = Len(s) - 1
      /\ \A i \in 1..(Len(s) - 1) : Tail(s)[i] = s[i + 1]
  BY <1>1
<1>3. \A i \in 1..(Len(Tail(s)) - 1) : Follows(Tail(s)[i], Tail(s)[i + 1])
  <2> TAKE i \in 1..(Len(Tail(s)) - 1)
  <2>1. /\ i \in 1..(Len(s) - 1) /\ i + 1 \in 1..(Len(s) - 1)
    BY <1>1, <1>2
  <2> QED
    BY <1>2, <2>1 DEF Ready, Linked
<1>4. Len(Tail(s)) > 0 => MayEnd(Tail(s)[Len(Tail(s))])
  <2> HAVE Len(Tail(s)) > 0
  <2>1. Len(s) - 1 \in 1..(Len(s) - 1) /\ Len(s) - 1 + 1 = Len(s)
    BY <1>1, <1>2
  <2>2. Tail(s)[Len(Tail(s))] = s[Len(s)]
    BY <1>2, <2>1
  <2> QED
    BY <1>1, <2>2 DEF Ready
<1>5. Tail(s) = <<>> => MayEnd(Head(s))
  <2> HAVE Tail(s) = <<>>
  <2>1. Len(Tail(s)) = 0
    OBVIOUS
  <2>2. Len(s) = 1
    BY <1>1, <1>2, <2>1
  <2> QED
    BY <1>1, <2>2 DEF Ready
<1>6. Tail(s) # <<>> => Follows(Head(s), Head(Tail(s)))
  <2> HAVE Tail(s) # <<>>
  <2>1. Len(Tail(s)) > 0 /\ Head(Tail(s)) = Tail(s)[1]
    BY <1>2
  <2>2. 1 \in 1..(Len(s) - 1)
    BY <1>1, <1>2, <2>1
  <2> QED
    BY <1>1, <1>2, <2>1, <2>2 DEF Ready, Linked
<1> QED
  BY <1>1, <1>2, <1>3, <1>4, <1>5, <1>6 DEF Ready, Linked

\* One handler calls another.
LEMMA JoinReady ==
    ASSUME NEW s, NEW t, Linked(s), Ready(t), s # <<>>, t # <<>>,
           Follows(s[Len(s)], Head(t))
    PROVE  Ready(s \o t) /\ s \o t # <<>> /\ Head(s \o t) = Head(s)
           /\ (s \o t)[Len(s \o t)] = t[Len(t)]
<1>1. /\ s \in Seq(Ops) /\ t \in Seq(Ops) /\ Len(s) \in Nat \ {0} /\ Len(t) \in Nat \ {0}
      /\ Head(t) = t[1] /\ Head(s) = s[1]
  BY DEF Ready, Linked
<1>2. /\ s \o t \in Seq(Ops) /\ Len(s \o t) = Len(s) + Len(t)
      /\ \A i \in 1..Len(s) : (s \o t)[i] = s[i]
      /\ \A i \in 1..Len(t) : (s \o t)[Len(s) + i] = t[i]
  BY <1>1
<1>3. ASSUME NEW i \in 1..(Len(s \o t) - 1)
      PROVE  Follows((s \o t)[i], (s \o t)[i + 1])
  <2>1. CASE i < Len(s)
    <3>1. i \in 1..(Len(s) - 1) /\ i \in 1..Len(s) /\ i + 1 \in 1..Len(s)
      BY <1>1, <2>1
    <3> QED
      BY <1>2, <3>1 DEF Ready, Linked
  <2>2. CASE i = Len(s)
    <3>1. (s \o t)[i] = s[Len(s)]
      BY <1>1, <1>2, <2>2
    <3>2. (s \o t)[i + 1] = t[1]
      <4>1. 1 \in 1..Len(t)
        BY <1>1
      <4> QED
        BY <1>2, <2>2, <4>1
    <3> QED
      BY <1>1, <3>1, <3>2
  <2>3. CASE i > Len(s)
    <3> DEFINE j == i - Len(s)
    <3>1. /\ j \in 1..(Len(t) - 1) /\ j \in 1..Len(t) /\ j + 1 \in 1..Len(t)
          /\ i = Len(s) + j /\ i + 1 = Len(s) + (j + 1)
      BY <1>1, <1>2, <2>3
    <3>2. (s \o t)[i] = t[j] /\ (s \o t)[i + 1] = t[j + 1]
      BY <1>2, <3>1
    <3> QED
      BY <3>1, <3>2 DEF Ready, Linked
  <2> QED
    BY <1>1, <1>2, <2>1, <2>2, <2>3
<1>4. (s \o t)[Len(s \o t)] = t[Len(t)]
  <2>1. Len(t) \in 1..Len(t)
    BY <1>1
  <2> QED
    BY <1>2, <2>1
<1>5. Head(s \o t) = s[1] /\ s \o t # <<>>
  BY <1>1, <1>2
<1> QED
  BY <1>1, <1>2, <1>3, <1>4, <1>5 DEF Ready, Linked

LEMMA ShortReady ==
    /\ Ready(<<>>) /\ Ready(Stop)
    /\ \A op \in Ops : MayEnd(op) => Ready(<<op>>)
    /\ Ready(<<"hard", "start">>) /\ Ready(<<"pause", "dialog", "pause">>)
    /\ Ready(<<"load", "run">>) /\ Ready(<<"load", "begin">>)
    /\ Linked(<<"shot">>)
  BY DEF Ready, Linked, Follows, MayEnd, Ops, Stop

LEMMA NothingFollows == ASSUME NEW s \in Seq(Ops) PROVE s \o <<>> = s
  OBVIOUS

\* The handlers that are put together from others.
LEMMA FreeReady ==
    /\ Ready(Free) /\ Free # <<>> /\ Head(Free) = "signal"
    /\ Free[Len(Free)] = "unload"
<1>1. Ready(Stop) /\ Stop # <<>> /\ Head(Stop) = "signal" /\ Stop[Len(Stop)] = "stopped"
  BY ShortReady DEF Stop
<1>2. /\ Ready(<<"unload">>) /\ <<"unload">> # <<>> /\ Head(<<"unload">>) = "unload"
      /\ <<"unload">>[Len(<<"unload">>)] = "unload"
  BY ShortReady DEF Ops, MayEnd
<1> QED
  BY <1>1, <1>2, JoinReady DEF Free, Ready, Follows

LEMMA FreeBetween ==
    ASSUME NEW s, NEW t, Linked(s), s # <<>>, s[Len(s)] = "stopped", Ready(t), t # <<>>,
           Head(t) \in {"signal", "load", "end", "finish", "destroy"}
    PROVE  Ready(s \o Free \o t) /\ Head(s \o Free \o t) = Head(s)
<1>1. /\ Linked(s \o Free) /\ s \o Free # <<>> /\ Head(s \o Free) = Head(s)
      /\ (s \o Free)[Len(s \o Free)] = "unload"
  <2>1. Follows(s[Len(s)], Head(Free))
    BY FreeReady DEF Follows
  <2> QED
    BY <2>1, FreeReady, JoinReady DEF Ready
<1>2. Follows((s \o Free)[Len(s \o Free)], Head(t))
  BY <1>1 DEF Follows
<1> QED
  BY <1>1, <1>2, JoinReady

LEMMA StopFreeReady ==
    ASSUME NEW t, Ready(t), t # <<>>,
           Head(t) \in {"signal", "load", "end", "finish", "destroy"}
    PROVE  /\ Ready(Stop \o Free \o t)
           /\ Head(Stop \o Free \o t) = "signal"
           /\ Ready(<<"shot">> \o Stop \o Free \o t)
           /\ Head(<<"shot">> \o Stop \o Free \o t) = "shot"
<1>1. /\ Ready(Stop) /\ Linked(Stop) /\ Stop # <<>>
      /\ Head(Stop) = "signal" /\ Stop[Len(Stop)] = "stopped"
  BY ShortReady DEF Stop, Ready
<1>2. /\ Linked(<<"shot">>) /\ <<"shot">> # <<>> /\ Head(<<"shot">>) = "shot"
      /\ <<"shot">>[Len(<<"shot">>)] = "shot"
  BY ShortReady
<1> DEFINE s == <<"shot">> \o Stop
<1>3. /\ Linked(s) /\ s # <<>> /\ Head(s) = "shot" /\ s[Len(s)] = "stopped"
  BY <1>1, <1>2, JoinReady DEF Follows, Ready
<1> HIDE DEF s
<1>4. Ready(s \o Free \o t) /\ Head(s \o Free \o t) = "shot"
  BY <1>3, FreeBetween
<1> QED
  BY <1>1, <1>4, FreeBetween DEF s

LEMMA FreeDestroyReady ==
    /\ Ready(Free \o <<"destroy">>) /\ Free \o <<"destroy">> # <<>>
    /\ Head(Free \o <<"destroy">>) = "signal"
<1>1. /\ Ready(<<"destroy">>) /\ <<"destroy">> # <<>>
      /\ Head(<<"destroy">>) = "destroy"
  BY ShortReady DEF Ops, MayEnd
<1>2. Follows(Free[Len(Free)], Head(<<"destroy">>))
  BY <1>1, FreeReady DEF Follows
<1> QED
  BY <1>1, <1>2, FreeReady, JoinReady DEF Ready

-----------------------------------------------------------------------------
(* What one step of a handler leaves to do.                                *)
LEMMA PlainDone ==
    ASSUME NEW op, Plain, Do(op), Done,
           MayEnd(op) => Fits("idle")',
           \A b \in Ops : Follows(op, b) => Fits(b)'
    PROVE  Plain'
<1>1. Ready(todo) /\ todo # <<>> /\ Head(todo) = op /\ todo' = Tail(todo)
  BY DEF Plain, Do, Done
<1>2. /\ Ready(todo')
      /\ todo' = <<>> => MayEnd(op)
      /\ todo' # <<>> => Follows(op, Head(todo'))
  BY <1>1, TailReady
<1>3. todo' # <<>> => Head(todo') \in Ops
  BY <1>2, TailReady
<1>4. CASE todo' = <<>>
  BY <1>2, <1>4 DEF Plain
<1>5. CASE todo' # <<>>
  <2>1. Fits(Head(todo))'
    BY <1>2, <1>3, <1>5 DEF Fits
  <2> QED
    BY <1>2, <1>5, <2>1 DEF Plain
<1> QED
  BY <1>4, <1>5

\* A program that may begin when the flags agree.
LEMMA PlainBegins ==
    ASSUME Ready(todo'), Agree',
           todo' # <<>> => Head(todo') \in {"signal", "run", "pause", "dialog", "shot"}
    PROVE  Plain'
  BY DEF Plain, Fits

\* What is fit when the handler has not moved, as in a step of the thread.
LEMMA PlainStays ==
    ASSUME Plain, todo' = todo, \A op \in Ops \cup {"idle"} : Fits(op) => Fits(op)'
    PROVE  Plain'
<1>1. todo # <<>> => Head(todo) \in Ops
  BY TailReady DEF Plain
<1> QED
  BY <1>1 DEF Plain

LEMMA NotInPlain == ASSUME Plain, todo # <<>> PROVE Head(todo) \in Ops /\ Fits(Head(todo))
  BY TailReady DEF Plain

-----------------------------------------------------------------------------
(* Every action keeps the invariant.                                       *)
LEMMA InitInv == Init => Inv
<1> SUFFICES ASSUME Init PROVE Inv
  OBVIOUS
<1>1. Types /\ CartInv /\ Agree
  BY DEF Init, Types, CartInv, Agree
<1>2. Ready(todo)
  BY ShortReady DEF Init, Ops, MayEnd
<1>3. Plain
  BY <1>1, <1>2 DEF Plain, Fits, Init
<1> QED
  BY <1>1, <1>3 DEF Inv

LEMMA ThreadInv == ASSUME Inv, Thread PROVE Inv'
<1> USE DEF thread, machine, window
<1>1. todo' = todo
  BY DEF Thread, Check, RunFrame, Emit
<1>2. /\ Types /\ running' = running /\ paused' = paused /\ cart' = cart
      /\ t_running' = t_running /\ t_paused' = t_paused /\ pc # "off"
  BY DEF Thread, Check, RunFrame, Emit, Inv, Types
<1>3. /\ pc' \in {"off", "check", "parked", "frame", "emit"}
      /\ t_running => pc' # "off"
  BY <1>2 DEF Thread, Check, RunFrame, Emit, Types
<1>4. Types' /\ CartInv'
  BY <1>2, <1>3 DEF Types, CartInv, Inv
<1>5. (Agree => Agree') /\ ~Quiet
  BY <1>2, <1>3 DEF Agree, Quiet, Types
<1>6. CASE Plain
  <2>1. \A op \in Ops \cup {"idle"} : Fits(op) => Fits(op)'
    BY <1>2, <1>5 DEF Fits
  <2> QED
    BY <1>1, <1>4, <1>6, <2>1, PlainStays DEF Inv
<1>7. CASE Resetting
  <2>1. Resetting'
    BY <1>1, <1>2, <1>5, <1>7 DEF Resetting
  <2> QED
    BY <1>4, <2>1 DEF Inv
<1> QED
  BY <1>6, <1>7 DEF Inv

LEMMA StoppingInv ==
    ASSUME Inv, Signal \/ Join \/ Stopped \/ Unload \/ Load PROVE Inv'
<1> USE DEF thread, machine, window
<1>1. CASE Signal
  <2>1. /\ Types' /\ CartInv' /\ ~t_running' /\ ~t_paused'
        /\ running' = running /\ paused' = paused
    BY <1>1 DEF Signal, Wake, Inv, Types, CartInv
  <2>2. CASE Plain
    <3>1. Fits("join")'
      BY <2>1 DEF Fits
    <3>2. Plain'
      BY <1>1, <2>2, <3>1, PlainDone DEF Signal, Follows, MayEnd, Ops
    <3> QED
      BY <2>1, <3>2 DEF Inv
  <2>3. CASE Resetting
    <3>1. todo = Restart /\ todo' = Tail(todo)
      BY <1>1, <2>3 DEF Resetting, Signal, Do, Done, Restart
    <3>2. todo' = <<"join", "reset", "start">>
      BY <3>1 DEF Restart
    <3>3. running /\ ~paused
      BY <2>3, <3>1 DEF Resetting, Restart
    <3> QED
      BY <2>1, <3>2, <3>3 DEF Inv, Resetting
  <2> QED
    BY <2>2, <2>3 DEF Inv
<1>2. CASE Join
  <2>1. /\ Types' /\ CartInv' /\ pc' = "off"
        /\ running' = running /\ paused' = paused
        /\ t_running' = t_running /\ t_paused' = t_paused
    BY <1>2 DEF Join, Inv, Types, CartInv
  <2>2. CASE Plain
    <3>1. Fits("stopped")'
      <4>1. Fits("join")
        BY <1>2, <2>2, NotInPlain DEF Join, Do
      <4> QED
        BY <2>1, <4>1 DEF Fits, Quiet
    <3>2. Plain'
      BY <1>2, <2>2, <3>1, PlainDone DEF Join, Follows, MayEnd, Ops
    <3> QED
      BY <2>1, <3>2 DEF Inv
  <2>3. CASE Resetting
    <3>1. todo = <<"join", "reset", "start">> /\ todo' = Tail(todo)
      BY <1>2, <2>3 DEF Resetting, Join, Do, Done, Restart
    <3>2. todo' = <<"reset", "start">>
      BY <3>1
    <3>3. Quiet' /\ running' /\ ~paused'
      BY <2>1, <2>3, <3>1 DEF Resetting, Restart, Quiet
    <3> QED
      BY <2>1, <3>2, <3>3 DEF Inv, Resetting
  <2> QED
    BY <2>2, <2>3 DEF Inv
<1>3. CASE Stopped
  <2>1. Plain /\ Fits("stopped")
    BY <1>3, NotInPlain DEF Stopped, Do, Inv, Resetting, Restart
  <2>2. Types' /\ CartInv' /\ Agree' /\ ~running'
    BY <1>3, <2>1 DEF Stopped, Inv, Types, CartInv, Fits, Quiet, Agree
  <2>3. Plain'
    <3>1. \A b \in Ops \cup {"idle"} : Follows("stopped", b) \/ b = "idle" => Fits(b)'
      BY <2>2 DEF Fits, Follows
    <3> QED
      BY <1>3, <2>1, <3>1, PlainDone DEF Stopped
  <2> QED
    BY <2>2, <2>3 DEF Inv
<1>4. CASE Unload
  <2>1. Plain /\ Fits("unload")
    BY <1>4, NotInPlain DEF Unload, Do, Inv, Resetting, Restart
  <2>2. Types' /\ CartInv' /\ Agree' /\ ~running'
    BY <1>4, <2>1 DEF Unload, Inv, Types, CartInv, Fits, Agree
  <2>3. Plain'
    <3>1. \A b \in Ops \cup {"idle"} : Follows("unload", b) \/ b = "idle" => Fits(b)'
      BY <2>2 DEF Fits, Follows
    <3> QED
      BY <1>4, <2>1, <3>1, PlainDone DEF Unload
  <2> QED
    BY <2>2, <2>3 DEF Inv
<1>5. CASE Load
  <2>1. Plain /\ Fits("load")
    BY <1>5, NotInPlain DEF Load, Do, Inv, Resetting, Restart
  <2>2. Types' /\ CartInv' /\ Agree' /\ ~running'
    BY <1>5, <2>1 DEF Load, Inv, Types, CartInv, Fits, Agree
  <2>3. Plain'
    <3>1. \A b \in Ops \cup {"idle"} : Follows("load", b) \/ b = "idle" => Fits(b)'
      BY <2>2 DEF Fits, Follows
    <3> QED
      BY <1>5, <2>1, <3>1, PlainDone DEF Load
  <2> QED
    BY <2>2, <2>3 DEF Inv
<1> QED
  BY <1>1, <1>2, <1>3, <1>4, <1>5

LEMMA GameInv ==
    ASSUME Inv, HardReset \/ Reset \/ Start \/ Run \/ Pause PROVE Inv'
<1> USE DEF thread, machine, window
<1>1. CASE HardReset
  <2>1. Plain /\ Fits("hard")
    BY <1>1, NotInPlain DEF HardReset, Do, Inv, Resetting, Restart
  <2>2. Types' /\ CartInv' /\ Fits("start")'
    BY <1>1, <2>1 DEF HardReset, Inv, Types, CartInv, Fits, Quiet
  <2>3. Plain'
    BY <1>1, <2>1, <2>2, PlainDone DEF HardReset, Follows, MayEnd
  <2> QED
    BY <2>2, <2>3 DEF Inv
<1>2. CASE Reset
  <2>1. Types' /\ CartInv'
    BY <1>2 DEF Reset, Inv, Types, CartInv
  <2>2. todo # <<>> /\ Head(todo) = "reset" /\ todo' = Tail(todo)
    BY <1>2 DEF Reset, Do, Done
  <2>3. ~Plain
    BY <2>2, NotInPlain DEF Ops
  <2>4. CASE todo = <<"reset", "start">> /\ Quiet /\ running /\ ~paused
    <3>1. todo' = <<"start">> /\ Fits("start")'
      BY <1>2, <2>2, <2>4 DEF Reset, Fits, Quiet
    <3>2. Ready(<<"start">>) /\ <<"start">> # <<>> /\ Head(<<"start">>) = "start"
      BY ShortReady DEF Ops, MayEnd
    <3> QED
      BY <2>1, <3>1, <3>2 DEF Inv, Plain
  <2>5. CASE todo = <<"reset">> /\ Agree
    <3>1. todo' = <<>> /\ Agree'
      BY <1>2, <2>2, <2>5 DEF Reset, Agree
    <3> QED
      BY <2>1, <3>1, ShortReady, PlainBegins DEF Inv
  <2> QED
    BY <2>2, <2>3, <2>4, <2>5 DEF Inv, Resetting, Restart
<1>3. CASE Start
  <2>1. Plain /\ Fits("start")
    BY <1>3, NotInPlain DEF Start, Do, Inv, Resetting, Restart
  <2>2. Types' /\ CartInv' /\ Agree'
    BY <1>3, <2>1 DEF Start, Inv, Types, CartInv, Fits, Quiet, Agree
  <2>3. Plain'
    <3>1. Fits("idle")' /\ \A b \in Ops : ~Follows("start", b)
      BY <2>2 DEF Fits, Follows
    <3> QED
      BY <1>3, <2>1, <3>1, PlainDone DEF Start
  <2> QED
    BY <2>2, <2>3 DEF Inv
<1>4. CASE Run
  <2>1. Plain /\ Agree /\ todo # <<>> /\ Head(todo) = "run"
    BY <1>4, NotInPlain DEF Run, Do, Inv, Resetting, Restart, Fits
  <2>2. Tail(todo) = <<>>
    BY <2>1, TailReady DEF Plain, Follows
  <2>3. CASE paused /\ todo' = <<"pause">> \o Tail(todo) /\ UNCHANGED window
    <3>1. todo' = <<"pause">>
      <4>1. <<"pause">> \in Seq(Ops)
        BY DEF Ops
      <4> QED
        BY <2>2, <2>3, <4>1, NothingFollows
    <3>2. Ready(<<"pause">>) /\ Head(<<"pause">>) = "pause"
      BY ShortReady DEF Ops, MayEnd
    <3>3. Types' /\ CartInv' /\ Agree'
      BY <1>4, <2>1, <2>3 DEF Run, Inv, Types, CartInv, Agree
    <3> QED
      BY <3>1, <3>2, <3>3, PlainBegins DEF Inv
  <2>4. CASE ~paused /\ (running \/ ~Mapped) /\ Done /\ UNCHANGED window
    <3>1. todo' = <<>>
      BY <2>2, <2>4 DEF Done
    <3>2. Types' /\ CartInv' /\ Agree'
      BY <1>4, <2>1, <2>4 DEF Run, Inv, Types, CartInv, Agree
    <3> QED
      BY <3>1, <3>2, ShortReady, PlainBegins DEF Inv
  <2>5. CASE /\ ~paused /\ ~running /\ Mapped
             /\ todo' = <<"hard", "start">> \o Tail(todo)
             /\ running' = TRUE /\ paused' = FALSE
    <3>1. todo' = <<"hard", "start">>
      <4>1. <<"hard", "start">> \in Seq(Ops)
        BY DEF Ops
      <4> QED
        BY <2>2, <2>5, <4>1, NothingFollows
    <3>2. Ready(<<"hard", "start">>) /\ Head(<<"hard", "start">>) = "hard"
          /\ <<"hard", "start">> # <<>>
      BY ShortReady
    <3>3. Types' /\ CartInv' /\ Fits("hard")'
      BY <1>4, <2>1, <2>5
      DEF Run, Inv, Types, CartInv, Agree, Mapped, Fits, Quiet
    <3> QED
      BY <3>1, <3>2, <3>3 DEF Inv, Plain
  <2> QED
    BY <1>4, <2>3, <2>4, <2>5 DEF Run
<1>5. CASE Pause
  <2>1. Plain /\ Agree
    BY <1>5, NotInPlain DEF Pause, Do, Inv, Resetting, Restart, Fits
  <2>2. Types' /\ CartInv' /\ Agree'
    <3>1. CASE running /\ ~paused /\ paused' = TRUE /\ t_paused' = TRUE /\ pc' = pc
      BY <1>5, <2>1, <3>1 DEF Pause, Inv, Types, CartInv, Agree
    <3>2. CASE running /\ paused /\ paused' = FALSE /\ t_paused' = FALSE /\ pc' = Wake
      BY <1>5, <2>1, <3>2 DEF Pause, Inv, Types, CartInv, Agree, Wake
    <3>3. CASE UNCHANGED <<paused, t_paused, pc>>
      BY <1>5, <2>1, <3>3 DEF Pause, Inv, Types, CartInv, Agree
    <3> QED
      BY <1>5, <3>1, <3>2, <3>3 DEF Pause
  <2>3. Plain'
    <3>1. Fits("idle")' /\ \A b \in Ops : Follows("pause", b) => Fits(b)'
      BY <2>2 DEF Fits, Follows
    <3> QED
      BY <1>5, <2>1, <3>1, PlainDone DEF Pause
  <2> QED
    BY <2>2, <2>3 DEF Inv
<1> QED
  BY <1>1, <1>2, <1>3, <1>4, <1>5

LEMMA TestInv ==
    ASSUME Inv, Shot \/ EndTest \/ BeginTest \/ PostClose \/ Destroy \/ Dismiss
    PROVE  Inv'
<1> USE DEF thread, machine, window
<1>1. /\ UNCHANGED <<t_running, t_paused, pc, cart, running, paused>>
      /\ \E op \in {"shot", "end", "begin", "finish", "destroy", "dialog"} : Do(op)
  BY DEF Shot, EndTest, BeginTest, PostClose, Destroy, Dismiss
<1>2. Plain /\ Agree /\ todo # <<>> /\ (Head(todo) \in {"end", "begin", "finish", "destroy"} => ~running)
  BY <1>1, NotInPlain DEF Do, Inv, Resetting, Restart, Fits
<1>3. Types' /\ CartInv' /\ Agree'
  BY <1>1, <1>2 DEF Inv, Types, CartInv, Agree
<1>4. CASE Done
  <2> PICK op \in {"shot", "end", "begin", "finish", "destroy", "dialog"} : Do(op)
    BY <1>1
  <2>1. Fits("idle")' /\ \A b \in Ops : Follows(op, b) => Fits(b)'
    BY <1>3 DEF Fits, Follows
  <2>2. Plain'
    BY <1>2, <1>4, <2>1, PlainDone
  <2> QED
    BY <1>3, <2>2 DEF Inv
<1>5. CASE todo' = <<"run">>
  <2>1. Ready(<<"run">>) /\ Head(<<"run">>) = "run"
    BY ShortReady DEF Ops, MayEnd
  <2> QED
    BY <1>3, <1>5, <2>1, PlainBegins DEF Inv
<1> QED
  BY <1>4, <1>5 DEF Shot, EndTest, BeginTest, PostClose, Destroy, Dismiss

\* An event or an action of the user begins a handler and changes nothing
\* that the invariant speaks of besides.
LEMMA BeginInv ==
    ASSUME Inv, UNCHANGED <<t_running, t_paused, pc, cart, running, paused>>, Agree,
           \/ /\ Ready(todo')
              /\ todo' # <<>> => Head(todo') \in {"signal", "run", "pause", "dialog", "shot"}
           \/ todo' = Restart /\ running /\ ~paused
           \/ todo' = <<"reset">>
    PROVE  Inv'
<1>1. Types' /\ CartInv' /\ Agree'
  BY DEF Inv, Types, CartInv, Agree
<1>2. CASE todo' = Restart /\ running /\ ~paused
  BY <1>1, <1>2 DEF Inv, Resetting
<1>3. CASE todo' = <<"reset">>
  BY <1>1, <1>3 DEF Inv, Resetting
<1> QED
  BY <1>1, <1>2, <1>3, PlainBegins DEF Inv

LEMMA IdleAgree == ASSUME Inv, todo = <<>> \/ Do("dialog") PROVE Agree
<1>1. CASE todo = <<>>
  BY <1>1 DEF Inv, Plain, Fits, Resetting, Restart
<1>2. CASE Do("dialog")
  BY <1>2, NotInPlain DEF Inv, Do, Fits, Resetting, Restart
<1> QED
  BY <1>1, <1>2

LEMMA EventInv == ASSUME Inv, Event PROVE Inv'
<1> USE DEF thread, machine, window
<1>1. UNCHANGED <<t_running, t_paused, pc, cart, running, paused>>
  BY DEF Event, OnFrameCompleted, Counted, NextTest, CloseWindow
<1>2. Agree
  BY IdleAgree DEF Event, OnFrameCompleted, NextTest, CloseWindow, Idle
<1>3. CASE NextTest
  <2>1. PICK t \in {<<"load", "begin">>, <<"finish">>} : todo' = Stop \o Free \o t
    BY <1>3 DEF NextTest
  <2>2. Ready(t) /\ t # <<>> /\ Head(t) \in {"load", "finish"}
    BY ShortReady DEF Ops, MayEnd
  <2>3. Ready(todo') /\ Head(todo') \in {"signal", "shot"}
    BY <2>1, <2>2, StopFreeReady
  <2> QED
    BY <1>1, <1>2, <2>3, BeginInv
<1>4. CASE CloseWindow
  <2>1. Ready(todo') /\ Head(todo') = "signal"
    BY <1>4, FreeDestroyReady DEF CloseWindow
  <2> QED
    BY <1>1, <1>2, <2>1, BeginInv
<1>5. CASE OnFrameCompleted
  <2>1. CASE todo' = todo
    <3>1. Types' /\ CartInv' /\ Agree'
      BY <1>1, <1>2 DEF Inv, Types, CartInv, Agree
    <3>2. CASE todo = <<>>
      BY <2>1, <3>1, <3>2, ShortReady, PlainBegins DEF Inv
    <3>3. CASE todo # <<>>
      <4>1. Plain
        BY <1>5, <3>3 DEF OnFrameCompleted, Idle, Do, Inv, Resetting, Restart
      <4>2. Ready(todo') /\ Head(todo') = "dialog"
        BY <1>5, <2>1, <3>3, <4>1 DEF OnFrameCompleted, Idle, Do, Plain
      <4> QED
        BY <3>1, <4>2, PlainBegins DEF Inv
    <3> QED
      BY <3>2, <3>3
  <2>2. CASE Counted /\ running /\ ~paused
    <3>1. PICK t \in {<<"end">>, Free \o <<"destroy">>} :
            todo' \in {Restart, <<>>, <<"shot">> \o Stop \o Free \o t}
      BY <2>2 DEF Counted
    <3>2. Ready(t) /\ t # <<>> /\ Head(t) \in {"end", "signal"}
      <4>1. CASE t = <<"end">>
        BY <4>1, ShortReady DEF Ops, MayEnd
      <4>2. CASE t = Free \o <<"destroy">>
        BY <4>2, FreeDestroyReady
      <4> QED
        BY <4>1, <4>2
    <3>3. CASE todo' = Restart
      BY <1>1, <1>2, <2>2, <3>3, BeginInv
    <3>4. CASE todo' = <<>>
      BY <1>1, <1>2, <3>4, ShortReady, BeginInv
    <3>5. CASE todo' = <<"shot">> \o Stop \o Free \o t
      <4>1. Ready(todo') /\ Head(todo') \in {"signal", "shot"}
        BY <3>2, <3>5, StopFreeReady
      <4> QED
        BY <1>1, <1>2, <4>1, BeginInv
    <3> QED
      BY <3>1, <3>3, <3>4, <3>5
  <2> QED
    BY <1>5, <2>1, <2>2 DEF OnFrameCompleted
<1> QED
  BY <1>3, <1>4, <1>5 DEF Event

LEMMA UserInv == ASSUME Inv, User PROVE Inv'
<1> USE DEF thread, machine, window
<1>1. /\ UNCHANGED <<t_running, t_paused, pc, cart, running, paused>>
      /\ Agree
  BY IdleAgree DEF User, Idle
<1>2. PICK action \in UserActions : todo' = Triggered(action)
  BY MenuAssumption DEF User
<1> DEFINE First == {"signal", "run", "pause", "dialog", "shot"}
<1>3. CASE action \in {"Run", "Stop", "Pause", "Preferences", "Free"}
  <2>1. todo' \in {<<"run">>, Stop, <<"pause">>, <<"pause", "dialog", "pause">>,
                   <<"dialog">>, Free}
    BY <1>2, <1>3 DEF Triggered
  <2>2. Ready(todo') /\ Head(todo') \in First
    <3>1. CASE todo' \in {<<"run">>, <<"pause">>, <<"dialog">>}
      BY <3>1, ShortReady DEF Ops, MayEnd
    <3>2. CASE todo' \in {Stop, <<"pause", "dialog", "pause">>}
      BY <3>2, ShortReady DEF Stop
    <3>3. CASE todo' = Free
      BY <3>3, FreeReady
    <3> QED
      BY <2>1, <3>1, <3>2, <3>3
  <2> QED
    BY <1>1, <2>2, BeginInv
<1>4. CASE action = "Reset"
  <2>1. \/ todo' = <<>>
        \/ todo' = <<"reset">>
        \/ todo' = Restart /\ running /\ ~paused
    BY <1>2, <1>4 DEF Triggered
  <2> QED
    BY <1>1, <2>1, ShortReady, BeginInv
<1>5. CASE action \in {"Load", "Pick"}
  <2>1. PICK t \in {<<"load">>, <<"load", "run">>} : todo' = Stop \o Free \o t
    BY <1>2, <1>5 DEF Triggered
  <2>2. Ready(t) /\ t # <<>> /\ Head(t) = "load"
    BY ShortReady DEF Ops, MayEnd
  <2>3. Ready(todo') /\ Head(todo') \in {"signal", "shot"}
    BY <2>1, <2>2, StopFreeReady
  <2> QED
    BY <1>1, <2>3, BeginInv
<1>6. CASE action = "Close"
  <2>1. Ready(todo') /\ Head(todo') = "signal"
    BY <1>2, <1>6, FreeDestroyReady DEF Triggered
  <2> QED
    BY <1>1, <2>1, BeginInv
<1> QED
  BY <1>3, <1>4, <1>5, <1>6 DEF UserActions

LEMMA StutterInv == ASSUME Inv, UNCHANGED vars PROVE Inv'
<1>1. UNCHANGED <<t_running, t_paused, pc, cart, running, paused, todo>>
  BY DEF vars, thread, machine, window
<1>2. Types' /\ CartInv'
  BY <1>1 DEF Inv, Types, CartInv
<1>3. CASE Plain
  <2>1. \A op \in Ops \cup {"idle"} : Fits(op) => Fits(op)'
    BY <1>1 DEF Fits, Agree, Quiet
  <2> QED
    BY <1>1, <1>2, <1>3, <2>1, PlainStays DEF Inv
<1>4. CASE Resetting
  BY <1>1, <1>2, <1>4 DEF Inv, Resetting, Agree, Quiet
<1> QED
  BY <1>3, <1>4 DEF Inv

\* The inductive invariant of the window and its thread: what is left of the
\* handler that runs is a program the code has, and the flags are as it needs
\* them.
THEOREM Invariant == Spec => []Inv
<1>1. Inv /\ [Next]_vars => Inv'
  BY ThreadInv, StoppingInv, GameInv, TestInv, EventInv, UserInv, StutterInv
  DEF Next, Handler
<1> QED
  BY InitInv, <1>1, PTL DEF Spec

-----------------------------------------------------------------------------
\* Between two events the window's flags are the thread's, and no thread is
\* left behind by a game that was stopped (startLoop, stopLoop, setPaused).
THEOREM InStepHolds == Spec => []InStep
<1>1. Inv => InStep
  BY DEF Inv, Plain, Fits, Agree, Resetting, Restart, InStep
<1> QED
  BY Invariant, <1>1, PTL

\* The cartridge's memory is given back and replaced only after stopLoop() has
\* waited for the thread, whatever the user does and however tests follow.
THEOREM CartUntouchedHolds == Spec => []CartUntouched
<1>1. Inv => CartUntouched
  <2> SUFFICES ASSUME Inv, Do("unload") \/ Do("load") PROVE pc = "off"
    BY DEF CartUntouched
  <2>1. Plain
    BY DEF Inv, Resetting, Restart, Do
  <2> QED
    BY <2>1, NotInPlain DEF Do, Fits, Agree
<1> QED
  BY Invariant, <1>1, PTL

\* The thread runs no frame without a cartridge it can run.
THEOREM FramesNeedCartHolds == Spec => []FramesNeedCart
<1>1. Inv => FramesNeedCart
  BY DEF Inv, CartInv, FramesNeedCart, Mapped
<1> QED
  BY Invariant, <1>1, PTL

\* The property as the run checks it.
THEOREM ThreadInStepHolds == Spec => []ThreadInStep
  BY InStepHolds, CartUntouchedHolds, FramesNeedCartHolds, PTL DEF ThreadInStep

-----------------------------------------------------------------------------
(***************************************************************************)
(* The tests of the command line run by themselves: no menu entry is       *)
(* chosen, so what is posted and what is to do only come from the frames.  *)
(***************************************************************************)
\* A run nobody attends: the tests of --test-config, or one game of the command
\* line with or without a limit of frames.
Unattended == Menu = {} /\ (Rom => Tests = 0)

Events == {"frame", "next", "close"}
OnlyFrames(q) == \A i \in 1..Len(q) : q[i] = "frame"
FramesFirst(q) == \A i \in 1..(Len(q) - 1) : q[i] = "frame"

\* The steps a handler may end with, and what holds from its beginning on.
Lasts == {"end", "begin", "finish", "run", "start", "destroy"}
LastFits(op) ==
    /\ op \in Lasts
    /\ op \in {"end", "destroy"} => OnlyFrames(queue)
    /\ op \in {"begin", "finish"} => queue = <<>> /\ ~running
    /\ op = "run" =>
         todo = <<"run">> /\ FramesFirst(queue) /\ ~running /\ (Mapped => queue = <<>>)
    /\ op = "start" =>
         /\ running
         /\ \/ todo = Restart \/ todo = <<"join", "reset", "start">>
            \/ todo = <<"reset", "start">> \/ todo = <<"hard", "start">>
            \/ todo = <<"start">>

\* What is posted and what is to do when only tests begin and end games: the
\* frames of a game come before the end of its test, and the next test begins
\* when no event is left.
Alone ==
    /\ queue \in Seq(Events)
    /\ ~paused
    /\ \A i \in 1..Len(todo) : todo[i] \notin {"pause", "dialog"}
    /\ ~running => pc = "off" /\ ~t_running
    /\ running => OnlyFrames(queue)
    /\ todo = <<>> => FramesFirst(queue)
    /\ todo # <<>> => LastFits(todo[Len(todo)])

\* A frame that was run and not yet counted is in the queue or in flight.
InFlight == IF pc = "emit" THEN 1 ELSE 0
OwnFrames ==
    /\ raw \in 0..MaxFrames /\ frames \in 0..MaxFrames
    /\ buttons \in BOOLEAN
    /\ frames = 0 => ~buttons
    /\ Do("hard") => raw = 0 /\ queue = <<>>
    /\ running /\ ~Do("hard") =>
         frames = MaxFrames \/ raw + Len(queue) + InFlight <= frames

-----------------------------------------------------------------------------
Steps == Ops \cup {"reset"}

LEMMA TodoIs == ASSUME Inv PROVE todo \in Seq(Steps)
<1>1. CASE Plain
  BY <1>1 DEF Plain, Ready, Linked, Steps
<1>2. /\ Restart \in Seq(Steps) /\ <<"join", "reset", "start">> \in Seq(Steps)
      /\ <<"reset", "start">> \in Seq(Steps) /\ <<"reset">> \in Seq(Steps)
  BY DEF Restart, Steps, Ops
<1>3. CASE Resetting
  BY <1>2, <1>3 DEF Resetting
<1> QED
  BY <1>1, <1>3 DEF Inv

\* After any other step the handler goes on, to the same end.
LEMMA GoesOn ==
    ASSUME Inv, Alone, NEW op, Do(op), Done, op \notin Lasts
    PROVE  /\ todo' # <<>> /\ todo'[Len(todo')] = todo[Len(todo)]
           /\ \A i \in 1..Len(todo') : todo'[i] \notin {"pause", "dialog"}
<1>1. /\ todo \in Seq(Steps) /\ todo # <<>> /\ Len(todo) \in Nat /\ Len(todo) > 0
      /\ Head(todo) = todo[1] /\ todo[1] = op /\ todo' = Tail(todo)
  BY TodoIs DEF Do, Done
<1>2. todo[Len(todo)] \in Lasts
  BY <1>1 DEF Alone, LastFits
<1>3. Len(todo) > 1
  BY <1>1, <1>2
<1>4. /\ Len(todo') = Len(todo) - 1
      /\ \A i \in 1..(Len(todo) - 1) : todo'[i] = todo[i + 1]
  BY <1>1
<1>5. Len(todo) - 1 \in 1..(Len(todo) - 1) /\ Len(todo) - 1 + 1 = Len(todo)
  BY <1>1, <1>3
<1>6. todo' # <<>>
  BY <1>1, <1>3, <1>4
<1>7. todo'[Len(todo')] = todo[Len(todo)]
  BY <1>4, <1>5
<1>8. \A i \in 1..Len(todo') : i + 1 \in 1..Len(todo) /\ i \in 1..(Len(todo) - 1)
  BY <1>1, <1>4
<1> QED
  BY <1>4, <1>6, <1>7, <1>8 DEF Alone

\* A step that may be the last one is.
LEMMA Ends ==
    ASSUME Inv, Alone, NEW op, Do(op), op \in Lasts
    PROVE  Tail(todo) = <<>> /\ todo[Len(todo)] = op /\ LastFits(op) /\ Plain
<1>1. Plain
  BY DEF Inv, Resetting, Restart, Do, Lasts
<1>2. todo # <<>> /\ Head(todo) = op /\ Ready(todo)
  BY <1>1 DEF Do, Plain
<1>3. Tail(todo) = <<>>
  BY <1>2, TailReady DEF Follows, Lasts
<1>4. /\ todo \in Seq(Steps) /\ Len(todo) \in Nat /\ Len(todo) > 0
      /\ Len(Tail(todo)) = Len(todo) - 1 /\ Head(todo) = todo[1]
  BY <1>2, TodoIs
<1>5. Len(Tail(todo)) = 0
  <2>1. Len(<<>>) = 0
    OBVIOUS
  <2> QED
    BY <1>3, <2>1, Zenon
<1>6. Len(todo) = 1
  BY <1>4, <1>5
<1>7. todo[Len(todo)] = op
  BY <1>2, <1>4, <1>6
<1> QED
  BY <1>1, <1>2, <1>3, <1>7 DEF Alone

-----------------------------------------------------------------------------
LEMMA AloneInit == ASSUME Unattended, Init PROVE Alone /\ OwnFrames
<1>1. todo = <<"run">> /\ Len(todo) = 1 /\ todo[1] = "run" /\ todo # <<>>
  BY DEF Init
<1>a. <<>> \in Seq(Events) /\ <<"next">> \in Seq(Events) /\ Len(<<>>) = 0 /\ Len(<<"next">>) = 1
  BY DEF Events
<1>b. FramesFirst(<<>>) /\ FramesFirst(<<"next">>)
  BY <1>a DEF FramesFirst
<1>c. queue \in Seq(Events) /\ FramesFirst(queue)
  BY <1>a, <1>b DEF Init
<1>d. Mapped => queue = <<>>
  BY BoundsAssumption DEF Init, Mapped, Unattended, Regression
<1>2. Alone
  BY <1>1, <1>c, <1>d DEF Alone, LastFits, Lasts, Init
<1>3. ~Do("hard") /\ ~running /\ buttons = FALSE
  BY <1>1 DEF Do, Init
<1>4. raw \in 0..MaxFrames /\ frames \in 0..MaxFrames
  BY BoundsAssumption DEF Init
<1>5. OwnFrames
  BY <1>3, <1>4, Zenon DEF OwnFrames
<1> QED
  BY <1>2, <1>5

LEMMA OneMoreFrame ==
    ASSUME NEW q \in Seq(Events), OnlyFrames(q)
    PROVE  /\ Append(q, "frame") \in Seq(Events) /\ OnlyFrames(Append(q, "frame"))
           /\ Len(Append(q, "frame")) = Len(q) + 1
           /\ Append(q, "next") \in Seq(Events) /\ FramesFirst(Append(q, "next"))
           /\ FramesFirst(q)
  BY DEF OnlyFrames, FramesFirst, Events

LEMMA ThreadAlone == ASSUME Inv, Alone, OwnFrames, Thread PROVE Alone' /\ OwnFrames'
<1> USE DEF thread, machine, window
<1>1. pc # "off" /\ running /\ OnlyFrames(queue)
  BY DEF Thread, Check, RunFrame, Emit, Alone
<1>2. /\ todo' = todo /\ running' = running /\ paused' = paused /\ t_running' = t_running
      /\ raw' = raw /\ buttons' = buttons /\ cart' = cart
  BY DEF Thread, Check, RunFrame, Emit
<1>3. queue' \in Seq(Events) /\ OnlyFrames(queue') /\ FramesFirst(queue')
  BY <1>1, OneMoreFrame DEF Thread, Check, RunFrame, Emit, Alone
<1>4. ~Do("hard")
  <2>1. Do("hard") => Plain
    BY DEF Inv, Resetting, Restart, Do
  <2> QED
    BY <2>1, <1>1, NotInPlain DEF Do, Fits, Quiet
<1>5. todo # <<>> => todo[Len(todo)] \notin {"begin", "finish", "run"}
  BY <1>1 DEF Alone, LastFits
<1>6. Alone'
  BY <1>1, <1>2, <1>3, <1>5 DEF Alone, LastFits
<1>8. Len(queue) \in Nat /\ MaxFrames \in Nat
  BY BoundsAssumption DEF Alone
<1>7. raw' \in 0..MaxFrames /\ frames' \in 0..MaxFrames /\ (frames' = 0 => frames = 0)
  <2>1. raw \in 0..MaxFrames /\ frames \in 0..MaxFrames
    BY DEF OwnFrames
  <2>2. frames' = frames \/ frames' = Upto(frames)
    BY DEF Thread, Check, RunFrame, Emit
  <2>3. Upto(frames) \in 0..MaxFrames /\ (Upto(frames) = 0 => frames = 0)
    BY <1>8, <2>1 DEF Upto
  <2> QED
    BY <1>2, <2>1, <2>2, <2>3
<1>9. frames' = MaxFrames \/ raw' + Len(queue') + InFlight' <= frames'
  <2>1. CASE Check
    BY <2>1, <1>1, <1>2, <1>4, <1>8 DEF Check, OwnFrames, InFlight
  <2>2. CASE RunFrame
    BY <2>2, <1>1, <1>2, <1>4, <1>8 DEF RunFrame, OwnFrames, InFlight, Upto
  <2>3. CASE Emit
    <3>1. Len(queue') = Len(queue) + 1
      BY <2>3, <1>1, OneMoreFrame DEF Emit, Alone
    <3> QED
      BY <2>3, <3>1, <1>1, <1>2, <1>4, <1>8 DEF Emit, OwnFrames, InFlight
  <2> QED
    BY <2>1, <2>2, <2>3 DEF Thread
<1>10. OwnFrames'
  BY <1>2, <1>4, <1>7, <1>9 DEF OwnFrames, Do
<1> QED
  BY <1>6, <1>10

\* Nothing in the middle of a handler is followed by a hard reset.
LEMMA NoHardNext == ASSUME Inv, NEW op, Do(op), todo' = Tail(todo) PROVE ~Do("hard")'
<1>1. CASE Plain
  <2>1. todo' # <<>> => Follows(op, Head(todo'))
    BY <1>1, TailReady DEF Plain, Do
  <2> QED
    BY <2>1 DEF Do, Follows
<1>2. CASE todo = Restart
  <2>1. todo' = <<"join", "reset", "start">>
    BY <1>2 DEF Restart
  <2> QED
    BY <2>1 DEF Do
<1>3. CASE todo = <<"join", "reset", "start">>
  <2>1. todo' = <<"reset", "start">>
    BY <1>3
  <2> QED
    BY <2>1 DEF Do
<1>4. CASE todo = <<"reset", "start">>
  <2>1. todo' = <<"start">>
    BY <1>4
  <2> QED
    BY <2>1 DEF Do
<1>5. CASE todo = <<"reset">>
  <2>1. todo' = <<>>
    BY <1>5
  <2> QED
    BY <2>1 DEF Do
<1> QED
  BY <1>1, <1>2, <1>3, <1>4, <1>5 DEF Inv, Resetting

LEMMA StartGoesOn ==
    ASSUME NEW op, op \notin Lasts, Do(op), todo' = Tail(todo), running', LastFits("start")
    PROVE  LastFits("start")' /\ op # "stopped"
<1>1. CASE todo = Restart
  <2>1. todo' = <<"join", "reset", "start">> /\ op = "signal"
    BY <1>1 DEF Restart, Do
  <2> QED
    BY <2>1 DEF LastFits, Lasts
<1>2. CASE todo = <<"join", "reset", "start">>
  <2>1. todo' = <<"reset", "start">> /\ op = "join"
    BY <1>2 DEF Do
  <2> QED
    BY <2>1 DEF LastFits, Lasts
<1>3. CASE todo = <<"reset", "start">>
  <2>1. todo' = <<"start">> /\ op = "reset"
    BY <1>3 DEF Do
  <2> QED
    BY <2>1 DEF LastFits, Lasts
<1>4. CASE todo = <<"hard", "start">>
  <2>1. todo' = <<"start">> /\ op = "hard"
    BY <1>4 DEF Do
  <2> QED
    BY <2>1 DEF LastFits, Lasts
<1>5. CASE todo = <<"start">>
  <2>1. op = "start"
    BY <1>5 DEF Do
  <2> QED
    BY <2>1 DEF Lasts
<1> QED
  BY <1>1, <1>2, <1>3, <1>4, <1>5 DEF LastFits

LEMMA PartAlone ==
    ASSUME Inv, Alone, OwnFrames,
           Signal \/ Join \/ Stopped \/ Unload \/ Load \/ Shot \/ Reset \/ HardReset
    PROVE  Alone' /\ OwnFrames'
<1> USE DEF thread, machine, window
<1>1. PICK op \in {"signal", "join", "stopped", "unload", "load", "shot", "reset", "hard"} :
        /\ Do(op) /\ Done
        /\ op = "stopped" <=> Stopped
        /\ op = "hard" <=> HardReset
  BY DEF Signal, Join, Stopped, Unload, Load, Shot, Reset, HardReset, Do
<1>2. op \notin Lasts /\ todo' = Tail(todo) /\ todo # <<>> /\ Head(todo) = op
  BY <1>1 DEF Lasts, Done, Do
<1>0. PICK l \in Lasts : l = todo[Len(todo)]
  BY <1>2 DEF Alone, LastFits
<1>3. /\ todo' # <<>> /\ todo'[Len(todo')] = l
      /\ \A i \in 1..Len(todo') : todo'[i] \notin {"pause", "dialog"}
  BY <1>0, <1>1, <1>2, GoesOn
<1>4. LastFits(l)
  BY <1>0, <1>2 DEF Alone
<1>5. queue' = queue /\ ~paused'
  BY DEF Signal, Join, Stopped, Unload, Load, Shot, Reset, HardReset, Alone
<1>6. IF Stopped THEN ~running' ELSE running' = running
  BY DEF Signal, Join, Stopped, Unload, Load, Shot, Reset, HardReset, Do
<1>7. ~running' => pc' = "off" /\ ~t_running'
  <2>1. CASE Stopped
    <3>1. Plain
      BY <2>1 DEF Stopped, Do, Inv, Resetting, Restart
    <3> QED
      BY <2>1, <3>1, NotInPlain DEF Stopped, Do, Fits, Quiet
  <2>2. CASE ~Stopped
    BY <1>6, <2>2 DEF Signal, Join, Unload, Load, Shot, Reset, HardReset, Alone, Wake
  <2> QED
    BY <2>1, <2>2
<1>8. running' => running
  BY <1>6
<1>9. l # "run"
  BY <1>2, <1>4 DEF LastFits, Lasts
<1>10. l = "start" => LastFits("start")'
  <2> HAVE l = "start"
  <2>1. running /\ LastFits("start")
    BY <1>4 DEF LastFits
  <2>2. CASE Stopped
    <3>1. op = "stopped" /\ LastFits("start") /\ todo = todo
      BY <1>1, <2>1, <2>2
    <3> QED
      BY <1>2, <3>1 DEF LastFits, Restart
  <2>3. CASE ~Stopped
    BY <1>1, <1>2, <1>6, <2>1, <2>3, StartGoesOn
  <2> QED
    BY <2>2, <2>3
<1>11. LastFits(l)'
  BY <1>4, <1>5, <1>8, <1>9, <1>10 DEF LastFits
<1>12. Alone'
  BY <1>3, <1>5, <1>7, <1>8, <1>11 DEF Alone
<1>13. ~Do("hard")'
  BY <1>1, <1>2, NoHardNext
<1>14. CASE HardReset
  <2>1. Do("hard") /\ Plain
    BY <1>14 DEF HardReset, Do, Inv, Resetting, Restart
  <2>2. pc = "off" /\ raw = 0 /\ queue = <<>>
    BY <2>1, NotInPlain DEF Do, Fits, Quiet, OwnFrames
  <2>3. raw' = 0 /\ frames' = 0 /\ buttons' = FALSE /\ Len(queue') = 0 /\ InFlight' = 0
    BY <1>5, <1>14, <2>2 DEF HardReset, InFlight
  <2>4. 0 \in 0..MaxFrames /\ 0 + 0 + 0 <= 0
    BY BoundsAssumption
  <2> QED
    BY <1>12, <1>13, <2>3, <2>4 DEF OwnFrames
<1>15. CASE ~HardReset
  <2>1. ~Do("hard")
    BY <1>1, <1>15 DEF Do
  <2>2. frames' = frames /\ (buttons' = buttons \/ buttons' = FALSE)
    BY <1>15 DEF Signal, Join, Stopped, Unload, Load, Shot, Reset
  <2>3. raw' = IF Stopped THEN 0 ELSE raw
    BY <1>15 DEF Signal, Join, Stopped, Unload, Load, Shot, Reset, Do
  <2>4. raw' \in 0..MaxFrames
    BY <2>3, BoundsAssumption DEF OwnFrames
  <2>5. InFlight' = InFlight
    BY <1>15 DEF Signal, Join, Stopped, Unload, Load, Shot, Reset, InFlight, Wake
  <2>6. running' => raw' = raw /\ running
    BY <1>6, <2>3
  <2>7. running' => frames' = MaxFrames \/ raw' + Len(queue') + InFlight' <= frames'
    BY <1>5, <2>1, <2>2, <2>5, <2>6 DEF OwnFrames
  <2>8. /\ buttons \in BOOLEAN /\ (frames = 0 => ~buttons) /\ frames \in 0..MaxFrames
    BY Zenon DEF OwnFrames
  <2>9. buttons' \in BOOLEAN /\ (frames' = 0 => ~buttons') /\ frames' \in 0..MaxFrames
    <3>1. CASE buttons' = buttons
      BY <2>2, <2>8, <3>1
    <3>2. CASE buttons' = FALSE
      BY <2>2, <2>8, <3>2
    <3> QED
      BY <2>2, <3>1, <3>2
  <2> QED
    BY <1>12, <1>13, <2>4, <2>7, <2>9 DEF OwnFrames
<1> QED
  BY <1>14, <1>15

\* A step that ends a handler, and leaves the game's counters alone.
LEMMA HandlerEnds ==
    ASSUME Inv, Alone, OwnFrames, todo' = <<>>,
           queue' \in Seq(Events), FramesFirst(queue'),
           running' => OnlyFrames(queue') /\ queue' = queue /\ running,
           ~running' => pc' = "off" /\ ~t_running',
           ~paused', ~Do("hard"), InFlight' = InFlight,
           UNCHANGED <<raw, frames, buttons>>
    PROVE  Alone' /\ OwnFrames'
<1>1. Len(todo') = 0 /\ ~Do("hard")'
  BY DEF Do
<1>2. Alone'
  BY <1>1 DEF Alone
<1>3. /\ raw' \in 0..MaxFrames /\ frames' \in 0..MaxFrames
      /\ buttons' \in BOOLEAN /\ (frames' = 0 => ~buttons')
  <2>1. /\ raw \in 0..MaxFrames /\ frames \in 0..MaxFrames
        /\ buttons \in BOOLEAN /\ (frames = 0 => ~buttons)
    BY Zenon DEF OwnFrames
  <2> QED
    BY <2>1
<1>4. running' => frames' = MaxFrames \/ raw' + Len(queue') + InFlight' <= frames'
  BY DEF OwnFrames
<1> QED
  BY <1>1, <1>2, <1>3, <1>4, Zenon DEF OwnFrames

LEMMA FramesFew == /\ <<>> \in Seq(Events) /\ <<"next">> \in Seq(Events) /\ <<"close">> \in Seq(Events)
                   /\ Len(<<>>) = 0 /\ OnlyFrames(<<>>) /\ FramesFirst(<<>>)
                   /\ FramesFirst(<<"next">>) /\ FramesFirst(<<"close">>)
                   /\ Append(<<>>, "next") = <<"next">> /\ Append(<<>>, "close") = <<"close">>
<1>1. /\ <<>> \in Seq(Events) /\ <<"next">> \in Seq(Events) /\ <<"close">> \in Seq(Events)
      /\ Len(<<>>) = 0 /\ Len(<<"next">>) = 1 /\ Len(<<"close">>) = 1
  BY DEF Events
<1>2. /\ OnlyFrames(<<>>) /\ FramesFirst(<<>>)
      /\ FramesFirst(<<"next">>) /\ FramesFirst(<<"close">>)
  BY <1>1 DEF OnlyFrames, FramesFirst
<1>3. Append(<<>>, "next") = <<"next">> /\ Append(<<>>, "close") = <<"close">>
  OBVIOUS
<1> QED
  BY <1>1, <1>2, <1>3

LEMMA EndAlone ==
    ASSUME Inv, Alone, OwnFrames, Start \/ Destroy \/ EndTest \/ PostClose
    PROVE  Alone' /\ OwnFrames'
<1> USE DEF thread, machine, window
<1>1. PICK op \in {"start", "destroy", "end", "finish"} :
        Do(op) /\ Done /\ (op = "start" <=> Start)
  BY DEF Start, Destroy, EndTest, PostClose, Do
<1>2. op \in Lasts
  BY DEF Lasts
<1>3. todo' = <<>> /\ LastFits(op) /\ Plain
  BY <1>1, <1>2, Ends DEF Done
<1>4. Fits(op) /\ ~Do("hard")
  BY <1>1, <1>3, NotInPlain DEF Do
<1>5. /\ UNCHANGED <<raw, frames, buttons, running, paused>> /\ ~paused
  BY DEF Start, Destroy, EndTest, PostClose, Alone
<1>6. CASE Start
  <2>1. running /\ OnlyFrames(queue) /\ queue' = queue
    BY <1>1, <1>3, <1>6 DEF LastFits, Alone, Start
  <2>2. FramesFirst(queue)
    BY <2>1, OneMoreFrame DEF Alone
  <2>3. InFlight' = InFlight
    BY <1>1, <1>4, <1>6 DEF Fits, Quiet, Start, InFlight
  <2>4. queue' \in Seq(Events)
    BY <2>1 DEF Alone
  <2> QED
    BY <1>3, <1>4, <1>5, <2>1, <2>2, <2>3, <2>4, HandlerEnds
<1>7. CASE Destroy \/ EndTest \/ PostClose
  <2>1. UNCHANGED <<pc, t_running>> /\ InFlight' = InFlight
    BY <1>7 DEF Destroy, EndTest, PostClose, InFlight
  <2>2. ~running => pc' = "off" /\ ~t_running'
    BY <2>1 DEF Alone
  <2>3. CASE Destroy
    <3>1. op = "destroy" /\ queue' = queue
      BY <1>1, <2>3 DEF Destroy, Do
    <3>2. OnlyFrames(queue) /\ FramesFirst(queue) /\ queue \in Seq(Events)
      BY <1>3, <3>1, OneMoreFrame DEF LastFits, Alone
    <3> QED
      BY <1>3, <1>4, <1>5, <2>1, <2>2, <3>1, <3>2, HandlerEnds
  <2>4. CASE EndTest
    <3>1. op = "end" /\ queue' = Append(queue, "next")
      BY <1>1, <2>4 DEF EndTest, Do
    <3>2. ~running /\ FramesFirst(queue') /\ queue' \in Seq(Events)
      BY <1>3, <1>4, <3>1, OneMoreFrame DEF LastFits, Alone, Fits
    <3> QED
      BY <1>3, <1>4, <1>5, <2>1, <2>2, <3>2, HandlerEnds
  <2>5. CASE PostClose
    <3>1. op = "finish" /\ queue' = Append(queue, "close")
      BY <1>1, <2>5 DEF PostClose, Do
    <3>2. ~running /\ queue' = <<"close">>
      BY <1>3, <3>1, FramesFew DEF LastFits
    <3> QED
      BY <1>3, <1>4, <1>5, <2>1, <2>2, <3>2, FramesFew, HandlerEnds
  <2> QED
    BY <1>7, <2>3, <2>4, <2>5
<1> QED
  BY <1>6, <1>7

\* A handler that begins, or goes on, with program l as its last step.
LEMMA RunAlone == ASSUME Inv, Alone, OwnFrames, Run PROVE Alone' /\ OwnFrames'
<1> USE DEF thread, machine, window
<1>1. /\ Tail(todo) = <<>> /\ Plain /\ ~paused /\ ~running /\ FramesFirst(queue)
      /\ (Mapped => queue = <<>>) /\ pc = "off" /\ ~t_running
  BY Ends DEF Run, Lasts, LastFits, Alone
<1>2. ~Do("hard") /\ UNCHANGED <<queue, pc, t_running, frames, buttons>> /\ queue \in Seq(Events)
  BY DEF Run, Do, Alone
<1>3. CASE Done /\ UNCHANGED window
  <2>1. todo' = <<>> /\ InFlight' = InFlight
    BY <1>1, <1>2, <1>3 DEF Done, InFlight
  <2> QED
    BY <1>1, <1>2, <1>3, <2>1, HandlerEnds
<1>4. CASE /\ Mapped /\ todo' = <<"hard", "start">> \o Tail(todo)
           /\ running' = TRUE /\ paused' = FALSE /\ raw' = 0
  <2>1. todo' = <<"hard", "start">>
    <3>1. <<"hard", "start">> \in Seq(Ops)
      BY DEF Ops
    <3> QED
      BY <1>1, <1>4, <3>1, NothingFollows
  <2>2. queue' = <<>> /\ OnlyFrames(queue') /\ queue' \in Seq(Events)
    BY <1>1, <1>2, <1>4, FramesFew
  <2>3. /\ Len(todo') = 2 /\ todo'[2] = "start" /\ todo' # <<>> /\ Head(todo') = "hard"
        /\ \A i \in 1..Len(todo') : todo'[i] \notin {"pause", "dialog"}
    BY <2>1
  <2>4. LastFits("start")'
    BY <1>4, <2>1 DEF LastFits, Lasts
  <2>5. Alone'
    BY <1>4, <2>2, <2>3, <2>4 DEF Alone
  <2>6. /\ frames \in 0..MaxFrames /\ buttons \in BOOLEAN /\ (frames = 0 => ~buttons)
        /\ 0 \in 0..MaxFrames
    BY BoundsAssumption DEF OwnFrames
  <2>7. Do("hard")'
    BY <2>3 DEF Do
  <2>8. OwnFrames'
    BY <1>2, <1>4, <2>2, <2>6, <2>7 DEF OwnFrames
  <2> QED
    BY <2>5, <2>8
<1> QED
  BY <1>1, <1>3, <1>4 DEF Run

LEMMA BeginAlone == ASSUME Inv, Alone, OwnFrames, BeginTest PROVE Alone' /\ OwnFrames'
<1> USE DEF thread, machine, window
<1>1. /\ Tail(todo) = <<>> /\ ~paused /\ ~running /\ queue = <<>> /\ pc = "off" /\ ~t_running
  BY Ends DEF BeginTest, Lasts, LastFits, Alone
<1>2. /\ ~Do("hard")
      /\ UNCHANGED <<pc, t_running, frames, buttons, raw, running, paused, cart>>
      /\ InFlight' = InFlight
  BY DEF BeginTest, Do, InFlight
<1>3. CASE todo' = <<"run">> /\ queue' = queue
  <2>1. /\ Len(todo') = 1 /\ todo'[1] = "run" /\ todo' # <<>> /\ Head(todo') = "run"
        /\ \A i \in 1..Len(todo') : todo'[i] \notin {"pause", "dialog"}
    BY <1>3
  <2>2. LastFits("run")'
    BY <1>1, <1>2, <1>3, FramesFew DEF LastFits, Lasts
  <2>3. Alone'
    BY <1>1, <1>2, <1>3, <2>1, <2>2, FramesFew DEF Alone
  <2>4. ~Do("hard")' /\ ~running'
    BY <1>1, <1>2, <2>1 DEF Do
  <2>5. OwnFrames'
    BY <1>2, <2>4 DEF OwnFrames
  <2> QED
    BY <2>3, <2>5
<1>4. CASE Done /\ queue' = Append(queue, "next")
  <2>1. todo' = <<>> /\ queue' = <<"next">>
    BY <1>1, <1>4, FramesFew DEF Done
  <2> QED
    BY <1>1, <1>2, <2>1, FramesFew, HandlerEnds
<1> QED
  BY <1>3, <1>4 DEF BeginTest

-----------------------------------------------------------------------------
Calm == Steps \ {"pause", "dialog"}
EndsWith(s, op) == s \in Seq(Calm) /\ s # <<>> /\ s[Len(s)] = op

LEMMA CalmJoined ==
    ASSUME NEW s, NEW op, s \in Seq(Calm), NEW t, EndsWith(t, op)
    PROVE  EndsWith(s \o t, op)
<1>1. /\ s \in Seq(Calm) /\ t \in Seq(Calm) /\ Len(s) \in Nat /\ Len(t) \in Nat /\ Len(t) > 0
      /\ t[Len(t)] = op
  BY DEF EndsWith
<1>2. /\ s \o t \in Seq(Calm) /\ Len(s \o t) = Len(s) + Len(t)
      /\ \A i \in 1..Len(t) : (s \o t)[Len(s) + i] = t[i]
  BY <1>1
<1>3. Len(t) \in 1..Len(t) /\ Len(s \o t) > 0
  BY <1>1, <1>2
<1>4. (s \o t)[Len(s \o t)] = op
  BY <1>1, <1>2, <1>3
<1> QED
  BY <1>2, <1>3, <1>4 DEF EndsWith

LEMMA CalmParts ==
    /\ <<"shot">> \in Seq(Calm) /\ Stop \in Seq(Calm) /\ Free \in Seq(Calm)
    /\ EndsWith(<<"end">>, "end") /\ EndsWith(<<"destroy">>, "destroy")
    /\ EndsWith(<<"finish">>, "finish") /\ EndsWith(<<"load", "begin">>, "begin")
    /\ EndsWith(Restart, "start")
<1>1. /\ <<"shot">> \in Seq(Calm) /\ Stop \in Seq(Calm) /\ <<"unload">> \in Seq(Calm)
      /\ EndsWith(<<"unload">>, "unload")
  BY DEF Calm, Steps, Ops, EndsWith, Stop
<1>2. Free \in Seq(Calm)
  BY <1>1, CalmJoined DEF Free, EndsWith
<1>3. /\ EndsWith(<<"end">>, "end") /\ EndsWith(<<"destroy">>, "destroy")
      /\ EndsWith(<<"finish">>, "finish") /\ EndsWith(<<"load", "begin">>, "begin")
  BY DEF Calm, Steps, Ops, EndsWith
<1>4. EndsWith(Restart, "start")
  BY DEF Calm, Steps, Ops, EndsWith, Restart
<1> QED
  BY <1>1, <1>2, <1>3, <1>4

LEMMA StoppedAndFreed ==
    ASSUME NEW t, NEW op, EndsWith(t, op)
    PROVE  EndsWith(Stop \o Free \o t, op) /\ EndsWith(<<"shot">> \o Stop \o Free \o t, op)
<1>1. Stop \o Free \in Seq(Calm) /\ <<"shot">> \o Stop \in Seq(Calm)
  BY CalmParts
<1>2. <<"shot">> \o Stop \o Free \in Seq(Calm)
  BY <1>1, CalmParts
<1> QED
  BY <1>1, <1>2, CalmJoined

LEMMA CalmProgram ==
    ASSUME NEW s, NEW op, EndsWith(s, op)
    PROVE  s # <<>> /\ s[Len(s)] = op /\ \A i \in 1..Len(s) : s[i] \notin {"pause", "dialog"}
  BY DEF EndsWith, Calm

LEMMA OneFrameLess ==
    ASSUME NEW q \in Seq(Events), q # <<>>
    PROVE  /\ Tail(q) \in Seq(Events) /\ Len(Tail(q)) = Len(q) - 1 /\ Len(q) \in Nat \ {0}
           /\ OnlyFrames(q) => OnlyFrames(Tail(q))
           /\ FramesFirst(q) => FramesFirst(Tail(q))
           /\ FramesFirst(q) /\ Head(q) # "frame" => Tail(q) = <<>>
           /\ OnlyFrames(q) => Head(q) = "frame"
<1>1. /\ Tail(q) \in Seq(Events) /\ Len(Tail(q)) = Len(q) - 1 /\ Len(q) \in Nat \ {0}
      /\ Head(q) = q[1] /\ \A i \in 1..(Len(q) - 1) : Tail(q)[i] = q[i + 1]
  OBVIOUS
<1>2. OnlyFrames(q) => OnlyFrames(Tail(q)) /\ Head(q) = "frame"
  <2>1. \A i \in 1..Len(Tail(q)) : i \in 1..(Len(q) - 1) /\ i + 1 \in 1..Len(q)
    BY <1>1
  <2>2. 1 \in 1..Len(q)
    BY <1>1
  <2> QED
    BY <1>1, <2>1, <2>2 DEF OnlyFrames
<1>3. FramesFirst(q) => FramesFirst(Tail(q))
  <2>1. \A i \in 1..(Len(Tail(q)) - 1) : i \in 1..(Len(q) - 1) /\ i + 1 \in 1..(Len(q) - 1)
    BY <1>1
  <2> QED
    BY <1>1, <2>1 DEF FramesFirst
<1>4. FramesFirst(q) /\ Head(q) # "frame" => Tail(q) = <<>>
  <2> HAVE FramesFirst(q) /\ Head(q) # "frame"
  <2>1. ~(1 \in 1..(Len(q) - 1))
    BY <1>1 DEF FramesFirst
  <2>2. Len(Tail(q)) = 0
    BY <1>1, <2>1
  <2>3. \A z \in Seq(Events) : Len(z) = 0 => z = <<>>
    OBVIOUS
  <2> QED
    BY <1>1, <2>2, <2>3, Zenon
<1> QED
  BY <1>1, <1>2, <1>3, <1>4

LEMMA NoDialog == ASSUME Inv, Alone PROVE ~Do("dialog") /\ ~Do("pause")
<1>1. todo \in Seq(Steps)
  BY TodoIs
<1>2. todo # <<>> => 1 \in 1..Len(todo) /\ Head(todo) = todo[1]
  BY <1>1
<1> QED
  BY <1>2 DEF Do, Alone

\* A handler of programs that begins while no game runs.
LEMMA ProgramBegins ==
    ASSUME Inv, Alone, OwnFrames, NEW op \in {"begin", "finish", "destroy"}, EndsWith(todo', op),
           Head(todo') = "signal", queue' = <<>>, ~running,
           UNCHANGED <<pc, t_running, running, paused, raw, frames, buttons>>
    PROVE  Alone' /\ OwnFrames'
<1>1. LastFits(op)'
  BY FramesFew DEF LastFits, Lasts
<1>2. Alone'
  BY <1>1, CalmProgram, FramesFew DEF Alone
<1>3. ~Do("hard")' /\ ~running'
  BY DEF Do
<1>4. OwnFrames'
  BY <1>3 DEF OwnFrames
<1> QED
  BY <1>2, <1>4

LEMMA PostedAlone ==
    ASSUME Inv, Alone, OwnFrames, NextTest \/ CloseWindow
    PROVE  Alone' /\ OwnFrames'
<1> USE DEF thread, machine, window
<1>1. /\ todo = <<>> /\ queue # <<>> /\ Head(queue) \in {"next", "close"} /\ queue' = Tail(queue)
      /\ UNCHANGED <<pc, t_running, running, paused, raw, frames, buttons>>
  BY DEF NextTest, CloseWindow, Idle
<1>2. queue \in Seq(Events) /\ FramesFirst(queue) /\ (running => OnlyFrames(queue))
  BY <1>1 DEF Alone
<1>3. queue' = <<>> /\ ~running
  BY <1>1, <1>2, OneFrameLess
<1>4. CASE NextTest
  <2>1. PICK t \in {<<"load", "begin">>, <<"finish">>} : todo' = Stop \o Free \o t
    BY <1>4 DEF NextTest
  <2>2. PICK op \in {"begin", "finish"} : EndsWith(todo', op)
    <3>1. PICK op \in {"begin", "finish"} : EndsWith(t, op)
      BY CalmParts
    <3> QED
      BY <2>1, <3>1, StoppedAndFreed
  <2>3. Ready(t) /\ t # <<>> /\ Head(t) \in {"load", "finish"}
    BY ShortReady DEF Ops, MayEnd
  <2>4. Head(todo') = "signal"
    BY <2>1, <2>3, StopFreeReady
  <2> QED
    BY <1>1, <1>3, <2>2, <2>4, ProgramBegins
<1>5. CASE CloseWindow
  <2>1. todo' = Free \o <<"destroy">>
    BY <1>5 DEF CloseWindow
  <2>2. EndsWith(todo', "destroy") /\ Head(todo') = "signal"
    BY <2>1, CalmParts, CalmJoined, FreeDestroyReady
  <2> QED
    BY <1>1, <1>3, <2>2, ProgramBegins
<1> QED
  BY <1>4, <1>5

LEMMA CountedAlone ==
    ASSUME Inv, Alone, OwnFrames, OnFrameCompleted, running, Counted
    PROVE  Alone' /\ OwnFrames'
<1> USE DEF thread, machine, window
<1>1. /\ todo = <<>> /\ queue # <<>> /\ queue' = Tail(queue)
      /\ UNCHANGED <<pc, t_running, running, paused, frames, cart>> /\ raw' = Upto(raw)
  BY NoDialog DEF OnFrameCompleted, Idle, Counted
<1>2. /\ queue' \in Seq(Events) /\ OnlyFrames(queue') /\ Len(queue') = Len(queue) - 1
      /\ Len(queue) \in Nat \ {0} /\ FramesFirst(queue')
  <2>1. queue \in Seq(Events) /\ OnlyFrames(queue)
    BY DEF Alone
  <2>2. FramesFirst(queue)
    BY <2>1, OneMoreFrame
  <2> QED
    BY <1>1, <2>1, <2>2, OneFrameLess
<1>3. ~Do("hard")
  BY <1>1 DEF Do
<1>4. /\ raw \in 0..MaxFrames /\ frames \in 0..MaxFrames /\ MaxFrames \in Nat \ {0}
      /\ InFlight \in {0, 1}
      /\ frames = MaxFrames \/ raw + Len(queue) + InFlight <= frames
  BY <1>3, BoundsAssumption DEF OwnFrames, InFlight
<1>5. raw' \in 0..MaxFrames /\ raw' <= raw + 1 /\ frames # 0
  BY <1>1, <1>2, <1>4 DEF Upto
<1>6. InFlight' = InFlight
  BY <1>1 DEF InFlight
<1>7. frames' = MaxFrames \/ raw' + Len(queue') + InFlight' <= frames'
  BY <1>1, <1>2, <1>4, <1>5, <1>6
<1>8. buttons' \in BOOLEAN
  <2>1. buttons \in BOOLEAN
    BY Zenon DEF OwnFrames
  <2>2. (raw' \in InputFrames) \in BOOLEAN
    OBVIOUS
  <2>3. buttons' = (raw' \in InputFrames) \/ buttons' = buttons
    BY Zenon DEF Counted
  <2> QED
    BY <2>1, <2>2, <2>3, Zenon
<1>9. ASSUME ~Do("hard")' PROVE OwnFrames'
  BY <1>1, <1>4, <1>5, <1>7, <1>8, <1>9 DEF OwnFrames
<1>10. ASSUME NEW op \in {"end", "destroy"}, EndsWith(todo', op) PROVE Alone'
  <2>1. LastFits(op)'
    BY <1>2, <1>10 DEF LastFits, Lasts
  <2> QED
    BY <1>1, <1>2, <1>10, <2>1, CalmProgram DEF Alone
<1>11. CASE todo' = Restart
  <2>1. EndsWith(todo', "start") /\ Head(todo') = "signal"
    BY <1>11, CalmParts DEF Restart
  <2>2. LastFits("start")'
    BY <1>1, <1>11 DEF LastFits, Lasts
  <2>3. Alone'
    BY <1>1, <1>2, <2>1, <2>2, CalmProgram DEF Alone
  <2> QED
    BY <1>9, <2>1, <2>3 DEF Do
<1>12. CASE todo' = <<>>
  <2>1. Alone'
    BY <1>1, <1>2, <1>12, FramesFew DEF Alone
  <2> QED
    BY <1>9, <1>12, <2>1 DEF Do
<1>13. CASE todo' = <<"shot">> \o Stop \o Free \o <<"end">>
  <2>1. EndsWith(todo', "end")
    BY <1>13, CalmParts, StoppedAndFreed
  <2>2. Head(todo') = "shot"
    <3>1. Ready(<<"end">>) /\ <<"end">> # <<>> /\ Head(<<"end">>) = "end"
      BY ShortReady DEF Ops, MayEnd
    <3> QED
      BY <1>13, <3>1, StopFreeReady
  <2> QED
    BY <1>9, <1>10, <2>1, <2>2 DEF Do
<1>14. CASE todo' = <<"shot">> \o Stop \o Free \o (Free \o <<"destroy">>)
  <2>1. EndsWith(todo', "destroy")
    <3>1. EndsWith(Free \o <<"destroy">>, "destroy")
      BY CalmParts, CalmJoined
    <3> QED
      BY <1>14, <3>1, StoppedAndFreed
  <2>2. Head(todo') = "shot"
    BY <1>14, FreeDestroyReady, StopFreeReady
  <2> QED
    BY <1>9, <1>10, <2>1, <2>2 DEF Do
<1> QED
  BY <1>11, <1>12, <1>13, <1>14 DEF Counted

LEMMA EventAlone == ASSUME Inv, Alone, OwnFrames, Event PROVE Alone' /\ OwnFrames'
<1> USE DEF thread, machine, window
<1>1. CASE OnFrameCompleted
  <2>1. CASE running
    BY <1>1, <2>1, CountedAlone DEF OnFrameCompleted, Alone
  <2>2. CASE ~running
    <3>1. /\ todo = <<>> /\ todo' = todo /\ queue # <<>> /\ queue' = Tail(queue) /\ ~paused
          /\ UNCHANGED <<pc, t_running, running, paused, raw, frames, buttons>>
      BY <1>1, <2>2, NoDialog DEF OnFrameCompleted, Idle, Alone
    <3>2. queue' \in Seq(Events) /\ FramesFirst(queue')
      BY <3>1, OneFrameLess DEF Alone
    <3>3. ~Do("hard") /\ InFlight' = InFlight /\ pc' = "off" /\ ~t_running'
      BY <2>2, <3>1 DEF Do, InFlight, Alone
    <3> QED
      BY <2>2, <3>1, <3>2, <3>3, HandlerEnds
  <2> QED
    BY <2>1, <2>2
<1>2. CASE NextTest \/ CloseWindow
  BY <1>2, PostedAlone
<1> QED
  BY <1>1, <1>2 DEF Event

LEMMA StutterAlone == ASSUME Alone, OwnFrames, UNCHANGED vars PROVE Alone' /\ OwnFrames'
<1>1. UNCHANGED <<queue, todo, running, paused, pc, t_running, cart, raw, frames, buttons>>
  BY DEF vars, thread, machine, window
<1>2. Alone'
  BY <1>1 DEF Alone, LastFits, Mapped
<1>3. OwnFrames'
  BY <1>1 DEF OwnFrames, InFlight, Do
<1> QED
  BY <1>2, <1>3

LEMMA AloneNext ==
    ASSUME Unattended, Inv, Alone, OwnFrames, [Next]_vars PROVE Alone' /\ OwnFrames'
<1>1. ~User
  BY DEF User, Unattended
<1>2. ~Pause /\ ~Dismiss
  BY NoDialog DEF Pause, Dismiss
<1> QED
  BY <1>1, <1>2, ThreadAlone, PartAlone, EndAlone, RunAlone, BeginAlone, EventAlone, StutterAlone
  DEF Next, Handler

\* Left alone, tests see their own game: the machine is reset between two
\* frames only, every frame counted is one of this game, and no game begins with
\* the buttons of the one before.  Unattended is what the code asks for: a
\* game of the command line starts the first test too early, and a user's
\* Pause and Reset meet a frame that still runs.
THEOREM TestsIsolatedHolds == ASSUME Unattended PROVE Spec => []TestsIsolated
<1>1. Init => Alone /\ OwnFrames
  BY AloneInit
<1>2. Inv /\ Alone /\ OwnFrames /\ [Next]_vars => Alone' /\ OwnFrames'
  BY AloneNext
<1>3. Inv /\ Alone /\ OwnFrames => TestsIsolated
  <2> SUFFICES ASSUME Inv, Alone, OwnFrames PROVE TestsIsolated
    OBVIOUS
  <2>1. ResetBetweenFrames
    <3>1. Do("hard") => pc = "off"
      <4>1. Do("hard") => Plain
        BY DEF Inv, Resetting, Restart, Do
      <4> QED
        BY <4>1, NotInPlain DEF Do, Fits, Quiet
    <3>2. Do("reset") => pc = "off"
      <4> SUFFICES ASSUME Do("reset") PROVE pc = "off"
        OBVIOUS
      <4>1. ~Plain
        BY NotInPlain DEF Do, Ops
      <4>2. (todo = <<"reset", "start">> /\ Quiet) \/ todo = <<"reset">>
        BY <4>1 DEF Inv, Resetting, Restart, Do
      <4>3. todo # <<"reset">>
        <5>1. todo = <<"reset">> => todo # <<>> /\ todo[Len(todo)] = "reset"
          OBVIOUS
        <5> QED
          BY <5>1 DEF Alone, LastFits, Lasts
      <4> QED
        BY <4>2, <4>3 DEF Quiet
    <3> QED
      BY <3>1, <3>2 DEF ResetBetweenFrames
  <2>2. CountsOwnFrames
    <3>1. /\ raw \in 0..MaxFrames /\ frames \in 0..MaxFrames /\ InFlight \in {0, 1}
          /\ Len(queue) \in Nat /\ MaxFrames \in Nat
      BY BoundsAssumption DEF OwnFrames, InFlight, Alone
    <3> QED
      BY <3>1 DEF OwnFrames, CountsOwnFrames
  <2>3. StartsWithoutButtons
    BY DEF OwnFrames, StartsWithoutButtons
  <2> QED
    BY <2>1, <2>2, <2>3 DEF TestsIsolated
<1> QED
  BY Invariant, <1>1, <1>2, <1>3, PTL DEF Spec
=============================================================================
