-------------------------- MODULE SpriteEvaluation --------------------------
(***************************************************************************)
(* The sprite evaluation of a line (evaluate_sprites_odd/_even in          *)
(* src/src/Ppu.cpp), dot by dot: odd dots read a byte of OAM, even dots    *)
(* run the state machine that copies the sprites in range of the line into *)
(* secondary OAM and then, with the 2C02's diagonal bug, looks for one     *)
(* more.  A byte of OAM is its index, and of its value only whether it is  *)
(* in range of the line when it is taken for a Y coordinate.  The game may *)
(* switch rendering, without which a dot evaluates nothing, change the     *)
(* height of sprites, and use $2003 and $2004 between any two dots.        *)
(***************************************************************************)
EXTENDS Integers, Sequences, FiniteSets, FiniteSetsExt

CONSTANTS
    Sprites,        \* 64
    Slots,          \* 8, the sprites of secondary OAM
    EvalDots,       \* 192, dots 65 to 256
    Ranges,         \* the sets of bytes that may be in range of a small sprite
    Taller,         \* bytes that are in range only of a large one
    OamAddresses,         \* OAMADDR at dot 65
    MaxDisturbs     \* bound on the game's writes of $2000, $2001, $2003, $2004

Bytes == 0..4 * Sprites - 1

\* Every second dot evaluates, the last one included. The real numbers satisfy
\* the bound: 8 * 8 + 2 * 56 dots of 192.
ASSUME SpriteAssumption ==
    /\ Sprites \in Nat \ {0} /\ Slots \in 1..Sprites /\ MaxDisturbs \in Nat
    /\ Ranges \subseteq SUBSET Bytes /\ Taller \subseteq Bytes /\ OamAddresses \subseteq Bytes
    /\ EvalDots \in Nat /\ EvalDots % 2 = 0 /\ EvalDots >= 8 * Slots + 2 * (Sprites - Slots)

VARIABLES
    dot,            \* hpos_ - 64, 0 before the evaluation
    inrange, large, \* the bytes in range; ppu_control_.large_sprites
    sprite_address, \* sprite_address_
    read_index,     \* sprite_read_index_
    read_buffer,    \* sprite_read_buffer_, as the byte it was read from
    eval_state,     \* sprite_eval_state_
    data_index,     \* sprite_data_index_
    data,           \* sprite_data_: the bytes of each slot, in order
    zero,           \* the slots whose attribute has OamZero
    current_is_0,   \* current_is_sprite_0
    overflow,       \* status_.overflow
    visible_count,  \* visible_sprite_count_
    start,          \* history: sprite_address_ at dot 65
    before,         \* history: overflow when the line began
    whole,          \* history: the line has not been disturbed
    disturbs        \* history: how many dots have been

machine == <<read_index, eval_state, data_index, data, zero, current_is_0, overflow>>
spriteVars ==
    <<dot, inrange, large, sprite_address, read_buffer, machine, visible_count,
      start, before, whole, disturbs>>

InRange(b) == b \in inrange \/ (large /\ b \in Taller)

Wrap(b)  == b % (4 * Sprites)

\* (sprite_read_index_ & 0xfc) == 0
Ended(b) == b \div 4 = 0

SpriteInit ==
    /\ dot = 0 /\ inrange \in Ranges /\ large = FALSE
    /\ sprite_address \in OamAddresses
    /\ read_index = 0 /\ read_buffer = 0 /\ eval_state = "Y" /\ data_index = 0
    /\ data = [s \in 0..Slots - 1 |-> <<>>] /\ zero = {} /\ current_is_0 = FALSE
    /\ overflow = FALSE /\ visible_count = 0
    /\ start = sprite_address /\ before = FALSE /\ whole = TRUE /\ disturbs = 0

-----------------------------------------------------------------------------
NextDot == dot' = dot + 1 /\ UNCHANGED <<large, sprite_address, before, whole, disturbs>>

\* The next dot with nothing to start.
GoesOn == NextDot /\ UNCHANGED start

\* Dot 65.  With OAMADDR above 8 eight bytes are copied over the first two
\* sprites.
StartEvaluation ==
    /\ dot = 0
    /\ read_index' = sprite_address /\ read_buffer' = sprite_address
    /\ current_is_0' = TRUE /\ eval_state' = "Y" /\ data_index' = 0
    /\ inrange' = IF sprite_address > 8
                  THEN LET from == 8 * (sprite_address \div 8)
                       IN (inrange \ 0..7) \cup {b \in 0..7 : from + b \in inrange}
                  ELSE inrange
    /\ start' = sprite_address
    /\ UNCHANGED <<data, zero, overflow, visible_count>>
    /\ NextDot

ReadByte ==
    /\ dot \in 1..EvalDots - 1 /\ dot % 2 = 0
    /\ read_buffer' = read_index
    /\ UNCHANGED <<machine, inrange, visible_count>>
    /\ GoesOn

\* Where the machine goes once a sprite has been passed or copied.
AfterSprite(index, found) ==
    eval_state' = IF Ended(index) THEN "Done" ELSE IF found < Slots THEN "Y" ELSE "Full"

\* STATE_1_Y
TakeY ==
    /\ eval_state = "Y"
    /\ IF data_index < Slots
       THEN IF InRange(read_buffer)
            THEN /\ data' = [data EXCEPT ![data_index] = <<read_buffer>>]
                 /\ zero' = zero \ {data_index}
                 /\ eval_state' = "I"
                 /\ read_index' = Wrap(read_index + 1)
                 /\ UNCHANGED current_is_0
            ELSE /\ read_index' = Wrap(read_index + 4)
                 /\ current_is_0' = FALSE
                 /\ AfterSprite(read_index', data_index)
                 /\ UNCHANGED <<data, zero>>
       ELSE UNCHANGED <<data, zero, eval_state, read_index, current_is_0>>
    /\ UNCHANGED <<data_index, overflow>>

\* STATE_1_I and STATE_1_A
TakeIndex ==
    /\ eval_state \in {"I", "A"}
    /\ data' = [data EXCEPT ![data_index] = Append(@, read_buffer)]
    /\ zero' = IF eval_state = "A" /\ current_is_0 THEN zero \cup {data_index} ELSE zero
    /\ eval_state' = IF eval_state = "I" THEN "A" ELSE "X"
    /\ read_index' = Wrap(read_index + 1)
    /\ UNCHANGED <<data_index, current_is_0, overflow>>

\* STATE_1_X
TakeX ==
    /\ eval_state = "X"
    /\ data' = [data EXCEPT ![data_index] = Append(@, read_buffer)]
    /\ data_index' = data_index + 1
    /\ read_index' = Wrap(read_index + 1)
    /\ current_is_0' = FALSE
    /\ AfterSprite(read_index', data_index')
    /\ UNCHANGED <<zero, overflow>>

\* n and m are both incremented, m without a carry into n.
Diagonal(b) == 4 * ((b \div 4 + 1) % Sprites) + ((b + 1) % 4)

\* STATE_3
LookForMore ==
    /\ eval_state = "Full"
    /\ overflow' = (overflow \/ InRange(read_buffer))
    /\ read_index' = IF InRange(read_buffer) THEN Wrap(read_index + 1)
                     ELSE Diagonal(read_index)
    /\ eval_state' = IF Ended(read_index') THEN "Done" ELSE "Full"
    /\ UNCHANGED <<data_index, data, zero, current_is_0>>

\* STATE_4
Finished == eval_state = "Done" /\ UNCHANGED machine

\* Even dots; the last one, dot 256, also counts the sprites.
Evaluate ==
    /\ dot \in 1..EvalDots - 1 /\ dot % 2 = 1
    /\ TakeY \/ TakeIndex \/ TakeX \/ LookForMore \/ Finished
    /\ visible_count' = IF dot + 1 = EvalDots THEN data_index' ELSE visible_count
    /\ UNCHANGED <<read_buffer, inrange>>
    /\ GoesOn

-----------------------------------------------------------------------------
(* The game: a dot with rendering off, a write that changes the sprites'   *)
(* height, and the ports of OAM.                                           *)
Disturb ==
    /\ disturbs < MaxDisturbs /\ disturbs' = disturbs + 1
    /\ whole' = FALSE

BlankDot ==
    /\ dot < EvalDots /\ Disturb
    /\ dot' = dot + 1
    /\ UNCHANGED <<inrange, large, sprite_address, read_buffer, machine, visible_count,
                   start, before>>

ChangeHeight ==
    /\ dot < EvalDots /\ Disturb
    /\ large' = ~large
    /\ UNCHANGED <<dot, inrange, sprite_address, read_buffer, machine, visible_count,
                   start, before>>

\* A mutant: the write lands in OAM and steps by a byte, as between pictures.
Write2004Lands ==
    /\ inrange' \in {inrange \cup {sprite_address}, inrange \ {sprite_address}}
    /\ sprite_address' = Wrap(sprite_address + 1)

\* $2004 in a line that is drawn: the byte is lost, and the address steps on
\* by a sprite.
Write2004 ==
    /\ sprite_address' = Wrap(4 * (sprite_address \div 4) + 4)
    /\ UNCHANGED inrange

\* Writes of $2003 and $2004 while the line is drawn.
OamPort ==
    /\ disturbs < MaxDisturbs /\ disturbs' = disturbs + 1
    /\ \/ sprite_address' \in OamAddresses /\ UNCHANGED inrange
       \/ Write2004
    /\ UNCHANGED <<dot, large, read_buffer, machine, visible_count, start, before, whole>>

\* $2004 with rendering off: a sprite of the line changes under its evaluation.
OamStore ==
    /\ dot \in 1..EvalDots - 1 /\ Disturb
    /\ inrange' \in {inrange \cup {sprite_address}, inrange \ {sprite_address}}
    /\ sprite_address' = Wrap(sprite_address + 1)
    /\ UNCHANGED <<dot, large, read_buffer, machine, visible_count, start, before>>

\* Dots 257 to 320 set OAMADDR to zero and dots 1 to 64 of the next line clear
\* secondary OAM, both while rendering is on; pre-render clears the flag.
NextSpriteLine ==
    /\ dot = EvalDots /\ dot' = 0
    /\ inrange' \in Ranges
    /\ overflow' \in {overflow, FALSE} /\ before' = overflow'
    /\ \/ /\ sprite_address' = 0
          /\ data' = [s \in 0..Slots - 1 |-> <<>>] /\ zero' = {}
          /\ whole' = TRUE /\ UNCHANGED disturbs
       \/ /\ Disturb
          /\ sprite_address' \in OamAddresses
          /\ UNCHANGED <<data, zero>>
    /\ UNCHANGED <<large, read_buffer, read_index, eval_state, data_index,
                   current_is_0, visible_count, start>>

SpriteNext ==
    \/ StartEvaluation \/ ReadByte \/ Evaluate
    \/ BlankDot \/ ChangeHeight \/ OamPort \/ OamStore \/ NextSpriteLine

SpriteSpec == SpriteInit /\ [][SpriteNext]_spriteVars

-----------------------------------------------------------------------------
(* No write leaves secondary OAM, and the machine never waits for a slot   *)
(* that will not come, even if rendering stops and starts again or the     *)
(* height of sprites changes between two of its dots.                      *)
SlotsInBounds ==
    /\ data_index \in 0..Slots /\ visible_count \in 0..Slots
    /\ eval_state \in {"Y", "I", "A", "X"} => data_index < Slots
    /\ DOMAIN data = 0..Slots - 1

\* What a reader of OAM expects of the line: the sprites in range behind
\* OAMADDR, in order, as many as there are slots.
Candidates == {b \in Bytes : b >= start /\ (b - start) % 4 = 0}
Found      == {b \in Candidates : InRange(b)}
Before(b)  == Cardinality({c \in Found : c < b})
Chosen     == {b \in Found : Before(b) < Slots}

(* Secondary OAM holds the first of the line's sprites, each of them       *)
(* whole, sprite zero marked and no other, and the count fits, although    *)
(* the game writes to the ports of OAM meanwhile.                          *)
FirstSpritesChosen ==
    dot = EvalDots /\ whole =>
        /\ visible_count = Cardinality(Chosen)
        /\ \A b \in Chosen : data[Before(b)] = [i \in 1..4 |-> Wrap(b + i - 1)]
        /\ zero = {s \in {0} : start \in Chosen}

(* Overflow is found along the diagonal: k sprites behind the last chosen  *)
(* one it is the k-th byte, counted round, that is taken for a Y.          *)
OnDiagonal(b) ==
    LET after == Max(Chosen) + 4
        k     == (b \div 4) - (after \div 4)
    IN k >= 0 /\ b % 4 = (after + k) % 4

OverflowOnDiagonal ==
    dot = EvalDots /\ whole =>
        overflow = \/ before
                   \/ /\ Cardinality(Chosen) = Slots
                      /\ \E b \in Bytes : OnDiagonal(b) /\ InRange(b)

(* What the machine leaves behind, whatever disturbs it: all three.        *)
SpritesChosen == SlotsInBounds /\ FirstSpritesChosen /\ OverflowOnDiagonal
=============================================================================
