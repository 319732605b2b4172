------------------------------ MODULE Keyboard ------------------------------
(* The keyboard matrix and the joystick port (input.go), what the host's   *)
(* window (play.go.txt) and its tapes put in them, and the BIOS entries    *)
(* that read them: CHSNS, CHGET, GTSTCK and GTTRIG.  A key of the matrix   *)
(* is <<row, bit>>; keys is what is held, where the code clears bits.      *)
EXTENDS Integers, Sequences, FiniteSets, FiniteSetsExt

CONSTANTS
  Hands,    \* the sets of host keys that are held in one frame
  Sticks,   \* the sets of buttons a tape holds in one frame
  Awaited   \* the keys it is asked of that they are heard

VARIABLES
  keys,      \* the matrix
  port,      \* the buttons held, as the joystick port shows them
  keySeen,   \* the character CHGET gave last, while its key is down
  held,      \* history: the host's keys
  given      \* history: the character given last, if its key has been down since, or 0
keyVars == <<keys, port, keySeen, held, given>>

-----------------------------------------------------------------------------
(* The matrix. *)

Letters == 65..90
Digits == 48..57
At(n) == <<n \div 8, n % 8>>
LetterKeyLow(c) == At(c - 65 + 21)
LetterKey(c) == At(c - 65 + 22)
DigitKey(c) == At(c - 48)
KeySpace == <<8, 0>>
KeyReturn == <<7, 7>>
KeySelect == <<7, 6>>
Arrow(button) ==
  CASE button = "Left" -> <<8, 4>> [] button = "Up" -> <<8, 5>>
    [] button = "Down" -> <<8, 6>> [] OTHER -> <<8, 7>>
Directions == {"Up", "Down", "Left", "Right"}

(* The window's arrow keys are the four. *)
ASSUME HandsAssumption == \A hand \in Hands : hand.arrows \subseteq Directions

(* keyWaiting: the rows it looks at, in its order, and what it makes of    *)
(* each of their keys.                                                     *)
LookedAtPrinting ==
  [i \in 1..8 |-> <<0, i - 1>>] \o <<<<1, 0>>, <<1, 1>>, <<2, 6>>, <<2, 7>>>>
    \o [i \in 1..24 |-> <<3 + (i - 1) \div 8, (i - 1) % 8>>] \o <<KeySpace>>
Looked ==
  [i \in 1..8 |-> <<0, i - 1>>] \o <<<<1, 0>>, <<1, 1>>, <<2, 6>>, <<2, 7>>>>
    \o [i \in 1..24 |-> <<3 + (i - 1) \div 8, (i - 1) % 8>>] \o <<KeySpace, KeyReturn>>
CharOf(k) ==
  CASE k[1] = 0 -> 48 + k[2] [] k[1] = 1 -> 56 + k[2] [] k[1] = 2 -> 65 + k[2] - 6
    [] k[1] \in 3..5 -> 67 + 8 * (k[1] - 3) + k[2]
    [] k = KeySpace -> 32 [] OTHER -> 13
KeyWaiting ==
  LET down == {i \in DOMAIN Looked : Looked[i] \in keys}
  IN  IF down = {} THEN 0 ELSE CharOf(Looked[Min(down)])

-----------------------------------------------------------------------------
(* The host.  A frame of the window sets the port, clears the matrix and   *)
(* presses what is held; the arrows, space, z, x and shift do both.        *)

Msx(h) ==
  (IF h \in Letters THEN {LetterKey(h)} ELSE {})
    \cup (IF h \in Digits THEN {DigitKey(h)} ELSE {})
    \cup (IF h \in {32, 90} THEN {KeySpace} ELSE {})
    \cup (IF h = 88 THEN {KeySelect} ELSE {})
    \cup (IF h = 13 THEN {KeyReturn} ELSE {})
Down(hand) == (UNION {Msx(h) : h \in hand.typed}) \cup {Arrow(d) : d \in hand.arrows}
Buttons(hand) ==
  hand.arrows \cup (IF hand.typed \cap {32, 90} # {} THEN {"TriggerA"} ELSE {})
    \cup (IF 88 \in hand.typed THEN {"TriggerB"} ELSE {})

(* The given character's key came up. *)
StillDown(down) == IF given # 0 /\ {k \in down : CharOf(k) = given} = {} THEN 0 ELSE given

Frame(hand) ==
  /\ keys' = Down(hand) /\ port' = Buttons(hand) /\ held' = hand.typed
  /\ given' = StillDown(Down(hand) \cap {Looked[i] : i \in DOMAIN Looked})
  /\ UNCHANGED keySeen

(* A tape: SetJoystick and SetInput, which sets rows 7 and 8 alone. *)
StickKeys(b) ==
  {Arrow(d) : d \in b \cap Directions} \cup (IF "TriggerA" \in b THEN {KeySpace} ELSE {})
    \cup (IF "TriggerB" \in b THEN {KeySelect} ELSE {})
Tape(b) ==
  \E down \in {{k \in keys : k[1] < 7} \cup StickKeys(b)} :
    /\ keys' = down /\ port' = b
    /\ held' = {h \in held : Msx(h) \cap down # {}}
                 \cup (IF "TriggerA" \in b THEN {32} ELSE {})
    /\ given' = StillDown(down \cap {Looked[i] : i \in DOMAIN Looked})
    /\ UNCHANGED keySeen

-----------------------------------------------------------------------------
(* The program. *)

Fresh == KeyWaiting # 0 /\ KeyWaiting # keySeen

(* keyEvent(false): looking forgets the key, too, when nothing is down. *)
CHSNSForgetting ==
  /\ keySeen' = IF Fresh THEN keySeen ELSE 0
  /\ UNCHANGED <<keys, port, held, given>>
CHSNS ==
  /\ keySeen' = IF KeyWaiting = 0 THEN 0 ELSE keySeen
  /\ UNCHANGED <<keys, port, held, given>>

(* keyEvent(true). *)
CHGET ==
  /\ keySeen' = KeyWaiting
  /\ given' = IF Fresh THEN KeyWaiting ELSE given
  /\ UNCHANGED <<keys, port, held>>

StickDirection(b) ==
  CASE {"Up", "Right"} \subseteq b -> 2
    [] {"Up", "Left"} \subseteq b /\ "Right" \notin b -> 8
    [] {"Down", "Right"} \subseteq b /\ "Up" \notin b -> 4
    [] {"Down", "Left"} \subseteq b /\ b \cap {"Up", "Right"} = {} -> 6
    [] "Up" \in b /\ b \cap {"Left", "Right"} = {} -> 1
    [] "Right" \in b /\ b \cap {"Up", "Down"} = {} -> 3
    [] "Down" \in b /\ b \cap {"Up", "Left", "Right"} = {} -> 5
    [] "Left" \in b /\ b \cap {"Up", "Down", "Right"} = {} -> 7
    [] OTHER -> 0
CursorTurned == {d \in Directions : Arrow(IF d = "Left" THEN "Down" ELSE d) \in keys}
CursorAsStick == {d \in Directions : Arrow(d) \in keys}
GTSTCK(which) == StickDirection(IF which = 0 THEN CursorAsStick ELSE port)
GTTRIG(which) == IF which = 0 THEN KeySpace \in keys ELSE "TriggerA" \in port

-----------------------------------------------------------------------------
KeysInit ==
  /\ keys = {} /\ port = {} /\ keySeen = 0 /\ held = {} /\ given = 0

KeysNext ==
  \/ \E hand \in Hands : Frame(hand)
  \/ \E b \in Sticks : Tape(b)
  \/ CHSNS \/ CHGET

(* play.go.txt: "read them from either the port or the keyboard, so both   *)
(* are driven": by the window and by a tape they show the same stick and   *)
(* the same trigger.                                                       *)
TwoWaysAgree == GTSTCK(0) = GTSTCK(1) /\ GTTRIG(0) = GTTRIG(1)

(* A key a program is given is one the host holds, and a key held alone is *)
(* seen as itself, on every row the two tables give a letter or a digit.   *)
PressedAreRead ==
  /\ KeyWaiting # 0 => KeyWaiting \in held
  /\ \A h \in Letters \cup Digits \cup {13, 32} : held = {h} => KeyWaiting = h

(* keyEvent's comment: a press is one character, delivered once.  The last *)
(* one delivered is remembered for as long as its key is down, whatever    *)
(* else is pressed, released or asked for in between.                      *)
HeldIsRemembered == given # 0 => keySeen = given

(* A key held alone, which no read has seen before, is delivered to the    *)
(* program that goes on asking, unless it is let go.                       *)
Heard ==
  \A h \in Awaited : held = {h} /\ keySeen # h ~> given = h \/ held # {h}

(* What a program reads is what is held, by either way, once.              *)
KeysAreRead == TwoWaysAgree /\ PressedAreRead /\ HeldIsRemembered
=============================================================================
