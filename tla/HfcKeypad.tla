------------------------------- MODULE HfcKeypad -------------------------------
(***************************************************************************)
(* The keypad driver, hfc_app/hfc_key/hfc_keyb.c.  The main loop polls it  *)
(* on every tick (mxc_kpp_getc); one poll scans the matrix, debounces and  *)
(* counts the time keys are held.                                          *)
(*                                                                         *)
(* A cell of the matrix is its scancode + 1, and a row map is the set of   *)
(* the cells that are down.  The POWER and MENU keys close several cells   *)
(* at once.  prev_rcmap lives only within one scan: mxc_kpp_scan_matrix    *)
(* overwrites it before it is read, also after the debounce copied it from *)
(* address 0, so it is not part of the state.  iKeyState, KPress and       *)
(* release_scancode are written and never read.                            *)
(***************************************************************************)
EXTENDS Integers, FiniteSets

CONSTANTS
    Cells,              \* 1 .. rows * columns (20)
    PowerCells,         \* the cells POWER closes (4)
    MenuCells,          \* the cells MENU closes (12)
    LONG_KEY_COUNTER,   \* 300
    Presses,            \* the sets of cells that can be closed together
    MaxKeyed            \* bound of the history variable keyed

KEY_MENU == 227
KEY_PPOWER == 228
KEY_GOTO_MENU == 230
KEY_LONG_POWER == 232

(* A poll returns a number of cells or one of the codes, never in doubt.   *)
ASSUME CellAssumption ==
    /\ Cells \subseteq Nat \ {0} /\ IsFiniteSet(Cells)
    /\ Cardinality(Cells) < KEY_MENU
    /\ PowerCells \subseteq Cells /\ MenuCells \subseteq Cells
    /\ Cardinality(PowerCells) # Cardinality(MenuCells)

ASSUME LongAssumption ==
    /\ LONG_KEY_COUNTER \in Nat /\ Cardinality(Cells) <= LONG_KEY_COUNTER
    /\ MaxKeyed \in Nat /\ MaxKeyed * Cardinality(Cells) > LONG_KEY_COUNTER

(* k_KeyV has room for the number of cells and 16 of them; what happens    *)
(* when a poll collects more of the matrix' 20 is not modelled.            *)
ASSUME PressAssumption ==
    /\ {} \in Presses /\ Presses \subseteq SUBSET Cells
    /\ Cardinality(UNION Presses) <= 16

VARIABLES
    down,               \* the cells closed right now (hardware)
    KPKD,               \* the depress latch of KPSR (hardware)
    cur_rcmap,
    press_scancode,     \* the cells whose entry is not -1
    k_KeyV,             \* the cells the last poll collected
    long_key_count,
    mxc_long_key_flag,
    special_key,        \* 0, KEY_PPOWER or KEY_MENU
    key_tremble_times,
    rtkey,              \* the four bytes of the registered code
    key,                \* the main loop's copy of the result
    keyed,              \* history: polls that saw a key since one saw none
    seen                \* history: the sets of cells those polls saw

scanVars == <<cur_rcmap, press_scancode, k_KeyV, long_key_count,
              mxc_long_key_flag, special_key, key_tremble_times, rtkey>>
historyVars == <<keyed, seen>>
keypadVars == <<down, KPKD, scanVars, key, historyVars>>

-------------------------------------------------------------------------------
(* The hardware.                                                           *)

(* The user presses and releases keys.                                     *)
Touch(cells) ==
    /\ down # cells
    /\ down' = cells
    /\ UNCHANGED <<KPKD, scanVars, key, historyVars>>

(* A closed cell sets the latch; only a scan clears it.  After the scan    *)
(* has cleared the synchronizer a key that is still held sets it again.    *)
Depress ==
    /\ down # {} /\ ~KPKD
    /\ KPKD' = TRUE
    /\ UNCHANGED <<down, scanVars, key, historyVars>>

-------------------------------------------------------------------------------
(* mxc_kpp_scan_matrix.                                                    *)

Changed == (down \ cur_rcmap) \cup (cur_rcmap \ down)

(* Every cell that did not change counts, and the count wraps to 0 past    *)
(* LONG_KEY_COUNTER; it can wrap only once in a scan.                      *)
Counted == long_key_count + Cardinality(Cells \ Changed)
LongKey == mxc_long_key_flag = 1 \/ Counted > LONG_KEY_COUNTER

CountTime ==
    long_key_count' = IF Counted > LONG_KEY_COUNTER
                      THEN Counted - (LONG_KEY_COUNTER + 1) ELSE Counted

Pressed == press_scancode \cup (down \ cur_rcmap)

-------------------------------------------------------------------------------
(* mxc_kpp_getc.                                                           *)

(* The i-th smallest cell collected, 0 when there are fewer.               *)
KeyV(cells, i) ==
    IF Cardinality(cells) < i THEN 0
    ELSE CHOOSE c \in cells : Cardinality({d \in cells : d < c}) = i - 1

(* The key code of the cells that were collected on the second look.  Four *)
(* or twelve cells that are not POWER or MENU register nothing.            *)
Register(cells) ==
    LET n == Cardinality(cells) IN
    /\ special_key' = IF cells = PowerCells THEN KEY_PPOWER
                      ELSE IF cells = MenuCells THEN KEY_MENU ELSE special_key
    /\ rtkey' =
         IF cells = PowerCells THEN <<0, 0, 0, KEY_PPOWER>>
         ELSE IF cells = MenuCells THEN <<0, 0, 0, KEY_MENU>>
         ELSE IF n \in {Cardinality(PowerCells), Cardinality(MenuCells)} THEN rtkey
         ELSE <<n, KeyV(cells, 3), KeyV(cells, 2), KeyV(cells, 1)>>

(* The latch is clear: nothing is scanned.                                 *)
GetcIdle ==
    /\ ~KPKD
    /\ key' = 0 /\ k_KeyV' = {}
    /\ UNCHANGED <<down, KPKD, cur_rcmap, press_scancode, long_key_count,
                   mxc_long_key_flag, special_key, key_tremble_times, rtkey,
                   historyVars>>

(* The mutant that forgets to reset the count of a long press.             *)
GetcReleaseCountKept ==
    /\ KPKD /\ down = {}
    /\ KPKD' = FALSE
    /\ key' = 0 /\ k_KeyV' = {}
    /\ press_scancode' = {} /\ cur_rcmap' = {}
    /\ key_tremble_times' = 0 /\ mxc_long_key_flag' = 0 /\ special_key' = 0
    /\ keyed' = 0 /\ seen' = {}
    /\ UNCHANGED <<down, rtkey, long_key_count>>

(* The mutant that forgets which special key was registered.               *)
GetcReleaseSpecialKept ==
    /\ KPKD /\ down = {}
    /\ KPKD' = FALSE
    /\ key' = 0 /\ k_KeyV' = {}
    /\ press_scancode' = {} /\ cur_rcmap' = {} /\ long_key_count' = 0
    /\ key_tremble_times' = 0 /\ mxc_long_key_flag' = 0
    /\ keyed' = 0 /\ seen' = {}
    /\ UNCHANGED <<down, rtkey, special_key>>

(* No key is down any more: everything but rtkey starts afresh.            *)
GetcRelease ==
    /\ KPKD /\ down = {}
    /\ KPKD' = FALSE
    /\ key' = 0 /\ k_KeyV' = {}
    /\ press_scancode' = {} /\ cur_rcmap' = {} /\ long_key_count' = 0
    /\ key_tremble_times' = 0 /\ mxc_long_key_flag' = 0 /\ special_key' = 0
    /\ keyed' = 0 /\ seen' = {}
    /\ UNCHANGED <<down, rtkey>>

(* Keys are down: every such poll clears the latch and the long-press flag *)
(* and counts.                                                             *)
Scan ==
    /\ KPKD /\ down # {}
    /\ KPKD' = FALSE
    /\ CountTime /\ mxc_long_key_flag' = 0
    /\ keyed' = (IF keyed < MaxKeyed THEN keyed + 1 ELSE keyed)
    /\ seen' = seen \cup {down}
    /\ UNCHANGED down

(* A long press of a special key returns its code before the cells that    *)
(* the scan found are collected.                                           *)
GetcLong ==
    /\ Scan
    /\ LongKey /\ special_key # 0
    /\ key' = IF special_key = KEY_PPOWER THEN KEY_LONG_POWER ELSE KEY_GOTO_MENU
    /\ press_scancode' = Pressed /\ cur_rcmap' = down /\ k_KeyV' = {}
    /\ UNCHANGED <<special_key, key_tremble_times, rtkey>>

Collect ==
    /\ Scan
    /\ ~(LongKey /\ special_key # 0)
    /\ key' = Cardinality(down)
    /\ press_scancode' = {} /\ k_KeyV' = Pressed

GetcHeld ==
    /\ Collect /\ Pressed = {}
    /\ cur_rcmap' = down
    /\ UNCHANGED <<special_key, key_tremble_times, rtkey>>

(* The mutant that keeps the map at the first look.                        *)
GetcFirstMapKept ==
    /\ Collect /\ Pressed # {} /\ key_tremble_times = 0
    /\ cur_rcmap' = down
    /\ key_tremble_times' = 1
    /\ UNCHANGED <<special_key, rtkey>>

(* The first look at a new press forgets the map, so that the second sees  *)
(* all the cells that are down as new.                                     *)
GetcFirst ==
    /\ Collect /\ Pressed # {} /\ key_tremble_times = 0
    /\ cur_rcmap' = {}
    /\ key_tremble_times' = 1
    /\ UNCHANGED <<special_key, rtkey>>

GetcSecond ==
    /\ Collect /\ Pressed # {} /\ key_tremble_times = 1
    /\ Register(Pressed)
    /\ cur_rcmap' = down
    /\ key_tremble_times' = 0

mxc_kpp_getc ==
    GetcIdle \/ GetcRelease \/ GetcLong \/ GetcHeld \/ GetcFirst \/ GetcSecond

-------------------------------------------------------------------------------
(* The keypad with its user and the main loop that polls it.               *)

KeypadInit ==
    /\ down = {} /\ KPKD = FALSE
    /\ cur_rcmap = {} /\ press_scancode = {} /\ k_KeyV = {}
    /\ long_key_count = 0 /\ mxc_long_key_flag = 0
    /\ special_key = 0 /\ key_tremble_times = 0
    /\ rtkey = <<0, 0, 0, 0>> /\ key = 0
    /\ keyed = 0 /\ seen = {}

KeypadNext ==
    \/ \E cells \in Presses : Touch(cells)
    \/ Depress
    \/ mxc_kpp_getc

KeypadSpec == KeypadInit /\ [][KeypadNext]_keypadVars

(* The loop keeps polling, and the hardware latches a key that stays down. *)
KeypadFairSpec ==
    KeypadSpec /\ WF_keypadVars(mxc_kpp_getc) /\ WF_keypadVars(Depress)

-------------------------------------------------------------------------------

(* The driver's variables have their types; the count of a long press      *)
(* stays at or below LONG_KEY_COUNTER and the debounce counter below 2.    *)
ScanTypeOK ==
    /\ down \in Presses /\ KPKD \in BOOLEAN
    /\ cur_rcmap \subseteq Cells /\ press_scancode \subseteq Cells
    /\ k_KeyV \subseteq Cells
    /\ long_key_count \in 0 .. LONG_KEY_COUNTER /\ mxc_long_key_flag = 0
    /\ special_key \in {0, KEY_PPOWER, KEY_MENU}
    /\ key_tremble_times \in {0, 1}
    /\ keyed \in 0 .. MaxKeyed /\ seen \subseteq Presses

(* What a poll returns: a number of cells or the code of a long press.     *)
Polled == 0 .. Cardinality(Cells) \cup {KEY_LONG_POWER, KEY_GOTO_MENU}

(* A long-press code takes time: no poll returns one unless, since a poll  *)
(* last saw all keys released, so many polls saw a key that their unchanged*)
(* cells can exceed LONG_KEY_COUNTER.                                      *)
LongPressTakesTime ==
    key \in {KEY_LONG_POWER, KEY_GOTO_MENU} =>
        keyed * Cardinality(Cells) > LONG_KEY_COUNTER

(* The board enters recovery (KEY_GOTO_MENU) only if every cell of MENU    *)
(* was seen down since a poll last saw all keys released: neither an       *)
(* earlier press nor a debounce that was cut short stands for a cell of    *)
(* this one.  They need not have been down together: a long press of POWER *)
(* leaves its cells in press_scancode, and the next poll adds them to the  *)
(* ones it finds.                                                          *)
MenuWasSeen == key = KEY_GOTO_MENU => MenuCells \subseteq UNION seen

(* Once a poll has seen all keys released, a user who touches MENU only    *)
(* and in the end holds it gets to recovery, however often its contacts    *)
(* bounce and in whatever order they close and open: the debounce          *)
(* registers the key and the long press is reported (mxc_kpp_getc and the  *)
(* latch).                                                                 *)
Released == down = {} /\ cur_rcmap = {} /\ keyed = 0

HeldMenuRecovers ==
    [](Released /\ [](down \subseteq MenuCells) /\ <>[](down = MenuCells)
         => <>(key = KEY_GOTO_MENU))

===============================================================================
