----------------------------- MODULE HfcLoopProofs -----------------------------
(***************************************************************************)
(* The keypad driver and the main loop with its interrupts, for every      *)
(* matrix, every MENU and POWER key, every length of a long press, every   *)
(* period of the tick and every limit of the loop's counters.              *)
(***************************************************************************)
EXTENDS HfcLoop, FiniteSetTheorems, TLAPS

-------------------------------------------------------------------------------
(* The keypad.  The count of a long press never runs ahead of the polls    *)
(* that saw a key (InTime), and what the debounce remembers was seen since *)
(* the last release (Remembered).                                          *)

N == Cardinality(Cells)

InTime == keyed = MaxKeyed \/ long_key_count <= keyed * N

Remembered ==
    /\ press_scancode \subseteq UNION seen
    /\ special_key = KEY_MENU => MenuCells \subseteq UNION seen

KeypadInv ==
    ScanTypeOK /\ InTime /\ Remembered /\ LongPressTakesTime /\ MenuWasSeen

(* The sizes of the matrix and of its parts.                               *)
LEMMA SizeFacts ==
    /\ N \in Nat /\ N < KEY_MENU /\ N <= LONG_KEY_COUNTER
    /\ \A s \in SUBSET Cells : Cardinality(s) \in Nat /\ Cardinality(s) <= N
<1>1. IsFiniteSet(Cells)
    BY CellAssumption, Zenon
<1>2. N \in Nat
    BY <1>1, FS_CardinalityType, Zenon DEF N
<1>3. ASSUME NEW s \in SUBSET Cells
      PROVE  Cardinality(s) \in Nat /\ Cardinality(s) <= N
    <2>1. IsFiniteSet(s) /\ Cardinality(s) <= Cardinality(Cells)
        BY <1>1, FS_Subset, Zenon
    <2> QED
        BY <2>1, FS_CardinalityType, Zenon DEF N
<1> QED
    BY <1>2, <1>3, CellAssumption, LongAssumption, Zenon DEF N

(* One scan counts at most the whole matrix, so that a count that passes   *)
(* the limit has taken its polls.                                          *)
LEMMA ScanCounts ==
    ASSUME KeypadInv, Scan
    PROVE  /\ long_key_count' \in 0 .. LONG_KEY_COUNTER
           /\ keyed' \in 0 .. MaxKeyed
           /\ InTime'
           /\ LongKey => keyed' * N > LONG_KEY_COUNTER
<1> DEFINE c == Cardinality(Cells \ Changed)
           L == LONG_KEY_COUNTER
<1>1. c \in Nat /\ c <= N /\ N \in Nat /\ N <= L
    BY SizeFacts, Zenon
<1>2. /\ L \in Nat /\ MaxKeyed \in Nat /\ MaxKeyed * N > L
      /\ long_key_count \in 0 .. L /\ keyed \in 0 .. MaxKeyed
      /\ mxc_long_key_flag = 0
    BY LongAssumption, Zenon DEF KeypadInv, ScanTypeOK, N
<1>3. /\ long_key_count' = IF long_key_count + c > L
                           THEN long_key_count + c - (L + 1)
                           ELSE long_key_count + c
      /\ keyed' = IF keyed < MaxKeyed THEN keyed + 1 ELSE keyed
    BY <1>1, <1>2 DEF Scan, CountTime, Counted
<1>4. LongKey => long_key_count + c > L
    BY <1>2 DEF LongKey, Counted
<1>5. keyed = MaxKeyed \/ long_key_count <= keyed * N
    BY Zenon DEF KeypadInv, InTime
<1> HIDE DEF c, L
<1>6. (keyed + 1) * N = keyed * N + N /\ keyed * N \in Nat
    BY <1>1, <1>2
<1>7. long_key_count' \in 0 .. L /\ keyed' \in 0 .. MaxKeyed
    BY <1>1, <1>2, <1>3
<1>8. CASE keyed = MaxKeyed
    <2>1. keyed' = MaxKeyed
        BY <1>2, <1>3, <1>8
    <2> QED
        BY <1>2, <1>7, <2>1, Zenon DEF InTime, L
<1>9. CASE keyed < MaxKeyed
    <2>1. keyed' = keyed + 1 /\ long_key_count <= keyed * N
        BY <1>2, <1>3, <1>5, <1>9
    <2>2. long_key_count + c <= keyed' * N
        BY <1>1, <1>2, <1>6, <2>1
    <2>3. long_key_count' <= long_key_count + c
        BY <1>1, <1>2, <1>3
    <2>4. long_key_count' <= keyed' * N
        BY <1>1, <1>2, <1>6, <1>7, <2>1, <2>2, <2>3
    <2>5. LongKey => keyed' * N > L
        BY <1>1, <1>2, <1>4, <1>6, <2>1, <2>2
    <2> QED
        BY <1>7, <2>4, <2>5, Zenon DEF InTime, L
<1> QED
    BY <1>2, <1>8, <1>9

(* A poll that finds keys down and does not return a long-press code.      *)
LEMMA CollectKeeps ==
    ASSUME KeypadInv, Collect
    PROVE  /\ (InTime /\ LongPressTakesTime /\ MenuWasSeen)'
           /\ key' \in 0 .. N /\ Pressed \subseteq Cells
           /\ Pressed \subseteq UNION seen' /\ seen' \subseteq Presses
           /\ UNION seen \subseteq UNION seen'
<1>1. Scan /\ key' = Cardinality(down)
    BY Zenon DEF Collect
<1>2. down \in Presses /\ seen \subseteq Presses /\ press_scancode \subseteq Cells
    BY Zenon DEF KeypadInv, ScanTypeOK
<1>3. down \subseteq Cells
    BY <1>2, PressAssumption, Zenon
<1>4. key' \in 0 .. N /\ N < KEY_MENU
    BY <1>1, <1>3, SizeFacts
<1>5. key' # KEY_GOTO_MENU /\ key' # KEY_LONG_POWER
    BY <1>4, SizeFacts DEF KEY_GOTO_MENU, KEY_LONG_POWER, KEY_MENU
<1>6. seen' = seen \cup {down}
    BY <1>1, Zenon DEF Scan
<1>7. Pressed \subseteq Cells /\ Pressed \subseteq UNION seen'
    BY <1>2, <1>3, <1>6, Zenon DEF KeypadInv, Remembered, Pressed
<1>8. (LongPressTakesTime /\ MenuWasSeen)'
    BY <1>5, Zenon DEF LongPressTakesTime, MenuWasSeen
<1> QED
    BY <1>1, <1>2, <1>4, <1>6, <1>7, <1>8, ScanCounts, Zenon

(* Every poll keeps the invariant.                                         *)
LEMMA GetcKeepsKeypadInv ==
    ASSUME KeypadInv, mxc_kpp_getc
    PROVE  KeypadInv'
<1>0. ScanTypeOK /\ N \in Nat
    BY SizeFacts, Zenon DEF KeypadInv
<1>1. CASE GetcIdle
    BY <1>0, <1>1 DEF GetcIdle, historyVars, KeypadInv, ScanTypeOK, InTime,
       Remembered, LongPressTakesTime, MenuWasSeen, KEY_GOTO_MENU,
       KEY_LONG_POWER, N
<1>2. CASE GetcRelease
    <2>1. KPKD' \in BOOLEAN
        BY <1>2, Zenon DEF GetcRelease
    <2>2. 0 \in 0 .. LONG_KEY_COUNTER /\ 0 \in 0 .. MaxKeyed /\ 0 \in 0 .. N
        BY <1>0, LongAssumption
    <2>3. ScanTypeOK'
        BY <1>0, <1>2, <2>1, <2>2, Zenon DEF GetcRelease, ScanTypeOK, N
    <2>4. InTime'
        BY <1>0, <1>2 DEF GetcRelease, InTime
    <2>5. (Remembered /\ LongPressTakesTime /\ MenuWasSeen)'
        BY <1>2 DEF GetcRelease, Remembered, LongPressTakesTime, MenuWasSeen,
                    KEY_MENU, KEY_GOTO_MENU, KEY_LONG_POWER
    <2> QED
        BY <2>3, <2>4, <2>5, Zenon DEF KeypadInv
<1>3. CASE GetcLong
    <2>1. Scan /\ LongKey
        BY <1>3, Zenon DEF GetcLong
    <2>2. /\ seen' = seen \cup {down} /\ UNCHANGED down /\ KPKD' = FALSE
          /\ mxc_long_key_flag' = 0
        BY <2>1, Zenon DEF Scan
    <2>3. down \subseteq Cells /\ down \in Presses
        BY <1>0, PressAssumption, Zenon DEF ScanTypeOK
    <2>4. Pressed \subseteq Cells /\ Pressed \subseteq UNION seen'
        BY <1>0, <2>2, <2>3, Zenon DEF KeypadInv, ScanTypeOK, Remembered, Pressed
    <2>5. KPKD' \in BOOLEAN /\ seen' \subseteq Presses
        BY <1>0, <2>2, <2>3, Zenon DEF ScanTypeOK
    <2>6. ScanTypeOK'
        BY <1>0, <1>3, <2>1, <2>2, <2>3, <2>4, <2>5, ScanCounts, Zenon
           DEF GetcLong, ScanTypeOK
    <2>7. (InTime /\ LongPressTakesTime)'
        BY <2>1, ScanCounts, Zenon DEF LongPressTakesTime, N
    <2>8. special_key = KEY_MENU => MenuCells \subseteq UNION seen'
        BY <2>2, Zenon DEF KeypadInv, Remembered
    <2>9. key' = KEY_GOTO_MENU => special_key = KEY_MENU
        BY <1>0, <1>3 DEF GetcLong, ScanTypeOK, KEY_GOTO_MENU,
                          KEY_LONG_POWER, KEY_PPOWER
    <2>10. (Remembered /\ MenuWasSeen)'
        BY <1>3, <2>4, <2>8, <2>9, Zenon DEF GetcLong, Remembered, MenuWasSeen
    <2> QED
        BY <2>6, <2>7, <2>10, Zenon DEF KeypadInv
<1>4. ASSUME Collect, cur_rcmap' \subseteq Cells,
             key_tremble_times' \in {0, 1},
             special_key' \in {0, KEY_PPOWER, KEY_MENU},
             special_key' = KEY_MENU =>
               special_key = KEY_MENU \/ Pressed = MenuCells
      PROVE  KeypadInv'
    <2>1. Scan /\ press_scancode' = {} /\ k_KeyV' = Pressed
        BY <1>4, Zenon DEF Collect
    <2>2. KPKD' = FALSE /\ mxc_long_key_flag' = 0 /\ UNCHANGED down
        BY <2>1, Zenon DEF Scan
    <2>3. KPKD' \in BOOLEAN
        BY <2>2, Zenon
    <2>4. ScanTypeOK'
        BY <1>0, <1>4, <2>1, <2>2, <2>3, ScanCounts, CollectKeeps, Zenon
           DEF ScanTypeOK, N
    <2>5. Remembered'
        BY <1>4, <2>1, CollectKeeps, Zenon DEF KeypadInv, Remembered
    <2> QED
        BY <1>4, <2>4, <2>5, CollectKeeps, Zenon DEF KeypadInv
<1>5. down \subseteq Cells
    BY <1>0, PressAssumption, Zenon DEF ScanTypeOK
<1>6. CASE GetcHeld
    BY <1>0, <1>4, <1>5, <1>6, Zenon DEF GetcHeld, ScanTypeOK
<1>7. CASE GetcFirst
    BY <1>0, <1>4, <1>7, Zenon DEF GetcFirst, ScanTypeOK
<1>8. CASE GetcSecond
    <2>1. /\ special_key' \in {0, KEY_PPOWER, KEY_MENU}
          /\ special_key' = KEY_MENU =>
               special_key = KEY_MENU \/ Pressed = MenuCells
        BY <1>0, <1>8
           DEF GetcSecond, Register, ScanTypeOK, KEY_MENU, KEY_PPOWER
    <2>2. Collect /\ cur_rcmap' = down /\ key_tremble_times' = 0
        BY <1>8, Zenon DEF GetcSecond
    <2> QED
        BY <1>4, <1>5, <2>1, <2>2, Zenon
<1> QED
    BY <1>1, <1>2, <1>3, <1>6, <1>7, <1>8, Zenon DEF mxc_kpp_getc

(* A poll returns a number of cells or the code of a long press.           *)
LEMMA GetcPolled ==
    ASSUME KeypadInv, mxc_kpp_getc
    PROVE  key' \in Polled
<1>0. N \in Nat
    BY SizeFacts, Zenon
<1>1. CASE GetcIdle \/ GetcRelease
    BY <1>0, <1>1 DEF GetcIdle, GetcRelease, Polled, N
<1>2. CASE GetcLong
    BY <1>2, Zenon DEF GetcLong, Polled
<1>3. CASE Collect
    BY <1>3, CollectKeeps, Zenon DEF Polled, N
<1> QED
    BY <1>1, <1>2, <1>3, Zenon DEF mxc_kpp_getc, GetcHeld, GetcFirst, GetcSecond

(* The driver starts in the invariant.                                     *)
LEMMA InitKeypadInv == KeypadInit => KeypadInv
<1>0. N \in Nat
    BY SizeFacts, Zenon
<1> SUFFICES ASSUME KeypadInit PROVE KeypadInv
    OBVIOUS
<1>1. KPKD \in BOOLEAN
    BY Zenon DEF KeypadInit
<1>2. 0 \in 0 .. LONG_KEY_COUNTER /\ 0 \in 0 .. MaxKeyed /\ 0 \in 0 .. N
    BY <1>0, LongAssumption
<1>3. ScanTypeOK
    BY <1>1, <1>2, PressAssumption, Zenon DEF KeypadInit, ScanTypeOK, N
<1>4. InTime
    BY <1>0 DEF KeypadInit, InTime
<1>5. Remembered /\ LongPressTakesTime /\ MenuWasSeen
    BY DEF KeypadInit, Remembered, LongPressTakesTime, MenuWasSeen,
           KEY_MENU, KEY_GOTO_MENU, KEY_LONG_POWER
<1> QED
    BY <1>3, <1>4, <1>5, Zenon DEF KeypadInv

(* Polls, the user and the latch keep it.                                  *)
LEMMA NextKeypadInv ==
    ASSUME KeypadInv, [KeypadNext]_keypadVars
    PROVE  KeypadInv'
<1>1. CASE /\ down' \in Presses /\ KPKD' \in BOOLEAN
           /\ UNCHANGED <<scanVars, key, historyVars>>
    BY <1>1, Zenon DEF KeypadInv, ScanTypeOK, InTime, Remembered,
       LongPressTakesTime, MenuWasSeen, scanVars, historyVars
<1>2. KPKD \in BOOLEAN /\ down \in Presses
    BY Zenon DEF KeypadInv, ScanTypeOK
<1>3. ASSUME NEW cells \in Presses, Touch(cells) PROVE KeypadInv'
    BY <1>1, <1>2, <1>3, Zenon DEF Touch
<1>4. CASE Depress
    <2>1. KPKD' \in BOOLEAN
        BY <1>4, Zenon DEF Depress
    <2> QED
        BY <1>1, <1>2, <1>4, <2>1, Zenon DEF Depress
<1>5. CASE UNCHANGED keypadVars
    BY <1>1, <1>2, <1>5, Zenon DEF keypadVars
<1> QED
    BY <1>3, <1>4, <1>5, GetcKeepsKeypadInv, Zenon DEF KeypadNext

(* The inductive invariant holds throughout.                               *)
LEMMA AlwaysKeypadInv == KeypadSpec => []KeypadInv
<1>1. KeypadInv /\ [KeypadNext]_keypadVars => KeypadInv'
    BY NextKeypadInv, Zenon
<1> QED
    BY <1>1, InitKeypadInv, PTL DEF KeypadSpec

(* LongPressTakesTime for every matrix and every LONG_KEY_COUNTER: bounces *)
(* and wraps of the counter never report a long press early.               *)
THEOREM LongPressesTakeTime == KeypadSpec => []LongPressTakesTime
<1>1. KeypadInv => LongPressTakesTime
    BY Zenon DEF KeypadInv
<1> QED
    BY <1>1, AlwaysKeypadInv, PTL

(* MenuWasSeen for every matrix and every MENU key: recovery is never      *)
(* entered for cells of an earlier press.                                  *)
THEOREM RecoveryNeedsMenu == KeypadSpec => []MenuWasSeen
<1>1. KeypadInv => MenuWasSeen
    BY Zenon DEF KeypadInv
<1> QED
    BY <1>1, AlwaysKeypadInv, PTL

-------------------------------------------------------------------------------
(* The loop.  ServedTicksHappened needs that the divider of the handler is *)
(* in range; MeasuredAfterInit needs to know whose request of a line is on *)
(* its way, and when the entry of SPI is still free.                       *)

Ticks ==
    /\ timer_base \in 0 .. TICK /\ time_tick \in {0, 1}
    /\ credit \in 0 .. MaxCredit
    /\ ServedTicksHappened

Requesting == {"irq_chip_enable", "set_irq_handler", "restore"}

(* Before the first pass only GPT2 has asked for a line.                   *)
BeforeInit ==
    /\ irq_handler[Cspi] = NULL
    /\ pc \in Requesting =>
         /\ call.num = Gpt2 /\ call.func = "gpt2"
         /\ call.flag /\ call.back = "gpt2_enable"
    /\ pc \notin {"battery", "measure", "console"}

(* After it SPI's request is on its way or done.                           *)
AfterInit ==
    /\ irq_handler[Cspi] =
         IF pc \in {"irq_chip_enable", "set_irq_handler"} THEN NULL ELSE mxc_spi_isr
    /\ pc \in Requesting =>
         /\ call.num = Cspi /\ call.func = mxc_spi_isr
         /\ call.flag /\ call.back = "battery"
    /\ pc \notin {"boot", "enable", "idle", "gpt2_request", "gpt2_enable"}

Running ==
    /\ irq_handler \in [Internal -> Handlers \cup {NULL}]
    /\ pc \in {"idle", "gpt2_request", "gpt2_enable"} \cup LoopPCs => irqs_on
    /\ irqs_on \in BOOLEAN
    /\ \/ system_init = 0 /\ BeforeInit
       \/ system_init = 1 /\ AfterInit

(* Neither NULL nor another line is confused with SPI's.                   *)
LEMMA CspiFacts ==
    /\ Cspi \in Internal /\ Cspi # Gpt1 /\ Cspi # Gpt2 /\ Cspi \notin Beyond
    /\ Gpt2 \in Internal /\ Gpt2 # Gpt1 /\ Gpt2 \notin Beyond
    /\ mxc_spi_isr # NULL /\ mxc_spi_isr \in Handlers
    /\ "gpt2" \in Handlers
BY LineAssumption, HandlerAssumption, LoopAssumption, Zenon DEF Handlers

(* The handler raises time_tick only together with a tick.                 *)
LEMMA InterruptKeepsTicks ==
    ASSUME Ticks, Interrupt
    PROVE  Ticks'
<1>1. PICK n \in Taken : run_irq_handler(n)
    BY Zenon DEF Interrupt, do_irq
<1>2. /\ TICK \in Nat /\ MaxCredit \in Nat \ {0} /\ credit \in 0 .. MaxCredit
      /\ timer_base \in 0 .. TICK /\ time_tick \in {0, 1}
    BY TickAssumption, LoopAssumption, Zenon DEF Ticks
<1>3. /\ credit' = IF timer_base' = 0 /\ timer_base = TICK /\ credit < MaxCredit
                   THEN credit + 1 ELSE credit
      /\ pc' = pc
    BY Zenon DEF Interrupt, do_irq
<1>4. credit' \in 0 .. MaxCredit /\ credit' >= credit
    BY <1>2, <1>3
<1>5. CASE irq_handler[n] = "gpt2" /\ timer_base + 1 > TICK
    <2>1. timer_base' = 0 /\ time_tick' = 1 /\ timer_base = TICK
        BY <1>1, <1>2, <1>5 DEF run_irq_handler, gpt2_irq_handler
    <2>2. credit' >= 1
        BY <1>2, <1>3, <2>1
    <2> QED
        BY <1>2, <1>4, <2>1, <2>2 DEF Ticks, ServedTicksHappened
<1>6. CASE irq_handler[n] = "gpt2" /\ ~(timer_base + 1 > TICK)
    <2>1. timer_base' = timer_base + 1 /\ time_tick' = time_tick
        BY <1>1, <1>6, Zenon DEF run_irq_handler, gpt2_irq_handler
    <2> QED
        BY <1>2, <1>3, <1>4, <1>6, <2>1 DEF Ticks, ServedTicksHappened
<1>7. CASE irq_handler[n] # "gpt2"
    <2>1. timer_base' = timer_base /\ time_tick' = time_tick
        BY <1>1, <1>7, Zenon DEF run_irq_handler, timerVars
    <2> QED
        BY <1>2, <1>3, <1>4, <2>1 DEF Ticks, ServedTicksHappened
<1> QED
    BY <1>5, <1>6, <1>7, Zenon

(* Every step of the loop and of the other actors keeps Ticks.             *)
LEMMA NextKeepsTicks ==
    ASSUME Ticks, Running, [LoopNext]_loopVars
    PROVE  Ticks'
<1>1. CASE Interrupt
    BY <1>1, InterruptKeepsTicks, Zenon
<1>2. CASE ServeTick
    <2>1. /\ time_tick' = 0 /\ timer_base' = timer_base
          /\ credit' = credit - 1 /\ pc = "clear" /\ pc' = "sys"
        BY <1>2, Zenon DEF ServeTick, Goto
    <2> QED
        BY <2>1, LoopAssumption DEF Ticks, ServedTicksHappened
<1>3. CASE TestTick
    <2>1. /\ UNCHANGED <<time_tick, timer_base, credit>>
          /\ pc' = IF time_tick = 1 THEN "clear" ELSE "sys"
        BY <1>3, Zenon DEF TestTick, Goto, timerVars
    <2> QED
        BY <2>1 DEF Ticks, ServedTicksHappened
<1>4. CASE /\ UNCHANGED <<time_tick, timer_base, credit>>
           /\ pc' = pc \/ pc' # "clear"
    BY <1>4 DEF Ticks, ServedTicksHappened
<1>5. CASE Startup
    <2>1. UNCHANGED <<time_tick, timer_base, credit>>
        BY <1>5, Zenon DEF Startup, interrupt_init, enable_interrupts, gpt2_init,
           gpt2_request, gpt2_enable, irq_request, timerVars
    <2>2. pc' # "clear"
        BY <1>5, Zenon DEF Startup, interrupt_init, enable_interrupts, gpt2_init,
           gpt2_request, gpt2_enable, irq_request
    <2> QED
        BY <1>4, <2>1, <2>2, Zenon
<1>6. CASE Table
    <2>1. UNCHANGED <<time_tick, timer_base, credit>>
        BY <1>6, Zenon DEF Table, irq_chip_enable, set_irq_handler, restore, timerVars
    <2>2. pc' # "clear"
        BY <1>6, Zenon DEF Table, irq_chip_enable, set_irq_handler, restore, Running,
                    BeforeInit, AfterInit, Requesting
    <2> QED
        BY <1>4, <2>1, <2>2, Zenon
<1>7. CASE SysLoop \/ SystemInit \/ BatteryLoop \/ Measured \/ ConsoleAndExit
    <2>1. UNCHANGED <<time_tick, timer_base, credit>>
        BY <1>7, Zenon DEF SysLoop, SystemInit, BatteryLoop, Measured, ConsoleAndExit,
                    irq_request, timerVars
    <2>2. pc' # "clear"
        BY <1>7, Zenon DEF SysLoop, SystemInit, BatteryLoop, Measured, ConsoleAndExit,
                    irq_request, Goto
    <2> QED
        BY <1>4, <2>1, <2>2, Zenon
<1>8. CASE Gpt2Expires \/ Closes \/ Latches \/ UNCHANGED loopVars
    <2>1. UNCHANGED <<time_tick, timer_base, credit, pc>>
        BY <1>8, Zenon DEF Gpt2Expires, Assert, Closes, Latches, loopVars, vars,
                    timerVars
    <2> QED
        BY <1>4, <2>1, Zenon
<1> QED
    BY <1>1, <1>2, <1>3, <1>5, <1>6, <1>7, <1>8, Zenon DEF LoopNext, Main

(* The start of the program and the table operations keep Running.         *)
LEMMA StartupKeepsRunning ==
    ASSUME Running, Startup \/ Table
    PROVE  Running'
<1> USE CspiFacts DEF Running, BeforeInit, AfterInit, Requesting, LoopPCs
<1>1. CASE Startup
    <2>0. system_init' = system_init
        BY <1>1, Zenon DEF Startup
    <2>1. CASE interrupt_init
        BY <2>0, <2>1, Zenon DEF interrupt_init
    <2>2. CASE enable_interrupts
        BY <2>0, <2>2, Zenon DEF enable_interrupts
    <2>3. CASE pc = "idle" /\ gpt2_init("gpt2_request")
        BY <2>0, <2>3, Zenon DEF gpt2_init, tableVars
    <2>4. CASE gpt2_request
        <3>1. /\ pc = "gpt2_request" /\ pc' = "irq_chip_enable"
              /\ call' = [num |-> Gpt2, func |-> "gpt2", flag |-> irqs_on,
                          back |-> "gpt2_enable"]
              /\ irqs_on' = FALSE /\ irq_handler' = irq_handler
            BY <2>4, Zenon DEF gpt2_request, irq_request
        <3>2. /\ call'.num = Gpt2 /\ call'.func = "gpt2" /\ call'.flag = irqs_on
              /\ call'.back = "gpt2_enable"
            BY <3>1, Zenon
        <3>3. irqs_on' \in BOOLEAN
            BY <3>1, Zenon
        <3> QED
            BY <2>0, <3>1, <3>2, <3>3, Zenon
    <2>5. CASE gpt2_enable("tick")
        BY <2>0, <2>5, Zenon DEF gpt2_enable, tableVars
    <2> QED
        BY <1>1, <2>1, <2>2, <2>3, <2>4, <2>5, Zenon DEF Startup
<1>2. CASE Table
    <2>0. system_init' = system_init
        BY <1>2, Zenon DEF Table
    <2>1. CASE irq_chip_enable
        BY <2>0, <2>1, Zenon DEF irq_chip_enable
    <2>2. CASE set_irq_handler
        <3>1. call.num \in Internal /\ call.func \in Handlers
            BY <2>2, Zenon DEF set_irq_handler
        <3>2. irq_handler' \in [Internal -> Handlers \cup {NULL}]
            BY <2>2, <3>1, Zenon DEF set_irq_handler
        <3>3. irq_handler'[Cspi] = IF system_init = 0 THEN NULL ELSE mxc_spi_isr
            BY <2>2, <3>1 DEF set_irq_handler
        <3>4. pc' = "restore" /\ UNCHANGED <<irqs_on, call>>
            BY <2>2, Zenon DEF set_irq_handler
        <3> QED
            BY <2>0, <2>2, <3>2, <3>3, <3>4, Zenon DEF set_irq_handler
    <2>3. CASE restore
        BY <2>0, <2>3, Zenon DEF restore
    <2> QED
        BY <1>2, <2>1, <2>2, <2>3, Zenon DEF Table
<1> QED
    BY <1>1, <1>2, Zenon

(* One pass of the loop keeps Running.                                     *)
LEMMA PassKeepsRunning ==
    ASSUME Running,
           \/ TestTick \/ ServeTick \/ SysLoop \/ SystemInit
           \/ BatteryLoop \/ Measured \/ ConsoleAndExit
    PROVE  Running'
<1> USE CspiFacts DEF Running, BeforeInit, AfterInit, Requesting, LoopPCs
<1>1. CASE SystemInit /\ system_init = 0
    <2>1. /\ pc = "init" /\ system_init' = 1
          /\ irq_request(Cspi, mxc_spi_isr, "battery")
        BY <1>1 DEF SystemInit
    <2>2. /\ pc' = "irq_chip_enable"
          /\ call' = [num |-> Cspi, func |-> mxc_spi_isr, flag |-> irqs_on,
                      back |-> "battery"]
          /\ irqs_on' = FALSE /\ irq_handler' = irq_handler
        BY <2>1, Zenon DEF irq_request
    <2>3. /\ call'.num = Cspi /\ call'.func = mxc_spi_isr
          /\ call'.flag = irqs_on /\ call'.back = "battery"
        BY <2>2, Zenon
    <2>4. irqs_on' \in BOOLEAN
        BY <2>2, Zenon
    <2>5. irqs_on /\ irq_handler[Cspi] = NULL
        BY <1>1, <2>1
    <2> QED
        BY <2>1, <2>2, <2>3, <2>4, <2>5, Zenon
<1>2. ASSUME UNCHANGED <<irqs_on, irq_handler, system_init, call>>,
             pc \in LoopPCs, pc' \in LoopPCs,
             system_init = 0 => pc' \notin {"battery", "measure", "console"}
      PROVE  Running'
    BY <1>2, Zenon
<1>3. CASE SystemInit /\ system_init # 0
    <2>1. /\ UNCHANGED <<irqs_on, irq_handler, system_init, call>>
          /\ pc = "init" /\ pc' = "battery"
        BY <1>3, Zenon DEF SystemInit, Goto, tableVars
    <2> QED
        BY <1>2, <1>3, <2>1, Zenon
<1>4. CASE TestTick
    BY <1>2, <1>4, Zenon DEF TestTick, Goto, tableVars
<1>5. CASE ServeTick
    BY <1>2, <1>5, Zenon DEF ServeTick, Goto, tableVars
<1>6. CASE SysLoop
    BY <1>2, <1>6, Zenon DEF SysLoop, Goto, tableVars
<1>7. CASE BatteryLoop
    BY <1>2, <1>7, Zenon DEF BatteryLoop, Goto, tableVars
<1>8. CASE Measured
    BY <1>2, <1>8, Zenon DEF Measured, Goto, tableVars
<1>9. CASE ConsoleAndExit
    BY <1>2, <1>9, Zenon DEF ConsoleAndExit, Goto, tableVars
<1> QED
    BY <1>1, <1>3, <1>4, <1>5, <1>6, <1>7, <1>8, <1>9

(* The loop starts in the invariant.                                       *)
LEMMA InitLoop == LoopInit => Ticks /\ Running
<1> SUFFICES ASSUME LoopInit PROVE Ticks /\ Running
    OBVIOUS
<1>1. Ticks
    BY TickAssumption, LoopAssumption
       DEF LoopInit, Init, Ticks, ServedTicksHappened
<1>2. irqs_on \in BOOLEAN
    BY Zenon DEF LoopInit, Init
<1>3. Running
    BY <1>2, CspiFacts, Zenon DEF LoopInit, Init, Running, BeforeInit, Requesting,
                           LoopPCs
<1> QED
    BY <1>1, <1>3, Zenon

(* Every step keeps it.                                                    *)
LEMMA NextLoop == Ticks /\ Running /\ [LoopNext]_loopVars => (Ticks /\ Running)'
<1> SUFFICES ASSUME Ticks, Running, [LoopNext]_loopVars
             PROVE  Ticks' /\ Running'
    OBVIOUS
<1>1. CASE UNCHANGED <<irqs_on, irq_handler, system_init, pc, call>>
    BY <1>1, NextKeepsTicks, Zenon DEF Running, BeforeInit, AfterInit
<1>2. Interrupt \/ Gpt2Expires \/ Closes \/ Latches \/ UNCHANGED loopVars
        => UNCHANGED <<irqs_on, irq_handler, system_init, pc, call>>
    BY Zenon DEF Interrupt, do_irq, Gpt2Expires, Assert, Closes, Latches,
           loopVars, vars, tableVars
<1> QED
    BY <1>1, <1>2, NextKeepsTicks, StartupKeepsRunning, PassKeepsRunning, Zenon
       DEF LoopNext, Main

(* The inductive invariant holds throughout.                               *)
LEMMA AlwaysLoopInv == LoopSpec => [](Ticks /\ Running)
    BY InitLoop, NextLoop, PTL DEF LoopSpec

(* ServedTicksHappened for every period of the tick: however the handler   *)
(* falls between the test and the clearing of time_tick, no tick is served *)
(* twice.                                                                  *)
THEOREM NoTickServedTwice == LoopSpec => []ServedTicksHappened
<1>1. Ticks => ServedTicksHappened
    BY Zenon DEF Ticks
<1> QED
    BY <1>1, AlwaysLoopInv, PTL

(* MeasuredAfterInit for every limit of the counters: the battery is never *)
(* measured before the display and SPI are up.                             *)
THEOREM MeasuresAfterInit == LoopSpec => []MeasuredAfterInit
<1>1. Running => MeasuredAfterInit
    BY Zenon DEF Running, BeforeInit, AfterInit, MeasuredAfterInit, LoopPCs
<1> QED
    BY <1>1, AlwaysLoopInv, PTL


-------------------------------------------------------------------------------
(* The counters and the keypad within the loop.  A counter passes its      *)
(* limit only between the tick that raised it and the test that resets it. *)

Counts ==
    /\ battery_loop \in 0 .. BATTERY_LOOPS + 1
    /\ battery_loop > BATTERY_LOOPS =>
         pc \in {"sys", "init", "battery"} \/ (pc \in Requesting /\ system_init = 1)
    /\ sys_loop \in 0 .. SYS_LOOPS + 1
    /\ sys_loop > SYS_LOOPS => pc = "sys"

LoopInv ==
    /\ Ticks /\ Running /\ Counts /\ LoopTypeOK
    /\ KeypadInv

(* What each step does to the keypad: only the tick polls it, and the      *)
(* console only writes key.                                                *)
LEMMA LoopKeepsKeypad ==
    ASSUME LoopInv, [LoopNext]_loopVars
    PROVE  KeypadInv' /\ key' \in Polled \cup {KEY_GOTO_DBG}
<1>0. KeypadInv /\ key \in Polled \cup {KEY_GOTO_DBG}
    BY Zenon DEF LoopInv, LoopTypeOK
<1>1. CASE ServeTick
    BY <1>0, <1>1, GetcKeepsKeypadInv, GetcPolled, Zenon DEF ServeTick
<1>2. CASE ConsoleAndExit
    <2>1. /\ key' \in {key, KEY_GOTO_DBG}
          /\ UNCHANGED <<down, KPKD, scanVars, historyVars>>
        BY <1>2, Zenon DEF ConsoleAndExit
    <2>2. key' \in {KEY_LONG_POWER, KEY_GOTO_MENU} => key' = key
        BY <2>1 DEF KEY_GOTO_DBG, KEY_LONG_POWER, KEY_GOTO_MENU
    <2>3. (ScanTypeOK /\ InTime /\ Remembered)'
        BY <1>0, <2>1, Zenon DEF KeypadInv, ScanTypeOK, InTime, Remembered, scanVars,
                          historyVars
    <2>4. (LongPressTakesTime /\ MenuWasSeen)'
        BY <1>0, <2>1, <2>2, Zenon DEF KeypadInv, LongPressTakesTime, MenuWasSeen,
                                historyVars
    <2> QED
        BY <1>0, <2>1, <2>3, <2>4, Zenon DEF KeypadInv
<1>3. CASE Closes \/ Latches
    <2>1. KeypadNext /\ key' = key
        BY <1>3, Zenon DEF Closes, Latches, KeypadNext, Touch, Depress
    <2> QED
        BY <1>0, <2>1, NextKeypadInv, Zenon
<1>4. CASE UNCHANGED keypadVars
    BY <1>0, <1>4, NextKeypadInv, Zenon DEF keypadVars
<1> QED
    BY <1>1, <1>2, <1>3, <1>4, Zenon
       DEF LoopNext, Main, KeypadUntouched, Startup, Table, TestTick, SysLoop,
           SystemInit, BatteryLoop, Measured, Interrupt, Gpt2Expires, loopVars

(* The start of the program and the table operations keep the types.       *)
LEMMA StartupKeepsTypes ==
    ASSUME LoopInv, Startup \/ Table
    PROVE  (TableTypes /\ Counts /\ pc \in PCs \cup LoopPCs)' /\ gpt_en' \in BOOLEAN
<1>0. /\ TableTypes /\ Counts /\ Running /\ gpt_en \in BOOLEAN
      /\ pc \in Requesting => call.num \in Internal
    BY CspiFacts DEF LoopInv, LoopTypeOK, TimerTypes, Running, BeforeInit, AfterInit
<1>1. UNCHANGED <<battery_loop, sys_loop, system_init>>
    BY Zenon DEF Startup, Table, countVars
<1>2. gpt_en' \in BOOLEAN
    BY <1>0, Zenon DEF Startup, Table, interrupt_init, enable_interrupts, gpt2_init,
                gpt2_request, irq_request, gpt2_enable, irq_chip_enable,
                set_irq_handler, restore, timerVars
<1>3. Running'
    BY <1>0, StartupKeepsRunning, Zenon
<1>4. irqs_on' \in BOOLEAN /\ irq_handler' \in [Internal -> Handlers \cup {NULL}]
    BY <1>3, Zenon DEF Running
<1>5. intenable' \subseteq Internal /\ pending' \subseteq Internal
    BY <1>0, Zenon DEF Startup, Table, interrupt_init, enable_interrupts, gpt2_init,
                gpt2_request, irq_request, gpt2_enable, irq_chip_enable,
                set_irq_handler, restore, tableVars, TableTypes, Requesting
<1>6. TableTypes'
    BY <1>4, <1>5, Zenon DEF TableTypes
<1>7. CASE Startup
    <2>1. /\ pc \notin {"sys", "init", "battery"} \cup Requesting
          /\ pc' \in PCs \cup {"tick"}
        BY <1>7, Zenon DEF Startup, interrupt_init, enable_interrupts, gpt2_init,
                    gpt2_request, irq_request, gpt2_enable, PCs, Requesting
    <2>2. battery_loop <= BATTERY_LOOPS /\ sys_loop <= SYS_LOOPS
        BY <1>0, <2>1, LoopAssumption DEF Counts
    <2> QED
        BY <1>0, <1>1, <1>2, <1>6, <2>1, <2>2, LoopAssumption, Zenon DEF Counts, LoopPCs
<1>8. CASE Table
    <2>1. pc \in Requesting
        BY <1>8, Zenon DEF Table, irq_chip_enable, set_irq_handler, restore, Requesting
    <2>2. \/ pc' \in Requesting
          \/ system_init = 0 /\ pc' = "gpt2_enable"
          \/ system_init = 1 /\ pc' = "battery"
        BY <1>0, <1>8, <2>1, Zenon DEF Table, irq_chip_enable, set_irq_handler, restore,
                                Requesting, Running, BeforeInit, AfterInit
    <2>3. sys_loop <= SYS_LOOPS
        BY <1>0, <2>1, LoopAssumption DEF Counts, Requesting
    <2>4. battery_loop > BATTERY_LOOPS => system_init = 1
        BY <1>0, <2>1, Zenon DEF Counts, Requesting
    <2>5. Counts'
        BY <1>0, <1>1, <2>2, <2>3, <2>4, LoopAssumption DEF Counts
    <2> QED
        BY <1>2, <1>6, <2>2, <2>5, Zenon DEF PCs, LoopPCs, Requesting
<1> QED
    BY <1>7, <1>8, Zenon

(* One pass of the loop keeps the types.                                   *)
LEMMA PassKeepsTypes ==
    ASSUME LoopInv,
           \/ TestTick \/ ServeTick \/ SysLoop \/ SystemInit
           \/ BatteryLoop \/ Measured \/ ConsoleAndExit
    PROVE  (TableTypes /\ Counts /\ pc \in PCs \cup LoopPCs)' /\ gpt_en' \in BOOLEAN
<1>0. /\ TableTypes /\ Counts /\ Running /\ gpt_en \in BOOLEAN
    BY Zenon DEF LoopInv, LoopTypeOK, TimerTypes
<1>1. Running'
    BY <1>0, PassKeepsRunning, Zenon
<1>2. irqs_on' \in BOOLEAN /\ irq_handler' \in [Internal -> Handlers \cup {NULL}]
    BY <1>1, Zenon DEF Running
<1>3. UNCHANGED <<intenable, pending, gpt_en>>
    BY Zenon DEF TestTick, ServeTick, SysLoop, SystemInit, BatteryLoop, Measured,
           ConsoleAndExit, Goto, tableVars, timerVars, irq_request
<1>4. TableTypes' /\ gpt_en' \in BOOLEAN
    BY <1>0, <1>2, <1>3, Zenon DEF TableTypes
<1>5. /\ battery_loop \in 0 .. BATTERY_LOOPS + 1 /\ BATTERY_LOOPS \in Nat
      /\ sys_loop \in 0 .. SYS_LOOPS + 1 /\ SYS_LOOPS \in Nat
    BY <1>0, LoopAssumption, Zenon DEF Counts
<1>6. CASE ServeTick
    <2>1. pc = "clear" /\ pc' = "sys"
        BY <1>6, Zenon DEF ServeTick, Goto
    <2>2. battery_loop <= BATTERY_LOOPS /\ sys_loop <= SYS_LOOPS
        BY <1>0, <1>5, <2>1 DEF Counts, Requesting
    <2>3. battery_loop' = battery_loop + 1 /\ sys_loop' = sys_loop + 1
        BY <1>6, Zenon DEF ServeTick
    <2>4. Counts'
        BY <1>5, <2>1, <2>2, <2>3 DEF Counts
    <2> QED
        BY <1>4, <2>1, <2>4, Zenon DEF LoopPCs
<1>7. CASE SysLoop
    <2>1. pc = "sys" /\ pc' = "init" /\ UNCHANGED battery_loop
        BY <1>7, Zenon DEF SysLoop, Goto
    <2>2. sys_loop' \in 0 .. SYS_LOOPS
        BY <1>5, <1>7 DEF SysLoop
    <2>3. Counts'
        BY <1>5, <2>1, <2>2 DEF Counts
    <2> QED
        BY <1>4, <2>1, <2>3, Zenon DEF LoopPCs
<1>8. CASE SystemInit
    <2>1. /\ pc = "init" /\ UNCHANGED <<battery_loop, sys_loop>>
          /\ pc' = "battery" \/ (pc' \in Requesting /\ system_init' = 1)
        BY <1>8, CspiFacts, Zenon DEF SystemInit, Goto, countVars, irq_request, Requesting
    <2>2. sys_loop <= SYS_LOOPS
        BY <1>0, <1>5, <2>1 DEF Counts
    <2>3. Counts'
        BY <1>5, <2>1, <2>2 DEF Counts
    <2> QED
        BY <1>4, <2>1, <2>3, Zenon DEF LoopPCs, PCs, Requesting
<1>9. CASE BatteryLoop
    <2>1. pc = "battery" /\ pc' \in {"measure", "console"} /\ UNCHANGED sys_loop
        BY <1>9, Zenon DEF BatteryLoop, Goto
    <2>2. battery_loop' \in 0 .. BATTERY_LOOPS
        BY <1>5, <1>9 DEF BatteryLoop
    <2>3. sys_loop <= SYS_LOOPS
        BY <1>0, <1>5, <2>1 DEF Counts
    <2>4. Counts'
        BY <1>5, <2>1, <2>2, <2>3 DEF Counts
    <2> QED
        BY <1>4, <2>1, <2>4, Zenon DEF LoopPCs
<1>10. CASE TestTick \/ Measured \/ ConsoleAndExit
    <2>1. /\ pc \in {"tick", "measure", "console"} /\ pc' \in LoopPCs
          /\ UNCHANGED <<battery_loop, sys_loop>>
        BY <1>10, Zenon DEF TestTick, Measured, ConsoleAndExit, Goto, countVars, LoopPCs
    <2>2. battery_loop <= BATTERY_LOOPS /\ sys_loop <= SYS_LOOPS
        BY <1>0, <1>5, <2>1 DEF Counts, Requesting
    <2>3. Counts'
        BY <1>5, <2>1, <2>2 DEF Counts
    <2> QED
        BY <1>4, <2>1, <2>3, Zenon
<1> QED
    BY <1>6, <1>7, <1>8, <1>9, <1>10, Zenon

(* The backlight is on or off, whatever happens.                           *)
LEMMA BacklightType ==
    ASSUME LoopInv, [LoopNext]_loopVars
    PROVE  backlight' \in {0, 255} /\ system_init' \in {0, 1}
<1>1. backlight \in {0, 255} /\ system_init \in {0, 1}
    BY Zenon DEF LoopInv, LoopTypeOK
<1>2. UNCHANGED backlight \/ backlight' \in {0, 255}
    BY Zenon DEF LoopNext, Main, Startup, Table, TestTick, ServeTick, SysLoop, SystemInit,
           BatteryLoop, Measured, ConsoleAndExit, Interrupt, Gpt2Expires, Closes,
           Latches, loopVars
<1>3. UNCHANGED system_init \/ system_init' = 1
    BY Zenon DEF LoopNext, Main, Startup, Table, TestTick, ServeTick, SysLoop, SystemInit,
           BatteryLoop, Measured, ConsoleAndExit, Interrupt, Gpt2Expires, Closes,
           Latches, loopVars
<1> QED
    BY <1>1, <1>2, <1>3

(* The whole invariant of the loop.                                        *)
LEMMA AlwaysLoopTypes == LoopSpec => []LoopInv
<1>1. LoopInit => LoopInv
    <2> SUFFICES ASSUME LoopInit PROVE LoopInv
        OBVIOUS
    <2>1. Ticks /\ Running
        BY InitLoop, Zenon
    <2>2. KeypadInv /\ KeypadInit
        BY InitKeypadInv, Zenon DEF LoopInit
    <2>3. key \in Polled
        BY <2>2, SizeFacts DEF KeypadInit, Polled, N
    <2>4. Counts
        BY LoopAssumption DEF LoopInit, Counts
    <2>5. TableTypes
        BY <2>1, Zenon DEF LoopInit, Init, TableTypes, Running
    <2>6. gpt_en \in BOOLEAN
        BY Zenon DEF LoopInit, Init
    <2>7. TimerTypes
        BY <2>1, <2>6, Zenon DEF TimerTypes, Ticks
    <2>8. pc \in PCs /\ system_init = 0 /\ backlight = 0
        BY Zenon DEF LoopInit, Init, PCs
    <2>9. LoopTypeOK
        BY <2>2, <2>3, <2>4, <2>5, <2>7, <2>8, Zenon DEF LoopTypeOK, Counts, KeypadInv
    <2> QED
        BY <2>1, <2>2, <2>4, <2>9, Zenon DEF LoopInv
<1>2. LoopInv /\ [LoopNext]_loopVars => LoopInv'
    <2> SUFFICES ASSUME LoopInv, [LoopNext]_loopVars PROVE LoopInv'
        OBVIOUS
    <2>0. TableTypes /\ TimerTypes /\ Counts /\ pc \in PCs \cup LoopPCs
        BY Zenon DEF LoopInv, LoopTypeOK
    <2>1. Ticks' /\ Running'
        BY NextLoop, Zenon DEF LoopInv
    <2>2. (TableTypes /\ Counts /\ pc \in PCs \cup LoopPCs)' /\ gpt_en' \in BOOLEAN
        <3>1. CASE Interrupt
            <4>1. UNCHANGED <<irqs_on, intenable, irq_handler, pc, countVars, system_init>>
                BY <3>1, Zenon DEF Interrupt, do_irq
            <4>2. pending' \subseteq pending
                BY <3>1, Zenon DEF Interrupt, do_irq, run_irq_handler
            <4>3. gpt_en' \in BOOLEAN
                BY <2>0, <3>1, Zenon DEF Interrupt, do_irq, run_irq_handler, TimerTypes,
                                  gpt2_irq_handler, timerVars
            <4> QED
                BY <2>0, <4>1, <4>2, <4>3, Zenon DEF TableTypes, Counts, countVars
        <3>2. CASE Gpt2Expires
            <4>1. /\ UNCHANGED <<irqs_on, intenable, irq_handler, pc, gpt_en, countVars,
                                 system_init>>
                  /\ pending' = pending \cup {Gpt2}
                BY <3>2, Zenon DEF Gpt2Expires, Assert, timerVars
            <4> QED
                BY <2>0, <4>1, CspiFacts, Zenon DEF TableTypes, TimerTypes, Counts, countVars
        <3>3. CASE UNCHANGED <<vars, countVars, system_init>>
            BY <2>0, <3>3, Zenon DEF vars, tableVars, timerVars, TableTypes, TimerTypes,
                              Counts, countVars
        <3> QED
            BY <3>1, <3>2, <3>3, StartupKeepsTypes, PassKeepsTypes, Zenon
               DEF LoopNext, Main, Closes, Latches, loopVars
    <2>3. TimerTypes'
        BY <2>1, <2>2, Zenon DEF TimerTypes, Ticks
    <2>4. LoopTypeOK'
        BY <2>2, <2>3, LoopKeepsKeypad, BacklightType, Zenon
           DEF LoopTypeOK, Counts, KeypadInv
    <2> QED
        BY <2>1, <2>2, <2>4, LoopKeepsKeypad, Zenon DEF LoopInv
<1> QED
    BY <1>1, <1>2, PTL DEF LoopSpec

(* LoopTypeOK for every constant: neither counter of the loop runs away,   *)
(* whichever ticks the handler raises between its test and its reset.      *)
THEOREM LoopTypeCorrect == LoopSpec => []LoopTypeOK
<1>1. LoopInv => LoopTypeOK
    BY Zenon DEF LoopInv
<1> QED
    BY <1>1, AlwaysLoopTypes, PTL

(* The keypad keeps its promises inside the loop, where the console writes *)
(* key too, polls come only with ticks, and ticks can be lost: the loop    *)
(* ends for recovery only if every cell of MENU was seen and the press     *)
(* lasted.                                                                 *)
THEOREM LoopRecoveryNeedsMenu == LoopSpec => [](LongPressTakesTime /\ MenuWasSeen)
<1>1. LoopInv => LongPressTakesTime /\ MenuWasSeen
    BY Zenon DEF LoopInv, KeypadInv
<1> QED
    BY <1>1, AlwaysLoopTypes, PTL
=============================================================================
