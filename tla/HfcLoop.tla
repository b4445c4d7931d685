-------------------------------- MODULE HfcLoop --------------------------------
(***************************************************************************)
(* The main loop of the board (board_init_r in arch/arm/lib/board.c)       *)
(* composed with the interrupt table and GPT2 (HfcIrq) and with the keypad *)
(* (HfcKeypad).  GPT2's handler sets time_tick; the loop tests it, clears  *)
(* it and polls the keypad.  The handler can run between any two steps of  *)
(* the loop, and between the test and the clearing of time_tick.           *)
(*                                                                         *)
(* hfc_battery_manager is here what the loop sees of it: a call that lasts *)
(* (get_bat_voltage busy-waits 220 ms) while interrupts go on.  What it    *)
(* measures and draws is in HfcBattery and HfcSpi; none of it comes back   *)
(* to the loop.                                                            *)
(***************************************************************************)
EXTENDS HfcIrq, HfcKeypad

CONSTANTS
    Cspi,            \* MXC_INT_CSPI1
    mxc_spi_isr,     \* its handler
    BATTERY_LOOPS,   \* battery_loop > 10
    SYS_LOOPS,       \* sys_loop > 25
    Console,         \* TRUE: an ESC may come from the console
    MaxCredit        \* bound of the history variable credit

ASSUME LoopAssumption ==
    /\ Cspi \in Internal \ {Gpt1, Gpt2} /\ mxc_spi_isr \in Drivers
    /\ BATTERY_LOOPS \in Nat /\ SYS_LOOPS \in Nat
    /\ MaxCredit \in Nat \ {0} /\ Console \in BOOLEAN

KEY_GOTO_DBG == 231

VARIABLES
    battery_loop, sys_loop, system_init,
    backlight,       \* the level last given to tft_backlight_brightness
    credit           \* history: ticks the handler raised and the loop has
                     \* not served, at most MaxCredit of them

countVars == <<battery_loop, sys_loop>>
loopVars == <<vars, keypadVars, countVars, system_init, backlight, credit>>

Goto(label) == pc' = label /\ UNCHANGED <<tableVars, call>>
KeypadUntouched == UNCHANGED keypadVars

-------------------------------------------------------------------------------
(* Up to the loop: interrupt_init, enable_interrupts, gpt2_init and        *)
(* mxc_kpp_init, whose keypad state is KeypadInit's.                       *)

Startup ==
    /\ \/ interrupt_init
       \/ enable_interrupts
       \/ pc = "idle" /\ gpt2_init("gpt2_request")
       \/ gpt2_request
       \/ gpt2_enable("tick")
    /\ KeypadUntouched
    /\ UNCHANGED <<countVars, system_init, backlight, credit>>

(* The table operations started by gpt2_init and tft_fw_init.              *)
Table ==
    /\ irq_chip_enable \/ set_irq_handler \/ restore
    /\ KeypadUntouched
    /\ UNCHANGED <<countVars, system_init, backlight, credit>>

-------------------------------------------------------------------------------
(* One pass of the loop.                                                   *)

(* if(1 == time_tick)                                                      *)
TestTick ==
    /\ pc = "tick"
    /\ Goto(IF time_tick = 1 THEN "clear" ELSE "sys")
    /\ KeypadUntouched
    /\ UNCHANGED <<timerVars, countVars, system_init, backlight, credit>>

(* The mutant that forgets to clear time_tick.                             *)
ServeTickKept ==
    /\ pc = "clear"
    /\ battery_loop' = battery_loop + 1 /\ sys_loop' = sys_loop + 1
    /\ mxc_kpp_getc
    /\ credit' = credit - 1
    /\ Goto("sys")
    /\ UNCHANGED <<timerVars, system_init, backlight>>

(* time_tick = 0, the two counters and the keypad.  A tick raised since    *)
(* the test is lost.                                                       *)
ServeTick ==
    /\ pc = "clear"
    /\ time_tick' = 0
    /\ battery_loop' = battery_loop + 1 /\ sys_loop' = sys_loop + 1
    /\ mxc_kpp_getc
    /\ credit' = credit - 1
    /\ Goto("sys")
    /\ UNCHANGED <<gpt_en, timer_base, system_init, backlight>>

(* if(sys_loop > 25): the backlight goes (back) on.                        *)
SysLoop ==
    /\ pc = "sys"
    /\ IF sys_loop > SYS_LOOPS
       THEN sys_loop' = 0 /\ backlight' = 255
       ELSE UNCHANGED <<sys_loop, backlight>>
    /\ Goto("init")
    /\ KeypadUntouched
    /\ UNCHANGED <<timerVars, battery_loop, system_init, credit>>

(* The mutant that leaves the SPI probe out.                               *)
SystemInitNoProbe ==
    /\ pc = "init"
    /\ system_init' = 1
    /\ Goto("battery")
    /\ KeypadUntouched
    /\ UNCHANGED <<timerVars, backlight, countVars, credit>>

(* The first pass brings the display and its SPI controller up, which      *)
(* takes a line of the interrupt table.                                    *)
SystemInit ==
    /\ pc = "init"
    /\ \/ /\ system_init = 0
          /\ system_init' = 1
          /\ backlight' = 0
          /\ irq_request(Cspi, mxc_spi_isr, "battery")
       \/ /\ system_init = 1
          /\ Goto("battery")
          /\ UNCHANGED <<timerVars, system_init, backlight>>
    /\ KeypadUntouched
    /\ UNCHANGED <<countVars, credit>>

(* The mutant that does not start the count again.                         *)
BatteryLoopOn ==
    /\ pc = "battery"
    /\ IF battery_loop > BATTERY_LOOPS THEN Goto("measure") ELSE Goto("console")
    /\ KeypadUntouched
    /\ UNCHANGED <<timerVars, countVars, system_init, backlight, credit>>

BatteryLoop ==
    /\ pc = "battery"
    /\ IF battery_loop > BATTERY_LOOPS
       THEN battery_loop' = 0 /\ Goto("measure")
       ELSE UNCHANGED battery_loop /\ Goto("console")
    /\ KeypadUntouched
    /\ UNCHANGED <<timerVars, sys_loop, system_init, backlight, credit>>

(* hfc_battery_manager returns.                                            *)
Measured ==
    /\ pc = "measure"
    /\ Goto("console")
    /\ KeypadUntouched
    /\ UNCHANGED <<timerVars, countVars, system_init, backlight, credit>>

(* The mutant that leaves the loop for the debugger only.                  *)
ConsoleAndExitDebug ==
    /\ pc = "console"
    /\ key' \in {key} \cup (IF Console THEN {KEY_GOTO_DBG} ELSE {})
    /\ Goto(IF key' = KEY_GOTO_DBG THEN "prompt" ELSE "tick")
    /\ UNCHANGED <<down, KPKD, scanVars, historyVars>>
    /\ UNCHANGED <<timerVars, countVars, system_init, backlight, credit>>

(* An ESC replaces the key the keypad gave; then the loop ends on the two  *)
(* keys that leave it.  key keeps its value over passes without a tick.    *)
ConsoleAndExit ==
    /\ pc = "console"
    /\ key' \in {key} \cup (IF Console THEN {KEY_GOTO_DBG} ELSE {})
    /\ Goto(IF key' \in {KEY_GOTO_DBG, KEY_GOTO_MENU} THEN "prompt" ELSE "tick")
    /\ UNCHANGED <<down, KPKD, scanVars, historyVars>>
    /\ UNCHANGED <<timerVars, countVars, system_init, backlight, credit>>

-------------------------------------------------------------------------------
(* The other actors: the interrupt handlers, the devices and the user.     *)

Interrupt ==
    /\ do_irq
    /\ credit' = IF timer_base' = 0 /\ timer_base = TICK /\ credit < MaxCredit
                 THEN credit + 1 ELSE credit
    /\ KeypadUntouched
    /\ UNCHANGED <<countVars, system_init, backlight>>

(* GPT2 is the only device that interrupts: mxc_spi_probe clears CSPIINT.  *)
Gpt2Expires ==
    /\ Assert(Gpt2)
    /\ KeypadUntouched
    /\ UNCHANGED <<countVars, system_init, backlight, credit>>

Closes ==
    /\ \E cells \in Presses : Touch(cells)
    /\ UNCHANGED <<vars, countVars, system_init, backlight, credit>>

Latches ==
    /\ Depress
    /\ UNCHANGED <<vars, countVars, system_init, backlight, credit>>

-------------------------------------------------------------------------------

LoopInit ==
    /\ Init /\ KeypadInit
    /\ battery_loop = 0 /\ sys_loop = 0 /\ system_init = 0
    /\ backlight = 0 /\ credit = 0

Main ==
    \/ Startup \/ Table
    \/ TestTick \/ ServeTick \/ SysLoop \/ SystemInit
    \/ BatteryLoop \/ Measured \/ ConsoleAndExit

LoopNext ==
    \/ Main \/ Interrupt \/ Gpt2Expires \/ Closes \/ Latches

LoopSpec == LoopInit /\ [][LoopNext]_loopVars

(* The CPU executes the main program whenever no interrupt keeps it busy,  *)
(* takes a pending interrupt, GPT2 keeps counting while enabled, and a key *)
(* held down is latched.  Nothing is assumed of the user.                  *)
LoopFairness ==
    /\ WF_loopVars(Main) /\ WF_loopVars(Interrupt)
    /\ WF_loopVars(Gpt2Expires) /\ WF_loopVars(Latches)

LoopFairSpec == LoopSpec /\ LoopFairness

-------------------------------------------------------------------------------

LoopPCs == {"tick", "clear", "sys", "init", "battery", "measure", "console",
            "prompt"}

(* Every variable has its type: the two counters of the loop never pass    *)
(* the limit they are compared with by more than one, the count of a long  *)
(* press stays at its own, and key holds what a poll or an ESC put there.  *)
LoopTypeOK ==
    /\ TableTypes /\ TimerTypes /\ ScanTypeOK
    /\ key \in Polled \cup {KEY_GOTO_DBG}
    /\ pc \in PCs \cup LoopPCs
    /\ battery_loop \in 0 .. BATTERY_LOOPS + 1
    /\ sys_loop \in 0 .. SYS_LOOPS + 1
    /\ system_init \in {0, 1} /\ backlight \in {0, 255}

(* The loop serves no tick twice and none that did not happen: it has      *)
(* never served more ticks than GPT2's handler raised, and a raised flag   *)
(* stands for a tick it has not served (time_tick shared between the       *)
(* handler and the loop).                                                  *)
ServedTicksHappened ==
    credit >= (IF time_tick = 1 \/ pc = "clear" THEN 1 ELSE 0)

(* The battery is measured only when the display and the SPI controller,   *)
(* through which the measurement is routed, are up and SPI has its         *)
(* interrupt handler, although the counter that starts the measurement and *)
(* the flag that starts the initialisation know nothing of each other.     *)
MeasuredAfterInit ==
    pc = "measure" =>
        system_init = 1 /\ irq_handler[Cspi] = mxc_spi_isr /\ irqs_on

(* The battery is measured again and again until the loop is left: ticks   *)
(* can be lost, between the test and the clearing of time_tick and during  *)
(* the measurement itself, but never all of them.                          *)
BatteryServed == []<>(pc = "measure") \/ <>(pc = "prompt")

(* Once a poll has seen all keys released, a user who touches MENU only    *)
(* and in the end holds it leaves the loop, whatever was pressed before    *)
(* and however many ticks are lost: the polls of a long press need not be  *)
(* one per tick (mxc_kpp_getc called from the loop, board_init_r).         *)
HeldMenuLeavesLoop ==
    [](Released /\ [](down \subseteq MenuCells) /\ <>[](down = MenuCells)
         => <>(pc = "prompt"))

===============================================================================
