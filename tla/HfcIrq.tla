-------------------------------- MODULE HfcIrq --------------------------------
(***************************************************************************)
(* The interrupt table of the board (arch/arm/lib/interrupts.c) and its    *)
(* best customer, the GPT2 timer that drives the main loop                 *)
(* (hfc_app/hfc_irq/hfc_irq.c).                                            *)
(*                                                                         *)
(* Two actors share the state.  The main program boots, registers and      *)
(* frees handlers; it is cut into the steps between which an interrupt can *)
(* be taken.  The CPU takes an interrupt when the I bit of the CPSR is     *)
(* clear and an enabled line is pending.  do_irq runs with the I bit set,  *)
(* so a handler runs to its end: Irq is one step.                          *)
(*                                                                         *)
(* The name and the IRQ_FLAG_INUSE bit of a table entry are always written *)
(* together with the handler, so an entry is just its handler.             *)
(***************************************************************************)
EXTENDS Integers, FiniteSets

CONSTANTS
    Internal,      \* the lines of the AVIC, 0 .. MXC_INTERNAL_IRQS - 1
    Gpio,          \* the GPIO interrupt numbers above them
    Beyond,        \* the numbers past MXC_INTERNAL_IRQS + MAX_GPIO_PIN_NUM
    Gpt1, Gpt2,    \* MXC_INT_GPT1, the system timer, and MXC_INT_GPT2
    Drivers,       \* handlers other than gpt2_irq_handler
    NULL,          \* no handler
    TICK           \* timer_base wraps when it exceeds this (10)

ASSUME LineAssumption ==
    /\ Gpt1 \in Internal /\ Gpt2 \in Internal /\ Gpt1 # Gpt2
    /\ Internal \cap (Gpio \cup Beyond) = {}

ASSUME HandlerAssumption == NULL \notin Drivers \cup {"gpt2"}

ASSUME TickAssumption == TICK \in Nat

VARIABLES
    irqs_on,       \* the I bit of the CPSR is clear: interrupts are taken
    intenable,     \* the lines enabled in AVIC_INTENABLEH/L
    irq_handler,   \* def_irq_handler[].irq_handler
    pending,       \* the lines whose device asserts its interrupt
    gpt_en,        \* bit 0 (EN) of GPT2's GPTCR
    timer_base,
    time_tick,
    pc,            \* where the main program is
    call           \* the locals of the irq_request(_free) being executed

tableVars == <<irqs_on, intenable, irq_handler, pending>>
timerVars == <<gpt_en, timer_base, time_tick>>
vars == <<tableVars, timerVars, pc, call>>

Handlers == Drivers \cup {"gpt2"}
NoCall == [num |-> Gpt2, func |-> NULL, flag |-> FALSE, back |-> "idle"]

-------------------------------------------------------------------------------
(* Boot.                                                                   *)

(* interrupt_init: disable_all_interrupts, then init_irq_default_handler   *)
(* and the AVIC reset.  The CPSR still masks interrupts.                   *)
interrupt_init ==
    /\ pc = "boot"
    /\ irqs_on' = FALSE
    /\ intenable' = {}
    /\ irq_handler' = [n \in Internal |-> NULL]
    /\ pc' = "enable"
    /\ UNCHANGED <<pending, timerVars, call>>

enable_interrupts ==
    /\ pc = "enable"
    /\ irqs_on' = TRUE
    /\ pc' = "idle"
    /\ UNCHANGED <<intenable, irq_handler, pending, timerVars, call>>

-------------------------------------------------------------------------------
(* irq_request and irq_request_free.  "back" is where the caller goes on.  *)

(* The mutant that forgets disable_interrupts.                             *)
irq_request_unmasked(n, f, back) ==
    \/ /\ n \in {Gpt1} \cup Beyond
       /\ pc' = back
       /\ UNCHANGED <<tableVars, timerVars, call>>
    \/ /\ n \notin {Gpt1} \cup Beyond
       /\ call' = [num |-> n, func |-> f, flag |-> irqs_on, back |-> back]
       /\ pc' = IF n \in Internal THEN "irq_chip_enable" ELSE "restore"
       /\ UNCHANGED <<tableVars, timerVars>>

(* GPT1 belongs to the system clock: it and the numbers out of range are   *)
(* refused with nothing changed.                                           *)
irq_request(n, f, back) ==
    \/ /\ n \in {Gpt1} \cup Beyond
       /\ pc' = back
       /\ UNCHANGED <<tableVars, timerVars, call>>
    \/ /\ n \notin {Gpt1} \cup Beyond
       /\ irqs_on' = FALSE
       /\ call' = [num |-> n, func |-> f, flag |-> irqs_on, back |-> back]
       /\ pc' = IF n \in Internal THEN "irq_chip_enable" ELSE "restore"
       /\ UNCHANGED <<intenable, irq_handler, pending, timerVars>>

irq_chip_enable ==
    /\ pc = "irq_chip_enable"
    /\ intenable' = intenable \cup {call.num}
    /\ pc' = "set_irq_handler"
    /\ UNCHANGED <<irqs_on, irq_handler, pending, timerVars, call>>

(* The mutant in which a request that fails undoes its irq_chip_enable.    *)
set_irq_handler_undo ==
    /\ pc = "set_irq_handler"
    /\ IF irq_handler[call.num] # NULL
       THEN intenable' = intenable \ {call.num} /\ UNCHANGED irq_handler
       ELSE /\ irq_handler' = [irq_handler EXCEPT ![call.num] = call.func]
            /\ UNCHANGED intenable
    /\ pc' = "restore"
    /\ UNCHANGED <<irqs_on, pending, timerVars, call>>

(* An entry in use is kept, and the caller gets -1; the line stays enabled.*)
set_irq_handler ==
    /\ pc = "set_irq_handler"
    /\ irq_handler' =
         IF irq_handler[call.num] # NULL THEN irq_handler
         ELSE [irq_handler EXCEPT ![call.num] = call.func]
    /\ pc' = "restore"
    /\ UNCHANGED <<irqs_on, intenable, pending, timerVars, call>>

irq_request_free(n, back) ==
    \/ /\ n \in Beyond
       /\ pc' = back
       /\ UNCHANGED <<tableVars, timerVars, call>>
    \/ /\ n \notin Beyond
       /\ irqs_on' = FALSE
       /\ call' = [num |-> n, func |-> NULL, flag |-> irqs_on, back |-> back]
       /\ pc' = IF n \in Internal THEN "irq_chip_disable" ELSE "restore"
       /\ UNCHANGED <<intenable, irq_handler, pending, timerVars>>

irq_chip_disable ==
    /\ pc = "irq_chip_disable"
    /\ intenable' = intenable \ {call.num}
    /\ pc' = "clr_irq_handler"
    /\ UNCHANGED <<irqs_on, irq_handler, pending, timerVars, call>>

clr_irq_handler ==
    /\ pc = "clr_irq_handler"
    /\ irq_handler' = [irq_handler EXCEPT ![call.num] = NULL]
    /\ pc' = "restore"
    /\ UNCHANGED <<irqs_on, intenable, pending, timerVars, call>>

(* The end of both: interrupts go on again only if they were on at entry.  *)
restore ==
    /\ pc = "restore"
    /\ irqs_on' = (irqs_on \/ call.flag)
    /\ pc' = call.back
    /\ call' = NoCall
    /\ UNCHANGED <<intenable, irq_handler, pending, timerVars>>

-------------------------------------------------------------------------------
(* GPT2.                                                                   *)

(* gpt2_init writes the registers, leaving the timer stopped, ...          *)
gpt2_init(back) ==
    /\ gpt_en' = FALSE
    /\ pc' = back
    /\ UNCHANGED <<tableVars, timer_base, time_tick, call>>

(* ... requests its line, ...                                              *)
gpt2_request ==
    /\ pc = "gpt2_request"
    /\ irq_request(Gpt2, "gpt2", "gpt2_enable")

(* ... and starts the timer whether or not the request succeeded.          *)
gpt2_enable(back) ==
    /\ pc = "gpt2_enable"
    /\ gpt_en' = TRUE
    /\ pc' = back
    /\ UNCHANGED <<tableVars, timer_base, time_tick, call>>

(* gpt2_finished clears bit 0 of the prescaler GPTPR, which leaves the     *)
(* enable bit in GPTCR as it is, and frees the line.                       *)
gpt2_finished(back) == irq_request_free(Gpt2, back)

(* The mutant that tests for the wrap after it has passed.                 *)
gpt2_irq_handler_late ==
    /\ gpt_en' = TRUE
    /\ IF timer_base > TICK
       THEN timer_base' = 0 /\ time_tick' = 1
       ELSE timer_base' = timer_base + 1 /\ UNCHANGED time_tick

(* The mutant that leaves the timer stopped.                               *)
gpt2_irq_handler_off ==
    /\ gpt_en' = FALSE
    /\ IF timer_base + 1 > TICK
       THEN timer_base' = 0 /\ time_tick' = 1
       ELSE timer_base' = timer_base + 1 /\ UNCHANGED time_tick

(* gpt2_irq_handler stops the timer, clears its status, counts, and starts *)
(* the timer again.                                                        *)
gpt2_irq_handler ==
    /\ gpt_en' = TRUE
    /\ IF timer_base + 1 > TICK
       THEN timer_base' = 0 /\ time_tick' = 1
       ELSE timer_base' = timer_base + 1 /\ UNCHANGED time_tick

(* do_irq -> irq_handler_server -> run_irq_handler, on some pending line.  *)
(* Every handler silences its device; a line without a handler is not      *)
(* silenced: the interrupt is taken again as soon as the CPU returns.      *)
run_irq_handler(n) ==
    /\ pending' = IF irq_handler[n] = NULL THEN pending ELSE pending \ {n}
    /\ IF irq_handler[n] = "gpt2" THEN gpt2_irq_handler ELSE UNCHANGED timerVars

Taken == IF irqs_on THEN pending \cap intenable ELSE {}

do_irq ==
    /\ \E n \in Taken : run_irq_handler(n)
    /\ UNCHANGED <<irqs_on, intenable, irq_handler, pc, call>>

(* A device asserts its line; GPT2 does so only while it runs.             *)
Assert(n) ==
    /\ n \notin pending
    /\ n = Gpt2 => gpt_en
    /\ pending' = pending \cup {n}
    /\ UNCHANGED <<irqs_on, intenable, irq_handler, timerVars, pc, call>>

-------------------------------------------------------------------------------
(* The prompt: main_loop runs commands one after the other.  gpt2_init and *)
(* gpt2_finished are irqtest timeron and timeroff (gpt2_init runs at boot  *)
(* too); the drivers call irq_request and irq_request_free for lines of    *)
(* their own.                                                              *)

Init ==
    /\ irqs_on = FALSE
    /\ intenable \in SUBSET Internal
    /\ irq_handler = [n \in Internal |-> NULL]
    /\ pending \in SUBSET (Internal \ {Gpt2})
    /\ gpt_en = FALSE /\ timer_base = 0 /\ time_tick = 0
    /\ pc = "boot" /\ call = NoCall

Numbers == (Internal \cup Gpio \cup Beyond) \ {Gpt2}

Command ==
    /\ pc = "idle"
    /\ \/ \E n \in Numbers, f \in Drivers : irq_request(n, f, "idle")
       \/ \E n \in Numbers : irq_request_free(n, "idle")
       \/ gpt2_init("gpt2_request")
       \/ gpt2_finished("idle")

TableStep ==
    \/ irq_chip_enable \/ set_irq_handler
    \/ irq_chip_disable \/ clr_irq_handler \/ restore

Next ==
    \/ interrupt_init \/ enable_interrupts
    \/ Command \/ TableStep
    \/ gpt2_request \/ gpt2_enable("idle")
    \/ do_irq
    \/ \E n \in Internal : Assert(n)

Spec == Init /\ [][Next]_vars

-------------------------------------------------------------------------------

PCs == {"boot", "enable", "idle", "irq_chip_enable", "set_irq_handler",
        "irq_chip_disable", "clr_irq_handler", "restore",
        "gpt2_request", "gpt2_enable"}

TableTypes ==
    /\ irqs_on \in BOOLEAN
    /\ intenable \in SUBSET Internal
    /\ irq_handler \in [Internal -> Handlers \cup {NULL}]
    /\ pending \in SUBSET Internal

TimerTypes == gpt_en \in BOOLEAN /\ timer_base \in 0 .. TICK /\ time_tick \in {0, 1}

CallTypes ==
    call \in [num : Internal \cup Gpio, func : Handlers \cup {NULL},
             flag : BOOLEAN, back : {"idle", "gpt2_enable"}]

(* Every variable has its type; timer_base stays within its wrap, and a    *)
(* table operation on its way names a line the code accepts.               *)
TypeOK == TableTypes /\ TimerTypes /\ CallTypes /\ pc \in PCs

(* Whenever interrupts can be taken, every enabled line has a handler: no  *)
(* interrupt is taken that nobody silences, although irq_request enables   *)
(* the line before it stores the handler and an interrupt can come between *)
(* any two steps (interrupts.c, irq_request and irq_request_free).         *)
EnabledHasHandler ==
    irqs_on => \A n \in intenable : irq_handler[n] # NULL

(* Outside the table operations the main program runs with interrupts on:  *)
(* no path through irq_request or irq_request_free, failed requests        *)
(* included, leaves them off, which would stop the timer tick for good.    *)
RunsUnmasked == pc \in {"idle", "gpt2_request", "gpt2_enable"} => irqs_on

(* Whenever interrupts can be taken, the line of every handler in the      *)
(* table is enabled: a driver that holds a line goes on being served when  *)
(* another one asks for the same line and is refused half-way, after the   *)
(* line was enabled once more (irq_request), and a free that takes the     *)
(* line away takes the handler with it (irq_request_free).                 *)
OwnerServed ==
    irqs_on => \A n \in Internal : irq_handler[n] # NULL => n \in intenable

===============================================================================
