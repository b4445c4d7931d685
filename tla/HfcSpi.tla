--------------------------------- MODULE HfcSpi --------------------------------
(***************************************************************************)
(* The SPI bus of the board and what hangs on it.  One device structure,   *)
(* spi0_dev (hfc_app/hfc_spi/hfc_spi.c), serves two chips: the TFT panel   *)
(* on chip select 0 with 9-bit words and the HC595 shift register on chip  *)
(* select 2 with 32-bit words.  Whoever used it last has set it up.  The   *)
(* outputs of the HC595 route the battery, the RTC cell or the external    *)
(* supply to the ADC through the HC4051 multiplexer                        *)
(* (hfc_app/hfc_gpio/hfc_gpio.c, hfc_app/hfc_misc/hfc_misc.c).             *)
(*                                                                         *)
(* Everything here runs in the main program, one call after the other; the *)
(* polled transfers do not use the interrupt.  A set of bit numbers stands *)
(* for the word with these bits set.  The state of the board is one        *)
(* record, and the functions the calls are made of map it to its next      *)
(* value:                                                                  *)
(*   master        spi0_dev.master is not NULL                             *)
(*   chip_select, bits_per_word   of spi0_dev                              *)
(*   hc595_state   the copy of the outputs the program keeps               *)
(*   measure       the pin of the battery's measuring switch               *)
(* and of the hardware:                                                    *)
(*   shift         the shift register of the HC595                         *)
(*   shifted       whose word was shifted in last, or "none"               *)
(*   outputs       what the latch of the HC595 drives                      *)
(*   panel         whose words the panel has heard since its last reset    *)
(*   sent          (history) the last copy that reached the HC595          *)
(***************************************************************************)
EXTENDS Integers, FiniteSets

CONSTANTS
    Outputs,        \* the bits of the HC595 the "misc hc595" command is given
    Commands        \* the words the "lcd reg" command is given

Word == SUBSET (0 .. 31)

ASSUME OutputAssumption == Outputs \subseteq 0 .. 31
ASSUME CommandAssumption == Commands \subseteq SUBSET (0 .. 7)

HC4051_SELECT0 == 6
HC4051_SELECT1 == 3
HC4051_SELECT2 == 7
HC595_RTC_ADEN == 21

BAT_AD_INPUT == 0
RTC_AD_INPUT == 1
EXP_AD_ACIN_AD == 7

Input == 2          \* the measure pin is an input, not driven

VARIABLES
    bus,            \* see above
    requested,      \* irq_request(MXC_INT_CSPI1) has succeeded
    lcd_init,
    misc_init,      \* do_misc's static
    asked,          \* the channel of the last conversion
    sampled,        \* the channel the multiplexer selected for it, and
    enabled         \* whether the source's measuring switch was closed

convVars == <<asked, sampled, enabled>>
spiVars == <<bus, requested, lcd_init, misc_init, convVars>>

-------------------------------------------------------------------------------
(* mxc_spi_probe clears the device first and gives it its master last; it  *)
(* stops in between when the interrupt line is taken, also when it was     *)
(* itself that took it.                                                    *)
mxc_spi_probe(b) ==
    [b EXCEPT !.chip_select = 0, !.bits_per_word = 0, !.master = ~requested]

imx25_spi_setup(b, bits, ss) == [b EXCEPT !.chip_select = ss, !.bits_per_word = bits]

(* The low n bits of a word, shifted in from the right.                    *)
ShiftIn(old, word, n) == {i \in 0 .. 31 : IF i < n THEN i \in word ELSE i - n \in old}

(* poll_spi_write: the word goes to the chip the device is set up for,     *)
(* whoever sends it; without a master it is dropped.                       *)
poll_spi_write(b, who, word) ==
    IF ~b.master THEN b
    ELSE IF b.chip_select = 2
    THEN [b EXCEPT !.shift = ShiftIn(@, word, b.bits_per_word), !.shifted = who,
                   !.sent = IF who = "hc595" THEN word ELSE @]
    ELSE [b EXCEPT !.panel = @ \cup {who}]

(* init_yushun_ili9341 resets the panel with a pin of its own, then sends  *)
(* it the register settings, here as one word.                             *)
init_yushun_ili9341(b) == poll_spi_write([b EXCEPT !.panel = {}], "tft", {})

tft_fw_init(b) == init_yushun_ili9341(imx25_spi_setup(mxc_spi_probe(b), 9, 0))

Bit(word, num, value) == IF value = 1 THEN word \cup {num} ELSE word \ {num}

(* The pulse on the latch pin.                                             *)
Latch(b) == [b EXCEPT !.outputs = b.shift]

(* The mutant that relies on the set-up of the last transfer.              *)
gpio_set_hc595_output_bare(b, num, value) ==
    LET word == Bit(b.hc595_state, num, value)
    IN  Latch(poll_spi_write([b EXCEPT !.hc595_state = word], "hc595", word))

(* The mutant that pulses the latch before the transfer.                   *)
gpio_set_hc595_output_early(b, num, value) ==
    LET word == Bit(b.hc595_state, num, value)
        copy == [b EXCEPT !.hc595_state = word]
        set  == IF copy.chip_select # 2 THEN imx25_spi_setup(copy, 32, 2) ELSE copy
    IN  poll_spi_write(Latch(set), "hc595", word)

(* gpio_set_hc595_output: the copy, the set-up when the panel had the      *)
(* device, the transfer and the pulse on the latch.                        *)
gpio_set_hc595_output(b, num, value) ==
    LET word == Bit(b.hc595_state, num, value)
        copy == [b EXCEPT !.hc595_state = word]
        set  == IF copy.chip_select # 2 THEN imx25_spi_setup(copy, 32, 2) ELSE copy
    IN  Latch(poll_spi_write(set, "hc595", word))

(* The mutant that writes the second select line twice.                    *)
HC4051_opertions_twice(b, channel) ==
    gpio_set_hc595_output(
      gpio_set_hc595_output(
        gpio_set_hc595_output(b, HC4051_SELECT0, channel % 2),
        HC4051_SELECT1, (channel \div 2) % 2),
      HC4051_SELECT1, (channel \div 4) % 2)

HC4051_opertions(b, channel) ==
    gpio_set_hc595_output(
      gpio_set_hc595_output(
        gpio_set_hc595_output(b, HC4051_SELECT0, channel % 2),
        HC4051_SELECT1, (channel \div 2) % 2),
      HC4051_SELECT2, (channel \div 4) % 2)

(* The battery's switch is a pin of the processor, the RTC cell's an       *)
(* output of the HC595.                                                    *)
hfc_li_rtc_control(b, ch, val) ==
    IF ch = BAT_AD_INPUT THEN [b EXCEPT !.measure = val]
    ELSE gpio_set_hc595_output(b, HC595_RTC_ADEN, val)

(* The channel the multiplexer connects to the ADC, and whether the switch *)
(* of a source, if it has one, is closed.                                  *)
Channel(outputs) ==
    LET Line(num) == IF num \in outputs THEN 1 ELSE 0
    IN  Line(HC4051_SELECT0) + 2 * Line(HC4051_SELECT1) + 4 * Line(HC4051_SELECT2)

Closed(b, ch) == /\ ch = BAT_AD_INPUT => b.measure = 0
                 /\ ch = RTC_AD_INPUT => HC595_RTC_ADEN \notin b.outputs

-------------------------------------------------------------------------------
(* The calls.                                                              *)

(* The first pass of the main loop.                                        *)
SystemInit ==
    /\ lcd_init = 0
    /\ bus' = [tft_fw_init(bus) EXCEPT !.measure = Input]
    /\ requested' = TRUE /\ lcd_init' = 1
    /\ UNCHANGED <<misc_init, convVars>>

(* "lcd init" and "lcd reg <n>" at the prompt.  test_lcd_reg does not set  *)
(* the device up: it writes to whichever chip used it last.                *)
LcdInit ==
    /\ lcd_init = 1
    /\ bus' = tft_fw_init(bus)
    /\ requested' = TRUE
    /\ UNCHANGED <<lcd_init, misc_init, convVars>>

LcdReg(command) ==
    /\ lcd_init = 1
    /\ bus' = poll_spi_write(bus, "tft", command)
    /\ UNCHANGED <<requested, lcd_init, misc_init, convVars>>

Convert(b, channel) ==
    /\ asked' = channel /\ sampled' = Channel(b.outputs) /\ enabled' = Closed(b, channel)
    /\ UNCHANGED <<requested, lcd_init, misc_init>>

(* From the main loop for the battery, and from the misc command.          *)
get_bat_voltage(index) ==
    LET selected == HC4051_opertions(bus, index)
        closed   == hfc_li_rtc_control(hfc_li_rtc_control(selected, index, 1), index, 0)
    IN  /\ lcd_init = 1 /\ (index = RTC_AD_INPUT => misc_init = 1)
        /\ Convert(closed, index)
        /\ bus' = hfc_li_rtc_control(closed, index, 1)

get_external_supply_voltage ==
    /\ misc_init = 1
    /\ bus' = HC4051_opertions(bus, EXP_AD_ACIN_AD)
    /\ Convert(bus', EXP_AD_ACIN_AD)

(* "misc init" and "misc hc595 <n> on|off".                                *)
MiscInit ==
    /\ lcd_init = 1
    /\ misc_init' = 1
    /\ bus' = [bus EXCEPT !.measure = Input]
    /\ UNCHANGED <<requested, lcd_init, convVars>>

MiscHc595(num, value) ==
    /\ misc_init = 1
    /\ bus' = gpio_set_hc595_output(bus, num, value)
    /\ UNCHANGED <<requested, lcd_init, misc_init, convVars>>

(* The HC595 powers up with anything in its two registers.                 *)
SpiInit ==
    /\ \E outputs, shift \in SUBSET Outputs :
         bus = [master |-> FALSE, chip_select |-> 0, bits_per_word |-> 0,
                hc595_state |-> {}, measure |-> Input, shift |-> shift,
                shifted |-> "none", outputs |-> outputs, panel |-> {}, sent |-> outputs]
    /\ requested = FALSE /\ lcd_init = 0 /\ misc_init = 0
    /\ asked = BAT_AD_INPUT /\ sampled = BAT_AD_INPUT /\ enabled = TRUE

SpiNext ==
    \/ SystemInit \/ LcdInit \/ MiscInit
    \/ \E command \in Commands : LcdReg(command)
    \/ \E index \in {BAT_AD_INPUT, RTC_AD_INPUT} : get_bat_voltage(index)
    \/ get_external_supply_voltage
    \/ \E num \in Outputs, value \in {0, 1} : MiscHc595(num, value)

SpiSpec == SpiInit /\ [][SpiNext]_spiVars

-------------------------------------------------------------------------------

Bus == [master : BOOLEAN, chip_select : {0, 2}, bits_per_word : {0, 9, 32},
        hc595_state : Word, measure : {0, 1, Input}, shift : Word,
        shifted : {"none", "tft", "hc595"}, outputs : Word,
        panel : SUBSET {"tft", "hc595"}, sent : Word]

(* Every variable has its type; the device is set up for one of its chips. *)
SpiTypeOK ==
    /\ bus \in Bus
    /\ requested \in BOOLEAN /\ lcd_init \in {0, 1} /\ misc_init \in {0, 1}
    /\ asked \in {BAT_AD_INPUT, RTC_AD_INPUT, EXP_AD_ACIN_AD} /\ sampled \in 0 .. 7
    /\ enabled \in BOOLEAN

(* What the HC595 drives is always accounted for.  As long as the device   *)
(* has its master, it is the copy from the first write on, although lcd    *)
(* reg shifts words of the panel into the HC595 in between                 *)
(* (gpio_set_hc595_output shifts 32 bits before every pulse).  A second    *)
(* lcd init takes the master away: the copy goes on alone, and the outputs *)
(* stay at the last copy that came through, unless a foreign word was in   *)
(* the shift register at that moment, which the next pulse then drives.    *)
OutputsKnown ==
    /\ bus.master /\ bus.shifted # "none" => bus.sent = bus.hc595_state
    /\ bus.outputs # bus.sent => ~bus.master /\ bus.shifted # "hc595"

(* Every conversion is of the channel that was asked for, although the     *)
(* three select lines are written one by one into a word that the switches *)
(* and the misc command share, and through a device that the panel's       *)
(* commands use in between (HC4051_opertions), as long as the device has   *)
(* its master.  The measuring switch is closed then too, and the battery's *)
(* also without (get_bat_voltage).                                         *)
SampledAsAsked ==
    /\ bus.master => sampled = asked
    /\ bus.master \/ asked = BAT_AD_INPUT => enabled

(* The panel has its settings as long as the device has its master, and no *)
(* word of the HC595 has come among them, whatever was measured in between *)
(* (gpio_set_hc595_output sets the device up).  A second lcd init resets   *)
(* the panel in the call that loses the master, and nothing reaches it     *)
(* after that (tft_fw_init).                                               *)
PanelHears == bus.panel = IF bus.master THEN {"tft"} ELSE {}

===============================================================================
