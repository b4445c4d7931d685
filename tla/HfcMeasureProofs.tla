--------------------------- MODULE HfcMeasureProofs ---------------------------
(***************************************************************************)
(* The measurements: the shared SPI device and the multiplexer behind it,  *)
(* for every set of outputs and of panel commands the prompt is given, and *)
(* what the battery manager makes of a conversion, for every conversion,   *)
(* every number of loops between two displays and every start of the       *)
(* counter.                                                                *)
(***************************************************************************)
EXTENDS HfcSpi, HfcBattery, WellFoundedInduction, TLAPS

(* The device.  None of its three properties is inductive alone.  Steady   *)
(* adds to what they say of the board that a device set up for the HC595   *)
(* has its 32-bit words, so that one transfer replaces the whole shift     *)
(* register, that it was the HC595 that set it up so, and that a word of   *)
(* the HC595 is still in the shift register when nothing else came after.  *)
Steady(b) ==
    /\ b.chip_select = 2 => b.bits_per_word = 32
    /\ b.chip_select = 2 /\ b.master => b.shifted # "none"
    /\ b.shifted = "hc595" => b.shift = b.sent
    /\ b.master /\ b.shifted # "none" => b.sent = b.hc595_state
    /\ b.outputs # b.sent => ~b.master /\ b.shifted # "hc595"
    /\ b.panel = IF b.master THEN {"tft"} ELSE {}

(* Before the first pass nothing has used the device, and after it the     *)
(* interrupt line is taken for good.                                       *)
Owned ==
    /\ lcd_init = 0 => /\ ~requested /\ misc_init = 0
                       /\ bus.shifted = "none" /\ bus.outputs = bus.sent
                       /\ sampled = asked /\ enabled
    /\ lcd_init = 1 => requested

SpiInv == SpiTypeOK /\ Owned /\ Steady(bus) /\ SampledAsAsked

(* A transfer of 32 bits replaces all that was in the shift register.      *)
LEMMA WholeWord ==
    ASSUME NEW old \in Word, NEW word \in Word
    PROVE  ShiftIn(old, word, 32) = word
<1>1. \A i \in 0 .. 31 : i < 32
    OBVIOUS
<1>2. ShiftIn(old, word, 32) = {i \in 0 .. 31 : i \in word}
    BY <1>1, Zenon DEF ShiftIn
<1> QED
    BY <1>2, Zenon DEF Word

(* The fields of a board.                                                  *)
LEMMA BusFields ==
    ASSUME NEW b \in Bus
    PROVE  b = [master |-> b.master, chip_select |-> b.chip_select,
                bits_per_word |-> b.bits_per_word, hc595_state |-> b.hc595_state,
                measure |-> b.measure, shift |-> b.shift, shifted |-> b.shifted,
                outputs |-> b.outputs, panel |-> b.panel, sent |-> b.sent]
BY DEF Bus

(* A bit of a word set or cleared.                                         *)
LEMMA BitFacts ==
    ASSUME NEW word \in Word, NEW num \in 0 .. 31, NEW value \in {0, 1}
    PROVE  Bit(word, num, value) \in Word
BY Zenon DEF Bit, Word

(* What one write of the HC595 does: the copy gets the bit, the outputs    *)
(* are the copy if there is a master, the rest of the board is as steady   *)
(* as it was.                                                              *)
LEMMA WriteFacts ==
    ASSUME NEW b \in Bus, Steady(b), NEW num \in 0 .. 31, NEW value \in {0, 1}
    PROVE  LET r == gpio_set_hc595_output(b, num, value)
           IN  /\ r \in Bus /\ Steady(r)
               /\ r.master = b.master /\ r.measure = b.measure
               /\ r.hc595_state = Bit(b.hc595_state, num, value)
               /\ b.master => r.outputs = r.hc595_state
<1> DEFINE word == Bit(b.hc595_state, num, value)
           copy == [b EXCEPT !.hc595_state = word]
           set  == IF copy.chip_select # 2 THEN imx25_spi_setup(copy, 32, 2) ELSE copy
           r    == gpio_set_hc595_output(b, num, value)
<1>1. word \in Word
    BY BitFacts, Zenon DEF Bus
<1>2. r = Latch(poll_spi_write(set, "hc595", word))
    BY Zenon DEF gpio_set_hc595_output
<1> HIDE DEF word, r
<1>3. copy = [master |-> b.master, chip_select |-> b.chip_select,
              bits_per_word |-> b.bits_per_word, hc595_state |-> word,
              measure |-> b.measure, shift |-> b.shift, shifted |-> b.shifted,
              outputs |-> b.outputs, panel |-> b.panel, sent |-> b.sent]
    BY BusFields
<1>4. set = [master |-> b.master, chip_select |-> 2, bits_per_word |-> 32,
             hc595_state |-> word, measure |-> b.measure, shift |-> b.shift,
             shifted |-> b.shifted, outputs |-> b.outputs, panel |-> b.panel,
             sent |-> b.sent]
    <2> HIDE DEF copy
    <2>1. CASE b.chip_select = 2
        BY <1>3, <2>1, Zenon DEF Steady
    <2>2. CASE b.chip_select # 2
        BY <1>3, <2>2 DEF imx25_spi_setup
    <2> QED
        BY <2>1, <2>2
<1> HIDE DEF copy, set
<1>5. CASE b.master
    <2>1. ShiftIn(b.shift, word, 32) = word
        BY <1>1, WholeWord, Zenon DEF Bus
    <2>2. poll_spi_write(set, "hc595", word) =
            [master |-> b.master, chip_select |-> 2, bits_per_word |-> 32,
             hc595_state |-> word, measure |-> b.measure, shift |-> word,
             shifted |-> "hc595", outputs |-> b.outputs, panel |-> b.panel,
             sent |-> word]
        BY <1>4, <1>5, <2>1 DEF poll_spi_write
    <2>3. r = [master |-> b.master, chip_select |-> 2, bits_per_word |-> 32,
               hc595_state |-> word, measure |-> b.measure, shift |-> word,
               shifted |-> "hc595", outputs |-> word, panel |-> b.panel,
               sent |-> word]
        BY <1>2, <2>2 DEF Latch
    <2>4. r \in Bus
        BY <1>1, <2>3, Zenon DEF Bus
    <2>5. Steady(r)
        BY <1>5, <2>3 DEF Steady
    <2> QED
        BY <2>3, <2>4, <2>5 DEF r, word
<1>6. CASE ~b.master
    <2>1. poll_spi_write(set, "hc595", word) = set
        BY <1>4, <1>6, Zenon DEF poll_spi_write
    <2>2. r = [master |-> b.master, chip_select |-> 2, bits_per_word |-> 32,
               hc595_state |-> word, measure |-> b.measure, shift |-> b.shift,
               shifted |-> b.shifted, outputs |-> b.shift, panel |-> b.panel,
               sent |-> b.sent]
        BY <1>2, <1>4, <2>1 DEF Latch
    <2>3. r \in Bus
        BY <1>1, <2>2, Zenon DEF Bus
    <2>4. Steady(r)
        BY <1>6, <2>2 DEF Steady
    <2> QED
        BY <1>6, <2>2, <2>3, <2>4 DEF r, word
<1> QED
    BY <1>5, <1>6, Zenon

(* Setting the three select lines one after the other selects the channel, *)
(* whatever the other bits of the word are.                                *)
LEMMA SelectFacts ==
    ASSUME NEW b \in Bus, Steady(b),
           NEW channel \in {BAT_AD_INPUT, RTC_AD_INPUT, EXP_AD_ACIN_AD}
    PROVE  LET r == HC4051_opertions(b, channel)
           IN  /\ r \in Bus /\ Steady(r)
               /\ r.master = b.master /\ r.measure = b.measure
               /\ Channel(r.hc595_state) = channel
               /\ b.master => r.outputs = r.hc595_state
<1> DEFINE x == channel % 2
           y == (channel \div 2) % 2
           z == (channel \div 4) % 2
           b1 == gpio_set_hc595_output(b, 6, x)
           b2 == gpio_set_hc595_output(b1, 3, y)
           b3 == gpio_set_hc595_output(b2, 7, z)
<1>0. 6 \in 0 .. 31 /\ 3 \in 0 .. 31 /\ 7 \in 0 .. 31
    OBVIOUS
<1>1. /\ x \in {0, 1} /\ y \in {0, 1} /\ z \in {0, 1}
      /\ channel = x + 2 * y + 4 * z
    BY DEF BAT_AD_INPUT, RTC_AD_INPUT, EXP_AD_ACIN_AD
<1>2. b3 = HC4051_opertions(b, channel)
    BY Zenon DEF HC4051_opertions, HC4051_SELECT0, HC4051_SELECT1, HC4051_SELECT2
<1> HIDE DEF x, y, z
<1>3. /\ b1 \in Bus /\ Steady(b1) /\ b1.master = b.master /\ b1.measure = b.measure
      /\ b1.hc595_state = Bit(b.hc595_state, 6, x)
    BY <1>0, <1>1, WriteFacts, Zenon
<1> HIDE DEF b1
<1>4. /\ b2 \in Bus /\ Steady(b2) /\ b2.master = b1.master /\ b2.measure = b1.measure
      /\ b2.hc595_state = Bit(b1.hc595_state, 3, y)
    BY <1>0, <1>1, <1>3, WriteFacts, Zenon
<1> HIDE DEF b2
<1>5. /\ b3 \in Bus /\ Steady(b3) /\ b3.master = b2.master /\ b3.measure = b2.measure
      /\ b3.hc595_state = Bit(b2.hc595_state, 7, z)
      /\ b2.master => b3.outputs = b3.hc595_state
    BY <1>0, <1>1, <1>4, WriteFacts, Zenon
<1> HIDE DEF b3
<1>6. /\ 6 \in b3.hc595_state <=> x = 1
      /\ 3 \in b3.hc595_state <=> y = 1
      /\ 7 \in b3.hc595_state <=> z = 1
    BY <1>1, <1>3, <1>4, <1>5 DEF Bit
<1>7. Channel(b3.hc595_state) = channel
    BY <1>1, <1>6, Zenon DEF Channel, HC4051_SELECT0, HC4051_SELECT1, HC4051_SELECT2
<1> QED
    BY <1>2, <1>3, <1>4, <1>5, <1>7, Zenon

(* The multiplexer has eight channels.                                     *)
LEMMA ChannelRange == \A word : Channel(word) \in 0 .. 7
BY DEF Channel

(* The switch of the RTC cell is no select line.                           *)
LEMMA SwitchKeepsChannel ==
    \A word, value : Channel(Bit(word, HC595_RTC_ADEN, value)) = Channel(word)
BY DEF Channel, Bit, HC595_RTC_ADEN, HC4051_SELECT0, HC4051_SELECT1,
       HC4051_SELECT2

(* Opening or closing a measuring switch: the battery's always follows,    *)
(* the RTC cell's if there is a master; no select line moves.              *)
LEMMA SwitchFacts ==
    ASSUME NEW b \in Bus, Steady(b), NEW ch \in {BAT_AD_INPUT, RTC_AD_INPUT},
           NEW val \in {0, 1},
           b.master => b.outputs = b.hc595_state
    PROVE  LET r == hfc_li_rtc_control(b, ch, val)
           IN  /\ r \in Bus /\ Steady(r) /\ r.master = b.master
               /\ Channel(r.hc595_state) = Channel(b.hc595_state)
               /\ b.master => r.outputs = r.hc595_state
               /\ ch = BAT_AD_INPUT => r.measure = val
               /\ ch = RTC_AD_INPUT /\ b.master /\ val = 0 =>
                    HC595_RTC_ADEN \notin r.outputs
<1>0. BAT_AD_INPUT # RTC_AD_INPUT /\ HC595_RTC_ADEN \in 0 .. 31
    BY DEF BAT_AD_INPUT, RTC_AD_INPUT, HC595_RTC_ADEN
<1>1. CASE ch = BAT_AD_INPUT
    <2> DEFINE r == hfc_li_rtc_control(b, ch, val)
    <2>1. r = [b EXCEPT !.measure = val]
        BY <1>1, Zenon DEF hfc_li_rtc_control
    <2>2. r = [master |-> b.master, chip_select |-> b.chip_select,
               bits_per_word |-> b.bits_per_word, hc595_state |-> b.hc595_state,
               measure |-> val, shift |-> b.shift, shifted |-> b.shifted,
               outputs |-> b.outputs, panel |-> b.panel, sent |-> b.sent]
        BY <2>1, BusFields
    <2>3. val \in {0, 1, Input}
        OBVIOUS
    <2> HIDE DEF r
    <2>4. r \in Bus
        BY <2>2, <2>3, Zenon DEF Bus
    <2>5. Steady(r)
        BY <2>2 DEF Steady
    <2> QED
        BY <1>0, <1>1, <2>2, <2>4, <2>5 DEF r
<1>2. CASE ch = RTC_AD_INPUT
    <2> DEFINE r == gpio_set_hc595_output(b, HC595_RTC_ADEN, val)
    <2>1. hfc_li_rtc_control(b, ch, val) = r
        BY <1>0, <1>2, Zenon DEF hfc_li_rtc_control
    <2>2. /\ r \in Bus /\ Steady(r) /\ r.master = b.master
          /\ r.hc595_state = Bit(b.hc595_state, HC595_RTC_ADEN, val)
          /\ b.master => r.outputs = r.hc595_state
        BY <1>0, WriteFacts, Zenon
    <2> HIDE DEF r
    <2>3. Channel(r.hc595_state) = Channel(b.hc595_state)
        BY <2>2, SwitchKeepsChannel, Zenon
    <2>4. b.master /\ val = 0 => HC595_RTC_ADEN \notin r.outputs
        BY <2>2 DEF Bit
    <2> QED
        BY <1>0, <1>2, <2>1, <2>2, <2>3, <2>4, Zenon
<1> QED
    BY <1>1, <1>2, Zenon

(* Bringing the panel up: the board has a master, and a panel that has     *)
(* heard its settings, when the line was free; neither when it was taken.  *)
LEMMA PanelUpFacts ==
    ASSUME NEW b \in Bus, requested \in BOOLEAN,
           b.shifted = "hc595" => b.shift = b.sent /\ b.outputs = b.sent,
           ~requested => b.shifted = "none" /\ b.outputs = b.sent
    PROVE  LET r == tft_fw_init(b)
           IN  /\ r \in Bus /\ Steady(r)
               /\ r.master = ~requested
               /\ r.shifted = b.shifted /\ r.outputs = b.outputs /\ r.sent = b.sent
<1> DEFINE r == tft_fw_init(b)
           own == ~requested
           heard == IF own THEN {"tft"} ELSE {}
           up == [master |-> own, chip_select |-> 0, bits_per_word |-> 9,
                  hc595_state |-> b.hc595_state, measure |-> b.measure,
                  shift |-> b.shift, shifted |-> b.shifted,
                  outputs |-> b.outputs, panel |-> {}, sent |-> b.sent]
<1>1. /\ own \in BOOLEAN /\ heard \in SUBSET {"tft", "hc595"}
      /\ own => b.shifted = "none" /\ b.outputs = b.sent
    BY Zenon
<1>2. mxc_spi_probe(b) =
        [b EXCEPT !.chip_select = 0, !.bits_per_word = 0, !.master = own]
    BY Zenon DEF mxc_spi_probe
<1>3. r = init_yushun_ili9341(imx25_spi_setup(mxc_spi_probe(b), 9, 0))
    BY Zenon DEF tft_fw_init
<1> HIDE DEF own, r
<1>4. r = poll_spi_write(up, "tft", {})
    <2> DEFINE probed == mxc_spi_probe(b)
               set    == imx25_spi_setup(probed, 9, 0)
    <2>1. probed = [master |-> own, chip_select |-> 0, bits_per_word |-> 0,
                    hc595_state |-> b.hc595_state, measure |-> b.measure,
                    shift |-> b.shift, shifted |-> b.shifted,
                    outputs |-> b.outputs, panel |-> b.panel, sent |-> b.sent]
        BY <1>2, Zenon DEF Bus
    <2> HIDE DEF probed
    <2>2. set = [master |-> own, chip_select |-> 0, bits_per_word |-> 9,
                 hc595_state |-> b.hc595_state, measure |-> b.measure,
                 shift |-> b.shift, shifted |-> b.shifted,
                 outputs |-> b.outputs, panel |-> b.panel, sent |-> b.sent]
        <3>1. set = [probed EXCEPT !.chip_select = 0, !.bits_per_word = 9]
            BY Zenon DEF imx25_spi_setup
        <3> HIDE DEF set
        <3> QED
            BY <2>1, <3>1, Zenon
    <2>3. r = poll_spi_write([set EXCEPT !.panel = {}], "tft", {})
        BY <1>3, Zenon DEF init_yushun_ili9341, probed
    <2> HIDE DEF set
    <2>4. [set EXCEPT !.panel = {}] = up
        BY <2>2
    <2> QED
        BY <2>3, <2>4, Zenon
<1>5. r = [master |-> own, chip_select |-> 0, bits_per_word |-> 9,
           hc595_state |-> b.hc595_state, measure |-> b.measure,
           shift |-> b.shift, shifted |-> b.shifted,
           outputs |-> b.outputs, panel |-> heard, sent |-> b.sent]
    <2>1. CASE own
        <3>1. r = [up EXCEPT !.panel = {"tft"}]
            <4>1. up.master /\ up.chip_select # 2 /\ {} \cup {"tft"} = {"tft"}
                BY <2>1
            <4>2. up.panel = {}
                OBVIOUS
            <4> HIDE DEF up
            <4> QED
                BY <1>4, <4>1, <4>2, Zenon DEF poll_spi_write
        <3>2. heard = {"tft"}
            BY <2>1, Zenon
        <3> HIDE DEF heard
        <3> QED
            BY <3>1, <3>2
    <2>2. CASE ~own
        <3>1. r = up /\ heard = {}
            BY <1>4, <2>2, Zenon DEF poll_spi_write
        <3> HIDE DEF heard
        <3> QED
            BY <3>1
    <2> QED
        BY <2>1, <2>2, Zenon
<1> HIDE DEF heard
<1>6. r \in Bus
    BY <1>1, <1>5, Zenon DEF Bus
<1>7. Steady(r)
    <2>1. CASE own
        BY <1>1, <1>5, <2>1 DEF Steady, heard
    <2>2. CASE ~own
        BY <1>1, <1>5, <2>2 DEF Steady, heard
    <2> QED
        BY <2>1, <2>2, Zenon
<1> QED
    <2>1. /\ r.master = own
          /\ r.shifted = b.shifted /\ r.outputs = b.outputs /\ r.sent = b.sent
        BY <1>5
    <2> QED
        BY <1>6, <1>7, <2>1, Zenon DEF r, own

(* A word of the panel: it goes to the panel, or into the shift register   *)
(* of the HC595 where the next write of the HC595 replaces it.             *)
LEMMA PanelWordFacts ==
    ASSUME NEW b \in Bus, Steady(b), NEW word \in Word
    PROVE  LET r == poll_spi_write(b, "tft", word)
           IN  r \in Bus /\ Steady(r) /\ r.master = b.master
<1> DEFINE r == poll_spi_write(b, "tft", word)
           new == ShiftIn(b.shift, word, b.bits_per_word)
<1>1. new \in Word
    BY Zenon DEF ShiftIn, Word
<1> HIDE DEF new
<1>2. CASE ~b.master
    BY <1>2, Zenon DEF poll_spi_write
<1>3. CASE b.master /\ b.chip_select = 2
    <2>1. r = [b EXCEPT !.shift = new, !.shifted = "tft", !.sent = b.sent]
        BY <1>3 DEF poll_spi_write, new
    <2> HIDE DEF r
    <2>2. /\ r.master = b.master /\ r.chip_select = b.chip_select
          /\ r.bits_per_word = b.bits_per_word /\ r.hc595_state = b.hc595_state
          /\ r.shifted = "tft" /\ r.outputs = b.outputs /\ r.panel = b.panel
          /\ r.sent = b.sent
        BY <2>1 DEF Bus
    <2>3. r \in Bus
        BY <1>1, <2>1, Zenon DEF Bus
    <2>4. Steady(r)
        BY <1>3, <2>2 DEF Steady
    <2> QED
        BY <2>2, <2>3, <2>4 DEF r
<1>4. CASE b.master /\ b.chip_select # 2
    <2>1. r = [b EXCEPT !.panel = b.panel \cup {"tft"}]
        BY <1>4, Zenon DEF poll_spi_write
    <2>2. b.panel \cup {"tft"} = b.panel
        BY <1>4 DEF Steady
    <2>3. r = b
        BY <2>1, <2>2 DEF Bus
    <2> QED
        BY <2>3, Zenon
<1> QED
    BY <1>2, <1>3, <1>4, Zenon

(* A call that leaves the board steady and the last conversion as asked,   *)
(* if there is a master, keeps the invariant.                              *)
LEMMA UseKeepsSpiInv ==
    ASSUME SpiInv, lcd_init = 1, bus' \in Bus, Steady(bus'),
           lcd_init' = 1, requested' = TRUE, misc_init' \in {0, 1},
           asked' \in {BAT_AD_INPUT, RTC_AD_INPUT, EXP_AD_ACIN_AD},
           sampled' \in 0 .. 7, enabled' \in BOOLEAN,
           SampledAsAsked'
    PROVE  SpiInv'
<1>1. SpiTypeOK'
    <2>1. requested' \in BOOLEAN /\ lcd_init' \in {0, 1}
        OBVIOUS
    <2> QED
        BY <2>1, Zenon DEF SpiTypeOK
<1>2. Owned'
    BY DEF Owned
<1> QED
    BY <1>1, <1>2, Zenon DEF SpiInv

(* A call that makes no conversion.                                        *)
LEMMA QuietKeepsSpiInv ==
    ASSUME SpiInv, lcd_init = 1, bus' \in Bus, Steady(bus'),
           bus'.master => bus.master,
           lcd_init' = 1, requested' = TRUE, misc_init' \in {0, 1},
           UNCHANGED convVars
    PROVE  SpiInv'
<1>1. UNCHANGED <<asked, sampled, enabled>>
    BY Zenon DEF convVars
<1>2. SampledAsAsked'
    BY <1>1, Zenon DEF SpiInv, SampledAsAsked
<1>3. /\ asked' \in {BAT_AD_INPUT, RTC_AD_INPUT, EXP_AD_ACIN_AD}
      /\ sampled' \in 0 .. 7 /\ enabled' \in BOOLEAN
    BY <1>1, Zenon DEF SpiInv, SpiTypeOK
<1> QED
    BY <1>2, <1>3, UseKeepsSpiInv, Zenon

(* The pin of the battery's switch becomes an input.                       *)
LEMMA PinFacts ==
    ASSUME NEW b \in Bus, Steady(b)
    PROVE  LET r == [b EXCEPT !.measure = Input]
           IN  r \in Bus /\ Steady(r) /\ r.master = b.master
<1> DEFINE r == [b EXCEPT !.measure = Input]
<1>1. r = [master |-> b.master, chip_select |-> b.chip_select,
           bits_per_word |-> b.bits_per_word, hc595_state |-> b.hc595_state,
           measure |-> Input, shift |-> b.shift, shifted |-> b.shifted,
           outputs |-> b.outputs, panel |-> b.panel, sent |-> b.sent]
    BY BusFields
<1> HIDE DEF r
<1>2. r \in Bus
    BY <1>1, Zenon DEF Bus
<1>3. Steady(r)
    BY <1>1 DEF Steady
<1> QED
    BY <1>1, <1>2, <1>3 DEF r

(* The first pass brings the device up; lcd init, which finds the line     *)
(* taken, takes its master away.                                           *)
LEMMA InitKeepsSpiInv ==
    ASSUME SpiInv, SystemInit \/ LcdInit
    PROVE  SpiInv'
<1> DEFINE r == tft_fw_init(bus)
<1>0. bus \in Bus /\ Steady(bus) /\ requested \in BOOLEAN
    BY Zenon DEF SpiInv, SpiTypeOK
<1>1. bus.shifted = "hc595" => bus.shift = bus.sent /\ bus.outputs = bus.sent
    BY <1>0, Zenon DEF Steady
<1>2. ~requested => bus.shifted = "none" /\ bus.outputs = bus.sent
    BY DEF SpiInv, SpiTypeOK, Owned
<1>3. r \in Bus /\ Steady(r) /\ r.master = ~requested
    BY <1>0, <1>1, <1>2, PanelUpFacts, Zenon
<1> HIDE DEF r
<1>4. misc_init \in {0, 1}
    BY Zenon DEF SpiInv, SpiTypeOK
<1>5. CASE SystemInit
    <2>1. bus' = [r EXCEPT !.measure = Input]
        BY <1>5, Zenon DEF SystemInit, r
    <2>2. bus' \in Bus /\ Steady(bus')
        BY <1>3, <2>1, PinFacts, Zenon
    <2>3. /\ lcd_init = 0 /\ requested' = TRUE /\ lcd_init' = 1
          /\ misc_init' = misc_init
          /\ UNCHANGED <<asked, sampled, enabled>>
        BY <1>5, Zenon DEF SystemInit, convVars
    <2>4. SampledAsAsked'
        BY <2>3, Zenon DEF SpiInv, Owned, SampledAsAsked
    <2>5. requested' \in BOOLEAN /\ lcd_init' \in {0, 1}
        BY <2>3
    <2>6. SpiTypeOK'
        BY <2>2, <2>3, <2>5, Zenon DEF SpiInv, SpiTypeOK
    <2>7. Owned'
        BY <2>3 DEF Owned
    <2> QED
        BY <2>2, <2>4, <2>6, <2>7, Zenon DEF SpiInv
<1>6. CASE LcdInit
    <2>1. /\ bus' = r /\ lcd_init = 1 /\ requested' = TRUE /\ lcd_init' = lcd_init
          /\ misc_init' = misc_init /\ UNCHANGED convVars
        BY <1>6, Zenon DEF LcdInit, r
    <2>2. requested
        BY <2>1, Zenon DEF SpiInv, Owned
    <2>3. ~bus'.master
        BY <1>3, <2>1, <2>2, Zenon
    <2> QED
        BY <1>3, <1>4, <2>1, <2>3, QuietKeepsSpiInv, Zenon
<1> QED
    BY <1>5, <1>6, Zenon

(* The calls that write to the device or move a pin.                       *)
LEMMA WriteKeepsSpiInv ==
    ASSUME SpiInv,
           \/ MiscInit
           \/ \E command \in Commands : LcdReg(command)
           \/ \E num \in Outputs, value \in {0, 1} : MiscHc595(num, value)
    PROVE  SpiInv'
<1>0. /\ bus \in Bus /\ Steady(bus)
      /\ misc_init \in {0, 1} /\ (misc_init = 1 => lcd_init = 1)
      /\ (lcd_init = 1 => requested = TRUE)
    BY DEF SpiInv, SpiTypeOK, Owned
<1>1. CASE MiscInit
    <2>1. /\ bus' = [bus EXCEPT !.measure = Input]
          /\ lcd_init = 1 /\ requested' = requested /\ lcd_init' = lcd_init
          /\ misc_init' = 1 /\ UNCHANGED convVars
        BY <1>1, Zenon DEF MiscInit
    <2>2. misc_init' \in {0, 1}
        BY <2>1, Zenon
    <2>3. bus' \in Bus /\ Steady(bus') /\ bus'.master = bus.master
        BY <1>0, <2>1, PinFacts, Zenon
    <2> QED
        BY <1>0, <2>1, <2>2, <2>3, QuietKeepsSpiInv, Zenon
<1>2. ASSUME NEW command \in Commands, LcdReg(command)
      PROVE  SpiInv'
    <2>1. /\ bus' = poll_spi_write(bus, "tft", command)
          /\ lcd_init = 1 /\ requested' = requested /\ lcd_init' = lcd_init
          /\ misc_init' = misc_init /\ UNCHANGED convVars
        BY <1>2, Zenon DEF LcdReg
    <2>2. command \in Word
        BY CommandAssumption DEF Word
    <2>3. bus' \in Bus /\ Steady(bus') /\ bus'.master = bus.master
        BY <1>0, <2>1, <2>2, PanelWordFacts, Zenon
    <2> QED
        BY <1>0, <2>1, <2>3, QuietKeepsSpiInv, Zenon
<1>3. ASSUME NEW num \in Outputs, NEW value \in {0, 1}, MiscHc595(num, value)
      PROVE  SpiInv'
    <2>1. /\ bus' = gpio_set_hc595_output(bus, num, value)
          /\ misc_init = 1 /\ requested' = requested /\ lcd_init' = lcd_init
          /\ misc_init' = misc_init /\ UNCHANGED convVars
        BY <1>3, Zenon DEF MiscHc595
    <2>2. num \in 0 .. 31
        BY OutputAssumption
    <2>3. bus' \in Bus /\ Steady(bus') /\ bus'.master = bus.master
        BY <1>0, <2>1, <2>2, WriteFacts, Zenon
    <2> QED
        BY <1>0, <2>1, <2>3, QuietKeepsSpiInv, Zenon
<1> QED
    BY <1>1, <1>2, <1>3, Zenon

(* The three voltages.                                                     *)
LEMMA VoltageKeepsSpiInv ==
    ASSUME SpiInv,
           \/ \E index \in {BAT_AD_INPUT, RTC_AD_INPUT} : get_bat_voltage(index)
           \/ get_external_supply_voltage
    PROVE  SpiInv'
<1>0. /\ bus \in Bus /\ Steady(bus)
      /\ misc_init \in {0, 1} /\ (misc_init = 1 => lcd_init = 1)
      /\ (lcd_init = 1 => requested = TRUE)
    BY DEF SpiInv, SpiTypeOK, Owned
<1>1. /\ BAT_AD_INPUT # RTC_AD_INPUT /\ BAT_AD_INPUT # EXP_AD_ACIN_AD
      /\ RTC_AD_INPUT # EXP_AD_ACIN_AD
    BY DEF BAT_AD_INPUT, RTC_AD_INPUT, EXP_AD_ACIN_AD
<1>2. ASSUME NEW index \in {BAT_AD_INPUT, RTC_AD_INPUT}, get_bat_voltage(index)
      PROVE  SpiInv'
    <2> DEFINE selected == HC4051_opertions(bus, index)
               open     == hfc_li_rtc_control(selected, index, 1)
               closed   == hfc_li_rtc_control(open, index, 0)
               last     == hfc_li_rtc_control(closed, index, 1)
    <2>0. index \in {BAT_AD_INPUT, RTC_AD_INPUT, EXP_AD_ACIN_AD}
          /\ 0 \in {0, 1} /\ 1 \in {0, 1}
        BY Zenon
    <2>1. /\ selected \in Bus /\ Steady(selected) /\ selected.master = bus.master
          /\ Channel(selected.hc595_state) = index
          /\ bus.master => selected.outputs = selected.hc595_state
        BY <1>0, <2>0, SelectFacts, Zenon
    <2>2. /\ asked' = index /\ sampled' = Channel(closed.outputs)
          /\ enabled' = Closed(closed, index)
          /\ bus' = last /\ lcd_init = 1
          /\ UNCHANGED <<requested, lcd_init, misc_init>>
        BY <1>2, Zenon DEF get_bat_voltage, Convert
    <2> HIDE DEF selected
    <2>3. /\ open \in Bus /\ Steady(open) /\ open.master = bus.master
          /\ Channel(open.hc595_state) = index
          /\ bus.master => open.outputs = open.hc595_state
        BY <2>0, <2>1, SwitchFacts, Zenon
    <2> HIDE DEF open
    <2>4. /\ closed \in Bus /\ Steady(closed) /\ closed.master = bus.master
          /\ Channel(closed.hc595_state) = index
          /\ bus.master => closed.outputs = closed.hc595_state
          /\ index = BAT_AD_INPUT => closed.measure = 0
          /\ index = RTC_AD_INPUT /\ bus.master => HC595_RTC_ADEN \notin closed.outputs
        BY <2>0, <2>3, SwitchFacts, Zenon
    <2> HIDE DEF closed
    <2>5. last \in Bus /\ Steady(last) /\ last.master = bus.master
        BY <2>0, <2>4, SwitchFacts, Zenon
    <2> HIDE DEF last
    <2>6. sampled' \in 0 .. 7
        BY <2>2, ChannelRange, Zenon
    <2>7. bus.master => sampled' = asked'
        BY <2>2, <2>4, Zenon
    <2>8. bus.master \/ index = BAT_AD_INPUT => Closed(closed, index)
        BY <1>1, <2>4, Zenon DEF Closed
    <2>9. enabled' \in BOOLEAN
        BY <2>2, Zenon DEF Closed
    <2>10. SampledAsAsked'
        BY <2>2, <2>5, <2>7, <2>8, Zenon DEF SampledAsAsked
    <2> QED
        BY <1>0, <2>0, <2>2, <2>5, <2>6, <2>9, <2>10, UseKeepsSpiInv, Zenon
<1>3. CASE get_external_supply_voltage
    <2>1. /\ bus' = HC4051_opertions(bus, EXP_AD_ACIN_AD) /\ misc_init = 1
          /\ asked' = EXP_AD_ACIN_AD /\ sampled' = Channel(bus'.outputs)
          /\ enabled' = Closed(bus', EXP_AD_ACIN_AD)
          /\ UNCHANGED <<requested, lcd_init, misc_init>>
        BY <1>3, Zenon DEF get_external_supply_voltage, Convert
    <2>2. /\ bus' \in Bus /\ Steady(bus') /\ bus'.master = bus.master
          /\ Channel(bus'.hc595_state) = EXP_AD_ACIN_AD
          /\ bus.master => bus'.outputs = bus'.hc595_state
        BY <1>0, <2>1, SelectFacts, Zenon
    <2>3. sampled' \in 0 .. 7
        BY <2>1, ChannelRange, Zenon
    <2>4. Closed(bus', EXP_AD_ACIN_AD)
        BY <1>1, Zenon DEF Closed
    <2>5. enabled' = TRUE
        BY <2>1, <2>4, Zenon DEF Closed
    <2>6. SampledAsAsked'
        BY <2>1, <2>2, <2>5, Zenon DEF SampledAsAsked
    <2>7. enabled' \in BOOLEAN
        BY <2>5
    <2> QED
        BY <1>0, <2>1, <2>2, <2>3, <2>6, <2>7, UseKeepsSpiInv, Zenon
<1> QED
    BY <1>2, <1>3, Zenon

(* The inductive invariant holds throughout.                               *)
LEMMA AlwaysSpiInv == SpiSpec => []SpiInv
<1>1. SpiInit => SpiInv
    <2> SUFFICES ASSUME SpiInit PROVE SpiInv
        OBVIOUS
    <2>1. PICK outputs \in SUBSET Outputs, shift \in SUBSET Outputs :
            bus = [master |-> FALSE, chip_select |-> 0, bits_per_word |-> 0,
                   hc595_state |-> {}, measure |-> Input, shift |-> shift,
                   shifted |-> "none", outputs |-> outputs, panel |-> {},
                   sent |-> outputs]
        BY Zenon DEF SpiInit
    <2>2. outputs \in Word /\ shift \in Word /\ {} \in Word
        BY OutputAssumption DEF Word
    <2>3. bus \in Bus
        BY <2>1, <2>2, Zenon DEF Bus
    <2>4. Steady(bus)
        BY <2>1 DEF Steady
    <2>5. requested \in BOOLEAN /\ enabled \in BOOLEAN
        BY Zenon DEF SpiInit
    <2>6. SpiTypeOK
        BY <2>3, <2>5 DEF SpiInit, SpiTypeOK, BAT_AD_INPUT
    <2>7. Owned
        BY <2>1 DEF SpiInit, Owned
    <2>8. SampledAsAsked
        BY Zenon DEF SpiInit, SampledAsAsked
    <2> QED
        BY <2>4, <2>6, <2>7, <2>8, Zenon DEF SpiInv
<1>2. SpiInv /\ [SpiNext]_spiVars => SpiInv'
    <2>1. ASSUME SpiInv, UNCHANGED spiVars PROVE SpiInv'
        BY <2>1 DEF spiVars, convVars, SpiInv, SpiTypeOK, Owned, Steady, SampledAsAsked
    <2> QED
        BY <2>1, InitKeepsSpiInv, WriteKeepsSpiInv, VoltageKeepsSpiInv, Zenon DEF SpiNext
<1> QED
    BY <1>1, <1>2, PTL DEF SpiSpec

(* OutputsKnown for every set of outputs and of panel commands: what the   *)
(* HC595 drives is the program's copy, or what the loss of the master left *)
(* there.                                                                  *)
THEOREM OutputsAccountedFor == SpiSpec => []OutputsKnown
<1>1. SpiInv => OutputsKnown
    BY Zenon DEF SpiInv, Steady, OutputsKnown
<1> QED
    BY <1>1, AlwaysSpiInv, PTL

(* SampledAsAsked for every set of outputs and of panel commands: the misc *)
(* command can set every bit of the shared word, the select lines and the  *)
(* RTC cell's switch included, and each conversion is still of the channel *)
(* it asked for.                                                           *)
THEOREM ConversionsAreRouted == SpiSpec => []SampledAsAsked
<1>1. SpiInv => SampledAsAsked
    BY Zenon DEF SpiInv
<1> QED
    BY <1>1, AlwaysSpiInv, PTL

(* PanelHears for every set of outputs and of panel commands: no word of   *)
(* the HC595 reaches the panel.                                            *)
THEOREM PanelUndisturbed == SpiSpec => []PanelHears
<1>1. SpiInv => PanelHears
    BY Zenon DEF SpiInv, Steady, PanelHears
<1> QED
    BY <1>1, AlwaysSpiInv, PTL

-------------------------------------------------------------------------------
(* The battery.  calc_adc_voltage's loop is a recursive function; what it  *)
(* leaves after its passes is shown by the least number of passes for      *)
(* which it would not.                                                     *)

(* A non-empty set of natural numbers has a least element.                 *)
LEMMA LeastNat ==
    ASSUME NEW S \in SUBSET Nat, S # {}
    PROVE  \E x \in S : \A y \in S : x <= y
<1>1. PICK x \in S : \A y \in S : ~(<<y, x>> \in OpToRel(<, Nat))
    BY WFMin, NatLessThanWellFounded, Zenon
<1>2. \A y \in S : ~(y < x)
    <2>1. \A y \in S : y < x => <<y, x>> \in {ss \in Nat \X Nat : ss[1] < ss[2]}
        OBVIOUS
    <2> QED
        BY <1>1, <2>1, Zenon DEF OpToRel
<1> QED
    BY <1>2

(* Samples have twelve bits.                                               *)
LEMMA AdcFacts == /\ \A v \in AdcValues : v \in Nat /\ v < 4096
                  /\ USHRT_MAX \in Nat /\ USHRT_MAX >= 4096
    BY DEF AdcValues, USHRT_MAX

(* The loop stops at the first 0 or at the end of the buffer.              *)
LEMMA TakenFacts ==
    ASSUME NEW buf \in Seq(AdcValues)
    PROVE  Taken(buf) \in 0 .. Len(buf) /\ \A i \in 1 .. Taken(buf) : buf[i] # 0
<1> DEFINE Z == {i \in 1 .. Len(buf) + 1 : i = Len(buf) + 1 \/ buf[i] = 0}
<1>0. Len(buf) \in Nat
    OBVIOUS
<1>1. PICK z \in Z : \A y \in Z : z <= y
    <2>1. Z \in SUBSET Nat /\ Len(buf) + 1 \in Z
        BY <1>0
    <2> HIDE DEF Z
    <2> QED BY <2>1, LeastNat, Zenon
<1>2. /\ z - 1 \in 0 .. Len(buf)
      /\ \A i \in 1 .. z - 1 : buf[i] # 0
      /\ z - 1 = Len(buf) \/ buf[(z - 1) + 1] = 0
    BY <1>0, <1>1
<1> DEFINE P(n) == /\ \A i \in 1 .. n : buf[i] # 0
                   /\ n = Len(buf) \/ buf[n + 1] = 0
<1>3. Taken(buf) = CHOOSE n \in 0 .. Len(buf) : P(n)
    BY Zenon DEF Taken
<1>4. P(z - 1)
    BY <1>2, Zenon
<1> HIDE DEF P
<1>5. Taken(buf) \in 0 .. Len(buf) /\ P(Taken(buf))
    BY <1>2, <1>3, <1>4, Zenon
<1> QED
    BY <1>5, Zenon DEF P

(* What the loop starts with, what one of its passes does, and what it     *)
(* leaves after each of the first m.                                       *)
Start == [max |-> 0, min |-> USHRT_MAX, sum |-> 0]

Pass(r, x) == [max |-> IF r.max > x THEN r.max ELSE x,
               min |-> IF r.min < x THEN r.min ELSE x,
               sum |-> r.sum + x]

States == [max : Nat, min : Nat, sum : Nat]

Runs(buf, m) ==
    {g \in [0 .. m -> States] :
        \A k \in 0 .. m : g[k] = IF k = 0 THEN Start ELSE Pass(g[k - 1], buf[k])}

(* A pass keeps the types.                                                 *)
LEMMA PassType ==
    ASSUME NEW r \in States, NEW x \in AdcValues
    PROVE  Pass(r, x) \in States /\ Start \in States
<1>1. Start \in States
    BY AdcFacts DEF States, Start
<1>2. r.max \in Nat /\ r.min \in Nat /\ r.sum \in Nat
    BY Zenon DEF States
<1>3. /\ (IF r.max > x THEN r.max ELSE x) \in Nat
      /\ (IF r.min < x THEN r.min ELSE x) \in Nat
      /\ r.sum + x \in Nat
    BY <1>2, AdcFacts
<1> QED BY <1>1, <1>3 DEF States, Pass

(* One pass more.                                                          *)
LEMMA RunsFurther ==
    ASSUME NEW buf \in Seq(AdcValues), NEW m \in 1 .. Len(buf), NEW g \in Runs(buf, m - 1)
    PROVE  \E h : h \in Runs(buf, m)
<1> DEFINE h == [k \in 0 .. m |-> IF k = m THEN Pass(g[m - 1], buf[m]) ELSE g[k]]
<1>0. m \in Nat /\ m - 1 \in 0 .. m - 1 /\ m # 0 /\ m - 1 \in 0 .. m /\ m - 1 # m
    OBVIOUS
<1>1. /\ g \in [0 .. m - 1 -> States]
      /\ \A k \in 0 .. m - 1 : g[k] = IF k = 0 THEN Start ELSE Pass(g[k - 1], buf[k])
    BY Zenon DEF Runs
<1>2. Pass(g[m - 1], buf[m]) \in States
    <2>1. buf[m] \in AdcValues /\ g[m - 1] \in States
        BY <1>0, <1>1
    <2> QED BY <2>1, PassType, Zenon
<1>3. \A k \in 0 .. m :
        k # m => k \in 0 .. m - 1 /\ (k # 0 => k - 1 \in 0 .. m /\ k - 1 # m)
    BY <1>0
<1>4. h \in [0 .. m -> States]
    BY <1>1, <1>2, <1>3, Zenon
<1>5. ASSUME NEW k \in 0 .. m
      PROVE  h[k] = IF k = 0 THEN Start ELSE Pass(h[k - 1], buf[k])
    <2>1. CASE k = m
        <3>1. h[k - 1] = g[m - 1] /\ h[k] = Pass(g[m - 1], buf[m])
            BY <1>0, <2>1, Zenon
        <3> HIDE DEF h
        <3> QED BY <1>0, <2>1, <3>1, Zenon
    <2>2. CASE k # m
        <3>1. h[k] = g[k] /\ (k # 0 => h[k - 1] = g[k - 1])
            BY <1>3, <2>2, Zenon
        <3>2. g[k] = IF k = 0 THEN Start ELSE Pass(g[k - 1], buf[k])
            BY <1>1, <1>3, <2>2, Zenon
        <3> HIDE DEF h
        <3> QED BY <3>1, <3>2, Zenon
    <2> QED BY <2>1, <2>2, Zenon
<1> HIDE DEF h
<1>6. h \in Runs(buf, m)
    BY <1>4, <1>5, Zenon DEF Runs
<1> QED BY <1>6, Zenon

(* The loop runs to the end of every buffer: by the least number of passes *)
(* it could not make.                                                      *)
LEMMA RunsToTheEnd ==
    ASSUME NEW buf \in Seq(AdcValues)
    PROVE  Runs(buf, Len(buf)) # {}
<1> DEFINE Short == {m \in 0 .. Len(buf) : Runs(buf, m) = {}}
<1>0. Len(buf) \in Nat
    OBVIOUS
<1>1. SUFFICES ASSUME Short # {} PROVE FALSE
    BY <1>0
<1>2. PICK m \in Short : \A y \in Short : m <= y
    <2>1. Short \in SUBSET Nat
        BY <1>0
    <2> HIDE DEF Short
    <2> QED BY <1>1, <2>1, LeastNat, Zenon
<1>3. m \in 0 .. Len(buf) /\ Runs(buf, m) = {}
    OBVIOUS
<1>4. CASE m = 0
    <2> DEFINE g == [k \in 0 .. 0 |-> Start]
    <2>1. Start \in States
        BY AdcFacts DEF States, Start
    <2>2. g \in Runs(buf, 0)
        BY <2>1 DEF Runs
    <2> HIDE DEF g
    <2> QED BY <1>3, <1>4, <2>2
<1>5. CASE m # 0
    <2>1. m \in 1 .. Len(buf) /\ m - 1 \in 0 .. Len(buf) /\ ~(m <= m - 1)
        BY <1>0, <1>3, <1>5
    <2>2. Runs(buf, m - 1) # {}
        <3>1. m - 1 \notin Short
            BY <1>2, <2>1, Zenon
        <3> QED BY <2>1, <3>1, Zenon
    <2> QED BY <1>3, <2>1, <2>2, RunsFurther
<1> QED BY <1>4, <1>5, Zenon

(* So Running is what the recursion says.                                  *)
LEMMA RunningIs ==
    ASSUME NEW buf \in Seq(AdcValues)
    PROVE  /\ \A n \in 0 .. Len(buf) : Running(buf)[n] =
                IF n = 0 THEN Start ELSE Pass(Running(buf)[n - 1], buf[n])
<1> DEFINE P(f) == f = [n \in 0 .. Len(buf) |->
                          IF n = 0 THEN Start ELSE Pass(f[n - 1], buf[n])]
<1>1. PICK g : g \in Runs(buf, Len(buf))
    BY RunsToTheEnd, Zenon
<1>2. P(g)
    BY <1>1, Zenon DEF Runs
<1>3. Running(buf) = CHOOSE f : P(f)
    BY Zenon DEF Running, Start, Pass
<1> HIDE DEF P
<1>4. P(Running(buf))
    BY <1>2, <1>3, Zenon
<1> QED BY <1>4, Zenon DEF P

(* The sum without the extremes lies between n of the smallest and n of    *)
(* the largest.                                                            *)
Middling(n, r) == /\ r.min <= r.max
                  /\ n * r.min <= r.sum - r.max - r.min
                  /\ r.sum - r.max - r.min <= n * r.max

(* A pass keeps it so, whatever the sample.                                *)
LEMMA MeanStep ==
    ASSUME NEW a \in Int, a >= -1, NEW r \in States, NEW x \in AdcValues, Middling(a, r)
    PROVE  Middling(a + 1, Pass(r, x))
<1> DEFINE lo == r.min
           hi == r.max
           sum == r.sum
           lo2 == Pass(r, x).min
           hi2 == Pass(r, x).max
<1>a. lo \in Nat /\ hi \in Nat /\ sum \in Nat /\ x \in Nat
    BY AdcFacts DEF States
<1>b. lo <= hi /\ a * lo <= sum - hi - lo /\ sum - hi - lo <= a * hi
    BY Zenon DEF Middling
<1>c. /\ hi2 = IF hi > x THEN hi ELSE x
      /\ lo2 = IF lo < x THEN lo ELSE x
      /\ Pass(r, x).sum = sum + x
    BY Zenon DEF Pass
<1>d. SUFFICES /\ lo2 <= hi2
               /\ (a + 1) * lo2 <= (sum + x) - hi2 - lo2
               /\ (sum + x) - hi2 - lo2 <= (a + 1) * hi2
    BY <1>c, Zenon DEF Middling
<1> HIDE DEF lo, hi, sum, lo2, hi2
<1> DEFINE b == a + 1
<1>1. b \in Nat /\ b * lo = a * lo + lo /\ b * hi = a * hi + hi
    BY <1>a
<1>2. x <= lo => b * x <= b * lo
    BY <1>1, <1>a
<1>3. hi <= x => b * hi <= b * x
    BY <1>1, <1>a
<1> DEFINE bl == b * lo
           bh == b * hi
           bx == b * x
           al == a * lo
           ah == a * hi
<1>4. bl \in Int /\ bh \in Int /\ bx \in Int /\ al \in Int /\ ah \in Int
    BY <1>1, <1>a
<1>5. /\ bl = al + lo /\ bh = ah + hi /\ (x <= lo => bx <= bl) /\ (hi <= x => bh <= bx)
      /\ al <= sum - hi - lo /\ sum - hi - lo <= ah
    BY <1>1, <1>2, <1>3, <1>b, Zenon
<1>6. CASE hi > x /\ lo < x
    <2>1. hi2 = hi /\ lo2 = lo
        BY <1>6, <1>a, <1>b, <1>c, Zenon
    <2> HIDE DEF bl, bh, bx, al, ah
    <2>2. bl <= (sum + x) - hi - lo /\ (sum + x) - hi - lo <= bh
        BY <1>4, <1>5, <1>a, <1>b, <1>6
    <2> QED BY <1>b, <2>1, <2>2, Zenon DEF bl, bh
<1>7. CASE ~(hi > x) /\ lo < x
    <2>1. hi2 = x /\ lo2 = lo
        BY <1>7, <1>a, <1>b, <1>c, Zenon
    <2> HIDE DEF bl, bh, bx, al, ah
    <2>2. lo <= x /\ bl <= (sum + x) - x - lo /\ (sum + x) - x - lo <= bx
        BY <1>4, <1>5, <1>a, <1>b, <1>7
    <2> QED BY <2>1, <2>2, Zenon DEF bl, bx
<1>8. CASE hi > x /\ ~(lo < x)
    <2>1. hi2 = hi /\ lo2 = x
        BY <1>8, <1>a, <1>b, <1>c, Zenon
    <2> HIDE DEF bl, bh, bx, al, ah
    <2>2. x <= hi /\ bx <= (sum + x) - hi - x /\ (sum + x) - hi - x <= bh
        BY <1>4, <1>5, <1>a, <1>b, <1>8
    <2> QED BY <2>1, <2>2, Zenon DEF bh, bx
<1>9. CASE ~(hi > x) /\ ~(lo < x)
    <2>1. hi2 = x /\ lo2 = x /\ lo = x /\ hi = x
        BY <1>9, <1>a, <1>b, <1>c
    <2> HIDE DEF bl, bh, bx, al, ah
    <2>2. x <= x /\ bx <= (sum + x) - x - x /\ (sum + x) - x - x <= bx
        BY <1>4, <1>5, <1>a, <1>b, <1>9, <2>1
    <2> QED BY <2>1, <2>2, Zenon DEF bx
<1> QED BY <1>6, <1>7, <1>8, <1>9, Zenon

(* After n passes, the extremes are samples, and the sum without them is   *)
(* between n - 2 of the smallest and n - 2 of the largest.                 *)
Bounded(buf, n) ==
    LET r == Running(buf)[n] IN
    /\ r \in States /\ Middling(n - 2, r)
    /\ \E i, j \in 1 .. n : r.min = buf[i] /\ r.max = buf[j]

(* By the least number of passes for which it would not hold.              *)
LEMMA MeanBounded ==
    ASSUME NEW buf \in Seq(AdcValues), NEW n \in 1 .. Len(buf)
    PROVE  Bounded(buf, n)
<1> DEFINE Wrong == {m \in 1 .. Len(buf) : ~Bounded(buf, m)}
<1>0. Len(buf) \in Nat /\ \A k \in 1 .. Len(buf) : buf[k] \in AdcValues
    OBVIOUS
<1>1. SUFFICES ASSUME Wrong # {} PROVE FALSE
    OBVIOUS
<1>2. PICK m \in Wrong : \A y \in Wrong : m <= y
    <2>1. Wrong \in SUBSET Nat
        BY <1>0
    <2> HIDE DEF Wrong
    <2> QED BY <1>1, <2>1, LeastNat, Zenon
<1>3. m \in 1 .. Len(buf) /\ ~Bounded(buf, m) /\ m \in 0 .. Len(buf) /\ m \in Nat
    BY <1>0
<1> DEFINE x == buf[m]
           r == Running(buf)[m - 1]
           q == Running(buf)[m]
<1>4. x \in AdcValues /\ x \in Nat /\ x < USHRT_MAX
    BY <1>0, <1>3, AdcFacts
<1>5. q = Pass(r, x)
    BY <1>3, RunningIs
<1>6. CASE m = 1
    <2>1. r = Start
        BY <1>0, <1>3, <1>6, RunningIs
    <2>2. q = [max |-> x, min |-> x, sum |-> x]
        <3>1. Start.max = 0 /\ Start.min = USHRT_MAX /\ Start.sum = 0
            BY Zenon DEF Start
        <3>2. /\ (IF 0 > x THEN 0 ELSE x) = x /\ 0 + x = x
              /\ (IF USHRT_MAX < x THEN USHRT_MAX ELSE x) = x
            BY <1>4, AdcFacts
        <3> QED BY <1>5, <2>1, <3>1, <3>2, Zenon DEF Pass
    <2> HIDE DEF q, x
    <2>3. /\ q \in States /\ q.min = x /\ q.max = x /\ q.sum = x
        BY <1>4, <2>2, Zenon DEF States
    <2>4. (1 - 2) * x = 0 - x /\ x - x - x = 0 - x /\ 0 - x <= 0 - x /\ x <= x
        BY <1>4
    <2>5. 1 \in 1 .. 1 /\ x = buf[1]
        BY <1>6 DEF x
    <2>6. Bounded(buf, 1)
        <3>1. Middling(1 - 2, q)
            BY <2>3, <2>4, Zenon DEF Middling
        <3> QED BY <1>6, <2>3, <2>5, <3>1, Zenon DEF Bounded, q
    <2> QED BY <1>3, <1>6, <2>6, Zenon
<1>7. CASE m # 1
    <2>1. m - 1 \in 1 .. Len(buf) /\ ~(m <= m - 1)
        BY <1>0, <1>3, <1>7
    <2>2. Bounded(buf, m - 1)
        <3>1. m - 1 \notin Wrong
            BY <1>2, <2>1, Zenon
        <3> QED BY <2>1, <3>1, Zenon
    <2>3. /\ r \in States /\ Middling((m - 1) - 2, r)
          /\ \E i, j \in 1 .. m - 1 : r.min = buf[i] /\ r.max = buf[j]
        BY <2>2, Zenon DEF Bounded
    <2> HIDE DEF q, r, x
    <2>5. /\ q.max = (IF r.max > x THEN r.max ELSE x)
          /\ q.min = (IF r.min < x THEN r.min ELSE x)
          /\ q \in States
        BY <1>4, <1>5, <2>3, PassType, Zenon DEF Pass
    <2>6. (m - 1) - 2 \in Int /\ (m - 1) - 2 >= -1 /\ ((m - 1) - 2) + 1 = m - 2
        BY <1>3, <1>7
    <2>7. Middling(m - 2, q)
        <3>1. Middling(((m - 1) - 2) + 1, Pass(r, x))
            BY <1>4, <2>3, <2>6, MeanStep, Zenon
        <3> QED BY <1>5, <2>6, <3>1, Zenon
    <2>8. \E i, j \in 1 .. m : q.min = buf[i] /\ q.max = buf[j]
        <3>1. PICK i \in 1 .. m - 1, j \in 1 .. m - 1 : r.min = buf[i] /\ r.max = buf[j]
            BY <2>3, Zenon
        <3>2. i \in 1 .. m /\ j \in 1 .. m /\ m \in 1 .. m
            BY <1>3
        <3> QED BY <2>5, <3>1, <3>2, Zenon DEF x
    <2>9. Bounded(buf, m)
        BY <2>5, <2>7, <2>8, Zenon DEF Bounded, q
    <2> QED BY <1>3, <2>9, Zenon
<1> QED BY <1>6, <1>7, Zenon

(* A quotient lies where its numerator does.                               *)
LEMMA Quotient ==
    ASSUME NEW d \in Int, NEW k \in Nat \ {0}, NEW lo \in Nat, NEW hi \in Nat,
           k * lo <= d, d <= k * hi
    PROVE  d \div k \in Nat /\ lo <= d \div k /\ d \div k <= hi
<1> DEFINE q == d \div k
<1>1. q \in Int /\ k * q <= d /\ d < k * (q + 1)
    OBVIOUS
<1> HIDE DEF q
<1>2. lo <= q
    <2>1. SUFFICES ASSUME q + 1 <= lo PROVE FALSE
        BY <1>1
    <2>2. k * (q + 1) <= k * lo
        BY <1>1, <2>1
    <2> QED BY <1>1, <2>2
<1>3. q <= hi
    <2>1. SUFFICES ASSUME hi + 1 <= q PROVE FALSE
        BY <1>1
    <2>2. k * (hi + 1) <= k * q /\ k * (hi + 1) = k * hi + k
        BY <1>1, <2>1
    <2> QED BY <1>1, <2>2
<1> QED BY <1>1, <1>2, <1>3 DEF q

(* Scaling keeps the order, and a sample scales to at most 13.37 V.        *)
LEMMA ScaledMonotone ==
    ASSUME NEW y \in Nat, NEW z \in Nat, y <= z
    PROVE  Scaled(y) \in Nat /\ Scaled(y) <= Scaled(z)
BY DEF Scaled

(* The same, for the largest sample.                                       *)
LEMMA ScaledRange ==
    ASSUME NEW y \in Nat, y < 4096
    PROVE  Scaled(y) \in Voltages
<1>1. Scaled(y) \in Nat /\ Scaled(y) <= 1337
    BY DEF Scaled
<1> QED BY <1>1 DEF Voltages

(* Voltages are natural numbers.                                           *)
LEMMA VoltageFacts == 0 \in Voltages /\ \A v \in Voltages : v \in Nat
BY DEF Voltages

(* The voltage lies between those of two of the samples taken.             *)
LEMMA VoltageBetween ==
    ASSUME NEW buf \in Seq(AdcValues)
    PROVE  /\ calc_adc_voltage(buf) \in Voltages
           /\ Taken(buf) >= 4 =>
                \E i, j \in 1 .. Taken(buf) :
                    /\ Scaled(buf[i]) <= calc_adc_voltage(buf)
                    /\ calc_adc_voltage(buf) <= Scaled(buf[j])
<1> DEFINE n == Taken(buf)
           r == Running(buf)[n]
           d == r.sum - r.max - r.min
<1>1. n \in 0 .. Len(buf) /\ Len(buf) \in Nat /\ n \in Nat
    BY TakenFacts
<1>2. CASE n < 4
    <2>1. calc_adc_voltage(buf) = 0
        BY <1>2, Zenon DEF calc_adc_voltage
    <2> QED BY <1>1, <1>2, <2>1, VoltageFacts
<1>3. CASE n >= 4
    <2>1. calc_adc_voltage(buf) = Scaled(d \div (n - 2))
        BY <1>1, <1>3 DEF calc_adc_voltage
    <2>2. n \in 1 .. Len(buf) /\ n - 2 \in Nat \ {0}
        BY <1>1, <1>3
    <2>3. Bounded(buf, n)
        BY <2>2, MeanBounded, Zenon
    <2>4. /\ r \in States /\ Middling(n - 2, r)
          /\ \E i, j \in 1 .. n : r.min = buf[i] /\ r.max = buf[j]
        BY <2>3, Zenon DEF Bounded
    <2>5. PICK i \in 1 .. n, j \in 1 .. n : r.min = buf[i] /\ r.max = buf[j]
        BY <2>4, Zenon
    <2>6. buf[j] \in AdcValues
        BY <1>1, <2>2
    <2> HIDE DEF r, n
    <2>7. r.min \in Nat /\ r.max \in Nat /\ r.sum \in Nat
        BY <2>4, Zenon DEF States
    <2>8. d \in Int /\ (n - 2) * r.min <= d /\ d <= (n - 2) * r.max
        BY <2>4, <2>7 DEF Middling
    <2> HIDE DEF d
    <2>9. d \div (n - 2) \in Nat /\ r.min <= d \div (n - 2) /\ d \div (n - 2) <= r.max
        BY <2>2, <2>7, <2>8, Quotient, Zenon
    <2> DEFINE mean == d \div (n - 2)
    <2>10. mean \in Nat /\ r.min <= mean /\ mean <= r.max
        BY <2>9
    <2> HIDE DEF mean
    <2>11. r.max < 4096
        BY <2>5, <2>6, AdcFacts
    <2>12. /\ Scaled(mean) \in Voltages
           /\ Scaled(r.min) <= Scaled(mean) /\ Scaled(mean) <= Scaled(r.max)
        <3>1. mean < 4096
            BY <2>7, <2>10, <2>11
        <3>2. Scaled(mean) \in Voltages
            BY <2>10, <3>1, ScaledRange
        <3>3. Scaled(r.min) <= Scaled(mean)
            BY <2>7, <2>10, ScaledMonotone, Zenon
        <3>4. Scaled(mean) <= Scaled(r.max)
            BY <2>7, <2>10, ScaledMonotone, Zenon
        <3> QED BY <3>2, <3>3, <3>4, Zenon
    <2>13. calc_adc_voltage(buf) = Scaled(mean)
        BY <2>1, Zenon DEF mean, n, d, r
    <2> QED BY <2>5, <2>12, <2>13, Zenon DEF n
<1> QED BY <1>1, <1>2, <1>3

-------------------------------------------------------------------------------
(* What battery_level_confirm answers.                                     *)
LEMMA Levels ==
    ASSUME NEW v \in Nat
    PROVE  LET lev == battery_level_confirm(v) IN
           /\ lev \in 1 .. 5
           /\ v < 608 <=> lev = 5
           /\ v > 820 <=> lev = 1
           /\ v > 770 /\ v <= 820 => lev = 2
           /\ v > 750 /\ v < 770 => lev = 3
BY DEF battery_level_confirm, Within,
       BAT_LEVEL1, BAT_LEVEL2, BAT_LEVEL3, BAT_LEVEL4, BAT_LEVEL5,
       BAT_DIS_LEVEL1_LOW, BAT_DIS_LEVEL1_HIG, BAT_DIS_LEVEL2_LOW, BAT_DIS_LEVEL2_HIG,
       BAT_DIS_LEVEL3_LOW, BAT_DIS_LEVEL3_HIG, BAT_DIS_LEVEL4_LOW, BAT_DIS_LEVEL4_HIG

(* The remainder of a counter that is counted down.                        *)
LEMMA Remainder ==
    ASSUME NEW lev \in 2 .. 4, NEW c \in Nat \ {0}
    PROVE  /\ c % lev \in 0 .. lev - 1
           /\ (c - 1) % lev = IF c % lev = 0 THEN lev - 1 ELSE (c % lev) - 1
           /\ c = 1 => c % lev = 1
<1>1. CASE lev = 2
    BY <1>1
<1>2. CASE lev = 3
    BY <1>2
<1>3. CASE lev = 4
    BY <1>3
<1> QED BY <1>1, <1>2, <1>3

(* What is on the screen is what the counter says, once the battery is in  *)
(* one of the animated levels.                                             *)
Animated == level \in 2 .. 4 => bars = 3 - (counter % level)

(* Both, and what the runs check.                                          *)
BatteryInv == BatteryTypeOK /\ VoltageWithinSamples /\ BarsMatchVoltage /\ Animated

(* A display leaves the bars that the level and the counter ask for.       *)
LEMMA Displayed ==
    ASSUME BatteryTypeOK, NEW vol \in Nat, battery_icon_display(vol)
    PROVE  /\ level' \in 1 .. 5 /\ counter' \in 1 .. COUNTER
           /\ icon' \in 0 .. 4 /\ bars' \in 0 .. 3
           /\ level' = battery_level_confirm(vol)
           /\ level' = 5 => bars' = 0
           /\ level' = 1 => bars' = 3
           /\ level' \in 2 .. 4 => Decrement /\ bars' = 3 - (counter' % level')
<1>1. level' = battery_level_confirm(vol) /\ battery_dis_level(level') /\ level' \in 1 .. 5
    BY Levels DEF battery_icon_display
<1>2. counter \in 1 .. COUNTER /\ bars \in 0 .. 3 /\ COUNTER \in Nat \ {0}
    BY LoopsAssumption, Zenon DEF BatteryTypeOK
<1>3. CASE level' = 1
    <2>1. icon' = 4 /\ bars' = 3 /\ counter' = counter
        BY <1>1, <1>3 DEF battery_dis_level, BAT_LEVEL5, tft_display_battery_icon, Bars
    <2> QED BY <1>1, <1>2, <1>3, <2>1
<1>4. CASE level' = 5
    <2>1. icon' = 0 /\ bars' = 0 /\ counter' = counter
        BY <1>1, <1>4
        DEF battery_dis_level, BAT_LEVEL5, BAT_LEVEL1, tft_display_battery_icon, Bars
    <2> QED BY <1>1, <1>2, <1>4, <2>1
<1>5. CASE level' \in 2 .. 4
    <2>1. Decrement /\ tft_display_battery_icon(3 - (counter' % level'), 0)
        BY <1>1, <1>5 DEF battery_dis_level, BAT_LEVEL5, BAT_LEVEL1
    <2>2. counter' \in 1 .. COUNTER
        BY <1>2, <2>1 DEF Decrement
    <2> DEFINE m == counter' % level'
    <2>3. m \in 0 .. 3
        <3>1. counter' \in Nat \ {0}
            BY <1>2, <2>2
        <3>2. m \in 0 .. level' - 1
            BY <1>5, <3>1, Remainder, Zenon
        <3> QED BY <1>5, <3>2
    <2> HIDE DEF m
    <2>4. icon' = 3 - m /\ bars' = 3 - m
        <3>1. /\ icon' = 3 - m
              /\ bars' = IF Bars(3 - m) # 0 /\ 0 > Bars(3 - m) THEN 0 ELSE Bars(3 - m)
            BY <2>1, Zenon DEF tft_display_battery_icon, m
        <3>2. Bars(3 - m) = 3 - m
            BY <2>3 DEF Bars
        <3> QED BY <2>3, <3>1, <3>2
    <2> QED BY <1>1, <1>5, <2>1, <2>2, <2>3, <2>4 DEF m
<1> QED BY <1>1, <1>3, <1>4, <1>5

(* Every cycle of the manager keeps them.                                  *)
LEMMA ManagerKeepsInv ==
    ASSUME BatteryInv, NEW c \in Conversions, hfc_battery_manager(c)
    PROVE  BatteryInv'
<1>1. /\ c \in Seq(AdcValues) /\ adc_buf' = c /\ bat_voltage' = calc_adc_voltage(c)
    BY ConversionAssumption, Zenon DEF hfc_battery_manager
<1>2. bat_voltage' \in Voltages /\ VoltageWithinSamples'
    BY <1>1, VoltageBetween, Zenon DEF VoltageWithinSamples
<1>3. bat_loop \in 0 .. BAT_LOOPS /\ BAT_LOOPS \in Nat /\ BatteryTypeOK
    BY LoopsAssumption, Zenon DEF BatteryInv, BatteryTypeOK
<1>4. CASE /\ bat_loop + 1 > BAT_LOOPS /\ bat_loop' = 0 /\ battery_icon_display(bat_voltage')
    <2>1. bat_voltage' \in Nat
        BY <1>2, VoltageFacts, Zenon
    <2>2. /\ level' \in 1 .. 5 /\ counter' \in 1 .. COUNTER
          /\ icon' \in 0 .. 4 /\ bars' \in 0 .. 3
          /\ level' = battery_level_confirm(bat_voltage')
          /\ level' = 5 => bars' = 0
          /\ level' = 1 => bars' = 3
          /\ level' \in 2 .. 4 => bars' = 3 - (counter' % level')
        BY <1>3, <1>4, <2>1, Displayed, Zenon
    <2>3. BatteryTypeOK'
        <3>1. bat_loop' \in 0 .. BAT_LOOPS /\ level' \in 0 .. 5
            BY <1>3, <1>4, <2>2
        <3> QED BY <1>1, <1>2, <2>2, <3>1, Zenon DEF BatteryTypeOK
    <2>4. BarsMatchVoltage'
        <3> DEFINE v == bat_voltage'
        <3>1. /\ v < 608 => level' = 5
              /\ v > 820 => level' = 1
              /\ v > 770 /\ v <= 820 => level' = 2
              /\ v > 750 /\ v < 770 => level' = 3
            BY <2>1, <2>2, Levels
        <3>2. ASSUME level' \in 2 .. 4
              PROVE  bars' >= 4 - level'
            <4>1. counter' \in Nat \ {0} /\ bars' = 3 - (counter' % level')
                BY <2>2, <3>2, LoopsAssumption
            <4>2. counter' % level' \in 0 .. level' - 1
                BY <3>2, <4>1, Remainder, Zenon
            <4> QED BY <3>2, <4>1, <4>2
        <3>3. (level' = 2 => bars' >= 2) /\ (level' = 3 => bars' >= 1)
            BY <3>2
        <3>4. /\ v < 608 => bars' = 0
              /\ v > 750 /\ v # 770 => bars' >= 1
              /\ v > 770 => bars' >= 2
              /\ v > 820 => bars' = 3
            BY <2>1, <2>2, <3>1, <3>3
        <3> QED BY <3>4, Zenon DEF BarsMatchVoltage
    <2> QED BY <1>2, <2>2, <2>3, <2>4, Zenon DEF BatteryInv, Animated
<1>5. CASE /\ bat_loop + 1 <= BAT_LOOPS /\ bat_loop' = bat_loop + 1
           /\ UNCHANGED <<level, counter, icon, bars>>
    <2>1. bat_loop' \in 0 .. BAT_LOOPS /\ bat_loop' # 0
        BY <1>3, <1>5
    <2>2. BatteryTypeOK'
        BY <1>1, <1>2, <1>3, <1>5, <2>1, Zenon DEF BatteryTypeOK
    <2>3. Animated'
        BY <1>5, Zenon DEF BatteryInv, Animated
    <2> QED BY <1>2, <2>1, <2>2, <2>3, Zenon DEF BatteryInv, BarsMatchVoltage
<1> QED BY <1>4, <1>5, Zenon DEF hfc_battery_manager

(* The board starts in it and keeps it.                                    *)
LEMMA AlwaysBatteryInv == BatterySpec => []BatteryInv
<1>1. BatteryInit => BatteryInv
    <2> SUFFICES ASSUME BatteryInit PROVE BatteryInv
        OBVIOUS
    <2>1. BatteryTypeOK
        <3>1. /\ 0 \in 0 .. BAT_LOOPS /\ COUNTER \in 1 .. COUNTER
              /\ 0 \in 0 .. 5 /\ 0 \in 0 .. 4 /\ 0 \in 0 .. 3
            BY LoopsAssumption
        <3> QED BY <3>1, VoltageFacts, Zenon DEF BatteryInit, BatteryTypeOK
    <2>2. VoltageWithinSamples
        <3>1. adc_buf = << >> /\ adc_buf \in Seq(AdcValues) /\ Len(adc_buf) = 0
            BY DEF BatteryInit
        <3>2. Taken(adc_buf) \in 0 .. Len(adc_buf)
            BY <3>1, TakenFacts, Zenon
        <3>3. ~(Taken(adc_buf) >= 4)
            BY <3>1, <3>2
        <3> QED BY <3>3, Zenon DEF VoltageWithinSamples
    <2>3. level = 0 /\ ~(0 \in 2 .. 4)
        BY DEF BatteryInit
    <2> QED BY <2>1, <2>2, <2>3, Zenon DEF BatteryInv, BarsMatchVoltage, Animated
<1>2. BatteryInv /\ [BatteryNext]_batteryVars => BatteryInv'
    <2>1. ASSUME BatteryInv, UNCHANGED batteryVars PROVE BatteryInv'
        <3>1. /\ adc_buf' = adc_buf /\ bat_voltage' = bat_voltage /\ bat_loop' = bat_loop
              /\ level' = level /\ counter' = counter /\ icon' = icon /\ bars' = bars
            BY <2>1, Zenon DEF batteryVars
        <3>2. BatteryTypeOK' /\ VoltageWithinSamples' /\ Animated'
            BY <2>1, <3>1, Zenon DEF BatteryInv, BatteryTypeOK, VoltageWithinSamples, Animated
        <3>3. BarsMatchVoltage'
            BY <2>1, <3>1 DEF BatteryInv, BarsMatchVoltage
        <3> QED BY <3>2, <3>3, Zenon DEF BatteryInv
    <2> QED BY <2>1, ManagerKeepsInv, Zenon DEF BatteryNext
<1> QED BY <1>1, <1>2, PTL DEF BatterySpec

(* The battery's variables have their types, and the animation counter is  *)
(* never 0 when battery_dis_level divides by the level.                    *)
THEOREM BatteryTypeCorrect == BatterySpec => []BatteryTypeOK
<1>1. BatteryInv => BatteryTypeOK
    BY Zenon DEF BatteryInv
<1> QED BY <1>1, AlwaysBatteryInv, PTL

(* The voltage calc_adc_voltage answers lies between those of two of the   *)
(* samples it has taken, for every buffer the ADC can deliver.             *)
THEOREM VoltageIsMeasured == BatterySpec => []VoltageWithinSamples
<1>1. BatteryInv => VoltageWithinSamples
    BY Zenon DEF BatteryInv
<1> QED BY <1>1, AlwaysBatteryInv, PTL

(* The bars tell the voltage at every step of the animation, for every     *)
(* value the counter starts with.                                          *)
THEOREM BarsTellVoltage == BatterySpec => []BarsMatchVoltage
<1>1. BatteryInv => BarsMatchVoltage
    BY Zenon DEF BatteryInv
<1> QED BY <1>1, AlwaysBatteryInv, PTL

(* The counter starts at a multiple of every level it is divided by, as    *)
(* 120 is in battery_dis_level.                                            *)
WholeRounds == \A lev \in 2 .. 4 : COUNTER % lev = 0

(* The animation never jumps while the level stays the same, not even when *)
(* the counter is reloaded.                                                *)
THEOREM AnimationNeverJumps ==
    ASSUME WholeRounds
    PROVE  BatterySpec => AnimationSteps
<1>1. ASSUME BatteryInv, BatteryNext, counter' # counter, level' = level
      PROVE  bars' = IF bars = 3 THEN 4 - level ELSE bars + 1
    <2>1. PICK c \in Conversions : hfc_battery_manager(c)
        BY <1>1, Zenon DEF BatteryNext
    <2>2. battery_icon_display(bat_voltage')
        BY <1>1, <2>1, Zenon DEF hfc_battery_manager
    <2>3. bat_voltage' \in Nat
        <3>1. BatteryInv'
            BY <1>1, <2>1, ManagerKeepsInv, Zenon
        <3> QED BY <3>1, VoltageFacts, Zenon DEF BatteryInv, BatteryTypeOK
    <2>4. /\ level' \in 1 .. 5
          /\ level' \in 2 .. 4 => Decrement /\ bars' = 3 - (counter' % level')
        BY <1>1, <2>2, <2>3, Displayed, Zenon DEF BatteryInv
    <2>5. level' # 1 /\ level' # 5
        BY <1>1, <2>2, Zenon
        DEF battery_icon_display, battery_dis_level, BAT_LEVEL5, BAT_LEVEL1
    <2>6. level \in 2 .. 4
        BY <1>1, <2>4, <2>5
    <2>7. Decrement /\ bars' = 3 - (counter' % level) /\ bars = 3 - (counter % level)
        BY <1>1, <2>4, <2>6, Zenon DEF BatteryInv, Animated
    <2>8. counter \in Nat \ {0} /\ COUNTER % level = 0
        BY <1>1, <2>6, LoopsAssumption DEF BatteryInv, BatteryTypeOK, WholeRounds
    <2> DEFINE now == counter % level
               before == (counter - 1) % level
    <2>9. /\ now \in 0 .. level - 1
          /\ before = IF now = 0 THEN level - 1 ELSE now - 1
          /\ counter = 1 => now = 1
        BY <2>6, <2>8, Remainder, Zenon
    <2>10. counter' % level = IF counter - 1 = 0 THEN 0 ELSE before
        BY <2>7, <2>8, Zenon DEF Decrement
    <2> HIDE DEF now, before
    <2>11. counter' % level = IF now = 0 THEN level - 1 ELSE now - 1
        <3>1. CASE counter = 1
            BY <2>8, <2>9, <2>10, <3>1, Zenon
        <3>2. CASE counter # 1
            BY <2>8, <2>9, <2>10, <3>2
        <3> QED BY <3>1, <3>2, Zenon
    <2>12. bars = 3 - now
        BY <2>7, Zenon DEF now
    <2> DEFINE after == counter' % level
    <2>13. bars' = 3 - after /\ after = IF now = 0 THEN level - 1 ELSE now - 1
        BY <2>7, <2>11, Zenon
    <2> HIDE DEF after
    <2> QED BY <2>6, <2>9, <2>12, <2>13
<1>2. BatteryInv /\ [BatteryNext]_batteryVars =>
        [(counter' # counter /\ level' = level) =>
            bars' = IF bars = 3 THEN 4 - level ELSE bars + 1]_batteryVars
    BY <1>1, Zenon
<1> QED BY <1>2, AlwaysBatteryInv, PTL DEF BatterySpec, AnimationSteps

===============================================================================
