------------------------------- MODULE HfcBattery ------------------------------
(***************************************************************************)
(* What hfc_battery_manager makes of a conversion: the voltage             *)
(* (calc_adc_voltage in hfc_app/hfc_misc/hfc_misc.c), its level and the    *)
(* animated icon (hfc_app/hfc_battery/hfc_battery.c), and the bars on the  *)
(* screen (hfc_app/hfc_lcd/lcd_base.c).  Voltages are in 10 mV.            *)
(*                                                                         *)
(* The frame of the battery and the digits of the voltage are drawn        *)
(* without a decision and are left out.                                    *)
(***************************************************************************)
EXTENDS Integers, Sequences

CONSTANTS
    Conversions,       \* what the ADC can put into adc_buf: sequences of
                       \* 12-bit samples, 0 after the last one
    BAT_LOOPS,         \* bat_loop > 5
    COUNTER            \* the animation counter starts here (120)

IMX_ADC_FIFO_MAX == 16
USHRT_MAX == 65535     \* 0xFFFF

AdcValues == 0 .. 4095

ASSUME ConversionAssumption ==
    \A s \in Conversions : s \in Seq(AdcValues) /\ Len(s) <= IMX_ADC_FIFO_MAX

ASSUME LoopsAssumption == BAT_LOOPS \in Nat /\ COUNTER \in Nat \ {0}

BAT_DIS_LEVEL1_LOW == 608
BAT_DIS_LEVEL1_HIG == 729
BAT_DIS_LEVEL2_LOW == 731
BAT_DIS_LEVEL2_HIG == 749
BAT_DIS_LEVEL3_LOW == 751
BAT_DIS_LEVEL3_HIG == 769
BAT_DIS_LEVEL4_LOW == 771
BAT_DIS_LEVEL4_HIG == 820

BAT_LEVEL1 == 5
BAT_LEVEL2 == 4
BAT_LEVEL3 == 3
BAT_LEVEL4 == 2
BAT_LEVEL5 == 1

VARIABLES
    adc_buf,
    bat_voltage,
    bat_loop,
    level,
    counter,
    icon,          \* the argument of the last tft_display_battery_icon
    bars           \* the bars it left on the screen

batteryVars == <<adc_buf, bat_voltage, bat_loop, level, counter, icon, bars>>

-------------------------------------------------------------------------------
(* calc_adc_voltage: the mean of the samples before the first 0, without   *)
(* the largest and the smallest, scaled.                                   *)

(* How many samples the loop takes.                                        *)
Taken(buf) ==
    CHOOSE n \in 0 .. Len(buf) : /\ \A i \in 1 .. n : buf[i] # 0
                                 /\ n = Len(buf) \/ buf[n + 1] = 0

(* The loop's variables after each of its passes.                          *)
Running(buf) ==
    LET after[n \in 0 .. Len(buf)] ==
          IF n = 0 THEN [max |-> 0, min |-> USHRT_MAX, sum |-> 0]
          ELSE LET r == after[n - 1]
               IN  [max |-> IF r.max > buf[n] THEN r.max ELSE buf[n],
                    min |-> IF r.min < buf[n] THEN r.min ELSE buf[n],
                    sum |-> r.sum + buf[n]]
    IN  after

Scaled(adc) == (adc * 1338) \div 4096

(* The mutant that forgets to take the extremes out of the sum.            *)
calc_adc_voltage_extremes(buf) ==
    LET n == Taken(buf)
        r == Running(buf)[n]
    IN  IF n < 4 THEN 0 ELSE Scaled(r.sum \div (n - 2))

calc_adc_voltage(buf) ==
    LET n == Taken(buf)
        r == Running(buf)[n]
    IN  IF n < 4 THEN 0 ELSE Scaled((r.sum - r.max - r.min) \div (n - 2))

-------------------------------------------------------------------------------
Within(vol, low, hig) == low <= vol /\ vol <= hig

(* The mutant with levels 3 and 4 swapped.                                 *)
battery_level_swapped(vol) ==
    IF vol < BAT_DIS_LEVEL1_LOW THEN BAT_LEVEL1
    ELSE IF Within(vol, BAT_DIS_LEVEL3_LOW, BAT_DIS_LEVEL3_HIG) THEN BAT_LEVEL4
    ELSE IF Within(vol, BAT_DIS_LEVEL4_LOW, BAT_DIS_LEVEL4_HIG) THEN BAT_LEVEL3
    ELSE IF vol > BAT_DIS_LEVEL4_HIG THEN BAT_LEVEL5
    ELSE BAT_LEVEL2

(* battery_level_confirm: the voltages between two ranges (730, 750, 770)  *)
(* fall through to BAT_LEVEL2.                                             *)
battery_level_confirm(vol) ==
    IF vol < BAT_DIS_LEVEL1_LOW THEN BAT_LEVEL1
    ELSE IF Within(vol, BAT_DIS_LEVEL1_LOW, BAT_DIS_LEVEL1_HIG) THEN BAT_LEVEL2
    ELSE IF Within(vol, BAT_DIS_LEVEL2_LOW, BAT_DIS_LEVEL2_HIG) THEN BAT_LEVEL2
    ELSE IF Within(vol, BAT_DIS_LEVEL3_LOW, BAT_DIS_LEVEL3_HIG) THEN BAT_LEVEL3
    ELSE IF Within(vol, BAT_DIS_LEVEL4_LOW, BAT_DIS_LEVEL4_HIG) THEN BAT_LEVEL4
    ELSE IF vol > BAT_DIS_LEVEL4_HIG THEN BAT_LEVEL5
    ELSE BAT_LEVEL2

(* tft_display_battery_icon: the cases fall through, so icon n draws n     *)
(* bars, 4 as many as 3; any other number clears them all.  Bars that are  *)
(* already there stay.                                                     *)
Bars(n) == IF n \in 1 .. 3 THEN n ELSE IF n = 4 THEN 3 ELSE 0

tft_display_battery_icon(n, before) ==
    /\ icon' = n
    /\ bars' = IF Bars(n) # 0 /\ before > Bars(n) THEN before ELSE Bars(n)

(* The mutant that lets the counter wrap like any byte.                    *)
DecrementByte == counter' = (counter - 1) % 256

(* The mutant that reloads one short.                                      *)
DecrementReload == counter' = IF counter - 1 = 0 THEN COUNTER - 1 ELSE counter - 1

Decrement == counter' = IF counter - 1 = 0 THEN COUNTER ELSE counter - 1

(* battery_dis_level clears the bars and draws those of the next icon; the *)
(* complement of counter % level in two bits is 3 - counter % level.       *)
battery_dis_level(lev) ==
    IF lev = BAT_LEVEL5
    THEN tft_display_battery_icon(4, 0) /\ UNCHANGED counter
    ELSE IF lev = BAT_LEVEL1
    THEN tft_display_battery_icon(0, bars) /\ UNCHANGED counter
    ELSE Decrement /\ tft_display_battery_icon(3 - (counter' % lev), 0)

battery_icon_display(vol) ==
    /\ level' = battery_level_confirm(vol)
    /\ battery_dis_level(level')

hfc_battery_manager(conversion) ==
    /\ adc_buf' = conversion
    /\ bat_voltage' = calc_adc_voltage(conversion)
    /\ \/ /\ bat_loop + 1 > BAT_LOOPS
          /\ bat_loop' = 0
          /\ battery_icon_display(bat_voltage')
       \/ /\ bat_loop + 1 <= BAT_LOOPS
          /\ bat_loop' = bat_loop + 1
          /\ UNCHANGED <<level, counter, icon, bars>>

-------------------------------------------------------------------------------
(* The first pass of the main loop displays icon 0; the manager follows.   *)

BatteryInit ==
    /\ adc_buf = <<>> /\ bat_voltage = 0 /\ bat_loop = 0
    /\ level = 0 /\ counter = COUNTER /\ icon = 0 /\ bars = 0

BatteryNext == \E c \in Conversions : hfc_battery_manager(c)
BatterySpec == BatteryInit /\ [][BatteryNext]_batteryVars

-------------------------------------------------------------------------------

Voltages == 0 .. 1337

(* Every variable has its type; the animation counter is never 0.          *)
BatteryTypeOK ==
    /\ adc_buf \in Conversions \cup {<<>>} /\ bat_voltage \in Voltages
    /\ bat_loop \in 0 .. BAT_LOOPS /\ level \in 0 .. 5
    /\ counter \in 1 .. COUNTER
    /\ icon \in 0 .. 4 /\ bars \in 0 .. 3

(* The voltage lies between those of two samples, whatever the number of   *)
(* samples the ADC delivered (calc_adc_voltage divides what is left of the *)
(* sum by the samples that are left of it).                                *)
VoltageWithinSamples ==
    LET n == Taken(adc_buf) IN
    n >= 4 => \E i, j \in 1 .. n : /\ Scaled(adc_buf[i]) <= bat_voltage
                                   /\ bat_voltage <= Scaled(adc_buf[j])

(* Right after a display the bars tell the voltage: none below 6.08 V, all *)
(* above 8.20 V, never fewer than two above 7.70 V and than one above      *)
(* 7.50 V, at every step of the animation (battery_level_confirm's gap at  *)
(* 7.70 V excepted, which shows as a low battery).                         *)
BarsMatchVoltage ==
    (bat_loop = 0 /\ level # 0) =>
        /\ bat_voltage < 608 => bars = 0
        /\ bat_voltage > 750 /\ bat_voltage # 770 => bars >= 1
        /\ bat_voltage > 770 => bars >= 2
        /\ bat_voltage > 820 => bars = 3

(* The animation never jumps: while the level stays the same each display  *)
(* shows one bar more than the one before, from all bars back to the       *)
(* fewest of the level, also when the counter is reloaded (120 is a        *)
(* multiple of every level battery_dis_level divides it by).               *)
AnimationSteps ==
    [][(counter' # counter /\ level' = level) =>
         bars' = IF bars = 3 THEN 4 - level ELSE bars + 1]_batteryVars

===============================================================================
