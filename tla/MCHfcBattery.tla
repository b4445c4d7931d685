----------------------------- MODULE MCHfcBattery -----------------------------
(***************************************************************************)
(* HfcBattery on conversions that end up in every range of                 *)
(* battery_level_confirm, on its borders and in its gaps, with and without *)
(* noise, and cut short.                                                   *)
(***************************************************************************)
EXTENDS HfcBattery

(* The smallest sample that calc_adc_voltage turns into the voltage.       *)
Sample(vol) == (vol * 4096 + 1337) \div 1338

Steady(vol) == [i \in 1 .. 5 |-> Sample(vol)]
Noisy(vol) == <<Sample(vol) - 300, Sample(vol), Sample(vol) + 2,
                Sample(vol) + 900, Sample(vol) + 1>>

MCConversions ==
    {Steady(v) : v \in {607, 608, 729, 730, 731, 749, 750, 751, 769, 770, 771,
                        820, 821, 1300}}
    \cup {Noisy(v) : v \in {600, 700, 760, 800, 830}}
    \cup {SubSeq(Noisy(v), 1, n) \o <<0>> : v \in {760}, n \in 0 .. 4}

===============================================================================
