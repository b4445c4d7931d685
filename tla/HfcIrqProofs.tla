----------------------------- MODULE HfcIrqProofs -----------------------------
(***************************************************************************)
(* The safety of the interrupt table, and of bootm on top of it, for every *)
(* set of lines and handlers.                                              *)
(* EnabledHasHandler and RunsUnmasked are not inductive by themselves: the *)
(* table is inconsistent while an operation is half done, which is why the *)
(* code masks interrupts.  IrqInv says what holds at each step of it,      *)
(* wherever else the main program may be.                                  *)
(***************************************************************************)
EXTENDS HfcBootm, TLAPS

TablePCs == {"irq_chip_enable", "set_irq_handler",
             "irq_chip_disable", "clr_irq_handler"}

(* Table operations run masked and remember that interrupts were on.       *)
MaskedInside ==
    /\ pc \in TablePCs \cup {"restore"} => ~irqs_on /\ call.flag
    /\ pc \in {"boot", "enable"} => ~irqs_on

(* The arguments of the operation on its way.                              *)
CallOK ==
    /\ pc \in TablePCs => call.num \in Internal
    /\ pc \in {"irq_chip_enable", "set_irq_handler"} => call.func # NULL
    /\ pc = "clr_irq_handler" => call.num \notin intenable
    /\ pc = "set_irq_handler" => call.num \in intenable

(* Only the line being registered can be enabled without a handler.        *)
OnlyOneBare ==
    pc # "boot" =>
      \A n \in intenable :
        irq_handler[n] # NULL \/ (pc = "set_irq_handler" /\ n = call.num)

(* Only the line being freed can be disabled with its handler in place.    *)
OnlyOneIdle ==
    \A n \in Internal :
      irq_handler[n] # NULL => n \in intenable \/ (pc = "clr_irq_handler" /\ n = call.num)

IrqInv ==
    /\ TableTypes /\ TimerTypes /\ CallTypes
    /\ MaskedInside /\ CallOK /\ OnlyOneBare /\ OnlyOneIdle /\ RunsUnmasked

IInv == IrqInv /\ pc \in PCs

(* The boot state satisfies the inductive invariant.                       *)
LEMMA InitIrqInv == Init => IrqInv
<1> SUFFICES ASSUME Init PROVE IrqInv
    OBVIOUS
<1> USE DEF Init, NoCall
<1>1. TableTypes
    BY DEF TableTypes
<1>2. TimerTypes
    <2>1. gpt_en \in BOOLEAN
        OBVIOUS
    <2>2. timer_base \in 0 .. TICK /\ time_tick \in {0, 1}
        BY TickAssumption
    <2> QED
        BY <2>1, <2>2 DEF TimerTypes
<1>3. CallTypes
    BY LineAssumption DEF CallTypes, PCs
<1>4. MaskedInside /\ CallOK /\ OnlyOneBare /\ OnlyOneIdle /\ RunsUnmasked
    BY DEF MaskedInside, CallOK, OnlyOneBare, OnlyOneIdle, RunsUnmasked, TablePCs
<1> QED
    BY <1>1, <1>2, <1>3, <1>4 DEF IrqInv

(* A request, accepted or refused, from a caller that runs unmasked.       *)
LEMMA RequestKeepsIrqInv ==
    ASSUME IrqInv, pc \in {"idle", "gpt2_request"},
           NEW n \in Internal \cup Gpio \cup Beyond, NEW f \in Handlers,
           NEW back \in {"idle", "gpt2_enable"}, irq_request(n, f, back)
    PROVE  IrqInv'
<1> USE DEF IrqInv, MaskedInside, CallOK, OnlyOneBare, OnlyOneIdle, RunsUnmasked,
            PCs, TablePCs, tableVars, timerVars
<1>1. CASE n \in {Gpt1} \cup Beyond
    BY <1>1 DEF irq_request, TableTypes, TimerTypes, CallTypes
<1>2. CASE n \notin {Gpt1} \cup Beyond
    <2>1. TableTypes' /\ TimerTypes'
        BY <1>2 DEF irq_request, TableTypes, TimerTypes
    <2>2. CallTypes'
        BY <1>2 DEF irq_request, TableTypes, CallTypes
    <2>3. f # NULL
        BY HandlerAssumption DEF Handlers
    <2>4. irqs_on /\ pc # "boot" /\ pc # "set_irq_handler"
        OBVIOUS
    <2>5. (MaskedInside /\ CallOK /\ RunsUnmasked)'
        <3>0. call' = [num |-> n, func |-> f, flag |-> irqs_on, back |-> back]
            BY <1>2 DEF irq_request
        <3>1. ~irqs_on' /\ call'.flag = irqs_on /\ call'.num = n /\ call'.func = f
            BY <1>2, <3>0 DEF irq_request
        <3>2. pc' = IF n \in Internal THEN "irq_chip_enable" ELSE "restore"
            BY <1>2 DEF irq_request
        <3> QED
            BY <2>3, <2>4, <3>1, <3>2
    <2>6. OnlyOneBare' /\ OnlyOneIdle'
        BY <1>2, <2>4 DEF irq_request, OnlyOneIdle
    <2> QED
        BY <2>1, <2>2, <2>5, <2>6
<1> QED
    BY <1>1, <1>2

(* Likewise for freeing a line.                                            *)
LEMMA FreeKeepsIrqInv ==
    ASSUME IrqInv, pc = "idle",
           NEW n \in Internal \cup Gpio \cup Beyond, irq_request_free(n, "idle")
    PROVE  IrqInv'
<1> USE DEF IrqInv, MaskedInside, CallOK, OnlyOneBare, OnlyOneIdle, RunsUnmasked,
            PCs, TablePCs, tableVars, timerVars
<1>1. CASE n \in Beyond
    BY <1>1 DEF irq_request_free, TableTypes, TimerTypes, CallTypes
<1>2. CASE n \notin Beyond
    <2>1. TableTypes' /\ TimerTypes'
        BY <1>2 DEF irq_request_free, TableTypes, TimerTypes
    <2>2. CallTypes'
        <3>1. n \in Internal \cup Gpio /\ irqs_on \in BOOLEAN
            BY <1>2 DEF TableTypes
        <3>2. call' = [num |-> n, func |-> NULL, flag |-> irqs_on,
                       back |-> "idle"]
            BY <1>2 DEF irq_request_free
        <3>3. pc' \in PCs
            BY <1>2 DEF irq_request_free
        <3> QED
            BY <3>1, <3>2, <3>3 DEF CallTypes
    <2>3. (MaskedInside /\ CallOK /\ RunsUnmasked)'
        <3>0. call' = [num |-> n, func |-> NULL, flag |-> irqs_on,
                       back |-> "idle"]
            BY <1>2 DEF irq_request_free
        <3>1. ~irqs_on' /\ call'.flag = irqs_on /\ call'.num = n
            BY <1>2, <3>0 DEF irq_request_free
        <3>2. pc' = IF n \in Internal THEN "irq_chip_disable" ELSE "restore"
            BY <1>2 DEF irq_request_free
        <3> QED
            BY <3>1, <3>2
    <2>4. OnlyOneBare' /\ OnlyOneIdle'
        BY <1>2 DEF irq_request_free, OnlyOneIdle
    <2> QED
        BY <2>1, <2>2, <2>3, <2>4
<1> QED
    BY <1>1, <1>2

(* Every step of the main program, of a handler and of a device preserves  *)
(* the inductive invariant.                                                *)
LEMMA NextIrqInv == IrqInv /\ [Next]_vars => IrqInv'
<1> SUFFICES ASSUME IrqInv, [Next]_vars PROVE IrqInv'
    OBVIOUS
<1> USE DEF IrqInv, MaskedInside, CallOK, OnlyOneBare, OnlyOneIdle, RunsUnmasked,
            PCs, TablePCs, tableVars, timerVars, TableTypes, TimerTypes, CallTypes
<1>1. CASE interrupt_init
    BY <1>1 DEF interrupt_init
<1>2. CASE enable_interrupts
    BY <1>2 DEF enable_interrupts
<1>3. CASE Command
    <2>1. ASSUME NEW n \in Numbers, NEW f \in Drivers, pc = "idle",
                 irq_request(n, f, "idle")
          PROVE  IrqInv'
        BY <2>1, RequestKeepsIrqInv DEF Numbers, Handlers
    <2>2. ASSUME NEW n \in Numbers, pc = "idle", irq_request_free(n, "idle")
          PROVE  IrqInv'
        BY <2>2, FreeKeepsIrqInv DEF Numbers
    <2>3. CASE pc = "idle" /\ gpt2_init("gpt2_request")
        BY <2>3 DEF gpt2_init
    <2>4. CASE pc = "idle" /\ gpt2_finished("idle")
        BY <2>4, FreeKeepsIrqInv, LineAssumption DEF gpt2_finished
    <2> QED
        BY <1>3, <2>1, <2>2, <2>3, <2>4 DEF Command
<1>4. CASE irq_chip_enable
    BY <1>4 DEF irq_chip_enable
<1>5. CASE set_irq_handler
    <2>1. OnlyOneIdle'
        BY <1>5 DEF set_irq_handler
    <2>2. (TableTypes /\ TimerTypes /\ CallTypes)'
        BY <1>5 DEF set_irq_handler
    <2>3. (MaskedInside /\ CallOK /\ OnlyOneBare /\ RunsUnmasked)'
        BY <1>5 DEF set_irq_handler
    <2> QED
        BY <2>1, <2>2, <2>3
<1>6. CASE irq_chip_disable
    BY <1>6 DEF irq_chip_disable
<1>7. CASE clr_irq_handler
    BY <1>7 DEF clr_irq_handler
<1>8. CASE restore
    BY <1>8, LineAssumption DEF restore, NoCall
<1>9. CASE gpt2_request
    BY <1>9, RequestKeepsIrqInv, LineAssumption DEF gpt2_request, Handlers
<1>10. CASE gpt2_enable("idle")
    BY <1>10 DEF gpt2_enable
<1>11. CASE do_irq
    <2>1. PICK n \in Taken : run_irq_handler(n)
        BY <1>11 DEF do_irq
    <2>2. pending' \in SUBSET Internal
        BY <2>1 DEF run_irq_handler
    <2>3. gpt_en' \in BOOLEAN
        BY <2>1 DEF run_irq_handler, gpt2_irq_handler
    <2>4. timer_base' \in 0 .. TICK /\ time_tick' \in {0, 1}
        BY <2>1, TickAssumption DEF run_irq_handler, gpt2_irq_handler
    <2> QED
        BY <1>11, <2>2, <2>3, <2>4 DEF do_irq
<1>12. ASSUME NEW n \in Internal, Assert(n) PROVE IrqInv'
    BY <1>12 DEF Assert
<1>13. CASE UNCHANGED vars
    BY <1>13 DEF vars
<1> QED
    BY <1>1, <1>2, <1>3, <1>4, <1>5, <1>6, <1>7, <1>8, <1>9, <1>10, <1>11,
       <1>12, <1>13 DEF Next, TableStep

(* No interrupt is taken on a line without a handler.                      *)
LEMMA IrqInvHandled == IrqInv => EnabledHasHandler
BY DEF IrqInv, MaskedInside, OnlyOneBare, TablePCs, EnabledHasHandler

(* A handler in the table is served.                                       *)
LEMMA IrqInvServed == IrqInv => OwnerServed
BY DEF IrqInv, MaskedInside, OnlyOneIdle, TablePCs, OwnerServed

(* The main program stays at the points the code has.                      *)
LEMMA NextPCs == IInv /\ [Next]_vars => pc' \in PCs
<1> SUFFICES ASSUME IInv, [Next]_vars PROVE pc' \in PCs
    OBVIOUS
<1>1. call.back \in PCs
    BY DEF IInv, IrqInv, CallTypes, PCs
<1> QED
    BY <1>1 DEF IInv, Next, TableStep, Command, interrupt_init,
       enable_interrupts, irq_request, irq_request_free, irq_chip_enable,
       set_irq_handler, irq_chip_disable, clr_irq_handler, restore, gpt2_init,
       gpt2_request, gpt2_enable, gpt2_finished, do_irq, Assert, vars, PCs

(* The inductive invariant holds throughout.                               *)
LEMMA AlwaysIInv == Spec => []IInv
<1>1. Init => IInv
    BY InitIrqInv DEF Init, IInv, PCs
<1>2. IInv /\ [Next]_vars => IInv'
    BY NextIrqInv, NextPCs DEF IInv
<1> QED
    BY <1>1, <1>2, PTL DEF Spec

(* TypeOK for every instance: the interrupt code keeps its types.          *)
THEOREM TableTypeCorrect == Spec => []TypeOK
<1>1. IInv => TypeOK
    BY DEF IInv, IrqInv, TypeOK
<1> QED
    BY <1>1, AlwaysIInv, PTL

(* EnabledHasHandler for every set of lines and handlers: no interrupt is  *)
(* ever taken on a line without a handler.                                 *)
THEOREM EveryInterruptHandled == Spec => []EnabledHasHandler
<1>1. IInv => EnabledHasHandler
    BY IrqInvHandled DEF IInv
<1> QED
    BY <1>1, AlwaysIInv, PTL

(* RunsUnmasked for every instance: no path through irq_request or         *)
(* irq_request_free leaves interrupts off.                                 *)
THEOREM InterruptsComeBack == Spec => []RunsUnmasked
<1>1. IInv => RunsUnmasked
    BY DEF IInv, IrqInv
<1> QED
    BY <1>1, AlwaysIInv, PTL

(* OwnerServed for every instance: no request of another driver, refused   *)
(* or not, leaves a handler in the table with its line disabled.           *)
THEOREM OwnersKeepTheirLines == Spec => []OwnerServed
<1>1. IInv => OwnerServed
    BY IrqInvServed DEF IInv
<1> QED
    BY <1>1, AlwaysIInv, PTL

-------------------------------------------------------------------------------
(* The prompt with bootm.  bootm touches the table only by masking,        *)
(* unmasking and resetting.                                                *)

BootTypes ==
    /\ pc \in BootPCs
    /\ images \in [state : 0 .. 255, os : Image \cup {NoImage}, fdt : BOOLEAN,
                   loaded : BOOLEAN, prepared : BOOLEAN]
    /\ iflag \in BOOLEAN /\ by \in {"bootm", "sub"}

(* Where bootm runs masked, and that it remembers interrupts were on.      *)
BootMasks ==
    /\ pc \in {"bootm_mask", "standalone"} => irqs_on
    /\ pc \in {"bootm_load", "bootm_ramdisk"} => ~irqs_on /\ iflag
    /\ pc \in {"boot_prep_linux", "kernel"} => ~irqs_on

(* What was done to the image by the time bootm is there.                  *)
BootStages ==
    /\ pc \in {"bootm_mask", "bootm_load", "bootm_ramdisk", "boot_prep_linux"} =>
         images.os \in Image
    /\ pc \in {"bootm_ramdisk", "boot_prep_linux"} => images.loaded
    /\ pc = "boot_prep_linux" => images.os.type = "kernel"
    /\ pc \in {"boot_jump_linux", "kernel"} /\ by = "bootm" =>
         images.loaded /\ images.prepared /\ images.fdt
         /\ images.os.type = "kernel"

BootInv == IrqInv /\ BootTypes /\ BootMasks /\ BootStages

(* The cleared header.                                                     *)
LEMMA NoImagesTyped ==
    NoImages \in [state : 0 .. 255, os : Image \cup {NoImage}, fdt : BOOLEAN,
                  loaded : BOOLEAN, prepared : BOOLEAN]
BY DEF NoImages

(* A step of bootm that leaves the table alone, and masks or unmasks as    *)
(* its place requires, keeps the invariant of the table.                   *)
LEMMA MaskingKeepsIrqInv ==
    ASSUME IrqInv, pc \in BootPCs \ (TablePCs \cup {"boot"}), pc' \in BootPCs,
           irqs_on' \in BOOLEAN,
           pc' \notin TablePCs \cup {"restore", "boot", "enable"},
           pc' \in {"idle", "gpt2_request", "gpt2_enable"} => irqs_on',
           UNCHANGED <<intenable, irq_handler, pending, timerVars, call>>
    PROVE  IrqInv'
<1> USE DEF IrqInv, timerVars
<1>1. (TableTypes /\ TimerTypes /\ CallTypes)'
    BY DEF TableTypes, TimerTypes, CallTypes
<1>2. (MaskedInside /\ CallOK /\ RunsUnmasked)'
    BY DEF MaskedInside, CallOK, RunsUnmasked, TablePCs
<1>3. OnlyOneBare' /\ OnlyOneIdle'
    BY DEF OnlyOneBare, OnlyOneIdle, TablePCs
<1> QED
    BY <1>1, <1>2, <1>3

(* The steps of the drivers, handlers and devices leave bootm alone.       *)
LEMMA IrqStepKeepsBootInv ==
    ASSUME BootInv, Next, UNCHANGED bootVars
    PROVE  BootInv'
<1> USE DEF BootInv, bootVars
<1>1. IrqInv'
    BY NextIrqInv
<1>2. \/ pc' = pc /\ irqs_on' = irqs_on
      \/ pc' \in PCs
    <2>1. call.back \in PCs
        BY DEF IrqInv, CallTypes, PCs
    <2> QED
        BY <2>1 DEF Next, TableStep, Command, interrupt_init,
           enable_interrupts, irq_request, irq_request_free, irq_chip_enable,
           set_irq_handler, irq_chip_disable, clr_irq_handler, restore,
           gpt2_init, gpt2_request, gpt2_enable, gpt2_finished, do_irq, Assert,
           PCs
<1>3. (BootTypes /\ BootMasks /\ BootStages)'
    BY <1>2 DEF BootTypes, BootMasks, BootStages, BootPCs, PCs
<1> QED
    BY <1>1, <1>3

(* bootm_start, from the prompt, for bootm and for the subcommand.         *)
LEMMA StartKeepsBootInv ==
    ASSUME BootInv, pc = "idle", NEW next \in {"idle", "bootm_mask"},
           bootm_start(next)
    PROVE  BootInv'
<1> USE DEF BootInv
<1>1. /\ irqs_on /\ pc' \in {"idle", "bootm_mask"}
      /\ UNCHANGED <<tableVars, timerVars, call, iflag, by>>
    BY DEF bootm_start, IrqInv, RunsUnmasked
<1>2. IrqInv'
    BY <1>1, MaskingKeepsIrqInv
       DEF tableVars, vars, TablePCs, BootPCs, PCs, IrqInv, TableTypes
<1>3. /\ images' \in [state : 0 .. 255, os : Image \cup {NoImage},
                      fdt : BOOLEAN, loaded : BOOLEAN, prepared : BOOLEAN]
      /\ pc' = "bootm_mask" => images'.os \in Image
    <2>1. CASE images' = NoImages /\ pc' = "idle"
        BY <2>1 DEF NoImages
    <2>3. CASE /\ pc' = "idle"
               /\ \E i \in Image : images' = [NoImages EXCEPT !.os = i]
        <3>1. PICK i \in Image : images' = [NoImages EXCEPT !.os = i]
            BY <2>3
        <3>2. images' = [state |-> 0, os |-> i, fdt |-> FALSE,
                         loaded |-> FALSE, prepared |-> FALSE]
            BY <3>1 DEF NoImages
        <3>3. images' \in [state : 0 .. 255, os : Image \cup {NoImage},
                           fdt : BOOLEAN, loaded : BOOLEAN, prepared : BOOLEAN]
            BY <3>2
        <3> QED
            BY <2>3, <3>3
    <2>2. CASE /\ pc' = next
               /\ \E i \in Image, fdt \in BOOLEAN :
                    images' = [NoImages EXCEPT !.state = START, !.os = i,
                                 !.fdt = fdt /\ i.type = "kernel" /\ i.linux]
        <3>1. PICK i \in Image, fdt \in BOOLEAN :
                images' = [NoImages EXCEPT !.state = START, !.os = i,
                             !.fdt = fdt /\ i.type = "kernel" /\ i.linux]
            BY <2>2
        <3> DEFINE b == fdt /\ i.type = "kernel" /\ i.linux
        <3>2. b \in BOOLEAN
            OBVIOUS
        <3>3. images' = [NoImages EXCEPT !.state = START, !.os = i, !.fdt = b]
            BY <3>1
        <3> HIDE DEF b
        <3>4. images' = [state |-> 1, os |-> i, fdt |-> b,
                         loaded |-> FALSE, prepared |-> FALSE]
            BY <3>3 DEF NoImages, START
        <3>5. images'.os = i
            BY <3>4
        <3>6. images' \in [state : 0 .. 255, os : Image \cup {NoImage},
                           fdt : BOOLEAN, loaded : BOOLEAN, prepared : BOOLEAN]
            BY <3>2, <3>4
        <3> QED
            BY <3>5, <3>6
    <2> QED
        BY <2>1, <2>2, <2>3 DEF bootm_start
<1>4. (BootTypes /\ BootMasks /\ BootStages)'
    BY <1>1, <1>3 DEF BootTypes, BootMasks, BootStages, BootPCs, PCs,
                      tableVars, vars
<1> QED
    BY <1>2, <1>4

(* The steps of do_bootm after bootm_start.                                *)
LEMMA BootmKeepsBootInv ==
    ASSUME BootInv,
           \/ bootm_mask \/ bootm_load_os \/ bootm_ramdisk
           \/ standalone_returns \/ boot_prep_linux \/ boot_jump_linux
    PROVE  BootInv'
<1> USE DEF BootInv
<1>0. irqs_on \in BOOLEAN /\ iflag \in BOOLEAN /\ pc \in BootPCs
    BY DEF IrqInv, TableTypes, BootTypes
<1>1. CASE bootm_mask
    <2>1. irqs_on
        BY <1>1 DEF bootm_mask, BootMasks
    <2>2. IrqInv'
        BY <1>0, <1>1, MaskingKeepsIrqInv DEF bootm_mask, TablePCs, BootPCs, PCs
    <2>3. (BootTypes /\ BootMasks /\ BootStages)'
        BY <1>1, <2>1
           DEF bootm_mask, BootTypes, BootMasks, BootStages, BootPCs
    <2> QED
        BY <2>2, <2>3
<1>2. CASE bootm_load_os
    <2>0. /\ images' = [images EXCEPT !.loaded = Loaded] /\ Loaded \in BOOLEAN
          /\ ~irqs_on /\ iflag /\ images.os \in Image
        BY <1>2 DEF bootm_load_os, BootMasks, BootStages, Loaded
    <2>1. /\ images' \in [state : 0 .. 255, os : Image \cup {NoImage},
                          fdt : BOOLEAN, loaded : BOOLEAN, prepared : BOOLEAN]
          /\ images'.os = images.os /\ images'.loaded = Loaded
        <3> HIDE DEF BootInv
        <3>1. images \in [state : 0 .. 255, os : Image \cup {NoImage},
                          fdt : BOOLEAN, loaded : BOOLEAN, prepared : BOOLEAN]
            BY DEF BootInv, BootTypes
        <3> QED
            BY <2>0, <3>1
    <2>2. IrqInv'
        BY <1>0, <1>2, <2>0, MaskingKeepsIrqInv
           DEF bootm_load_os, TablePCs, BootPCs, PCs
    <2>3. pc' = "bootm_ramdisk" => Loaded
        BY <1>2, <2>0 DEF bootm_load_os, Loaded, Image
    <2>4. (BootTypes /\ BootMasks /\ BootStages)'
        BY <1>2, <2>0, <2>1, <2>3
           DEF bootm_load_os, BootTypes, BootMasks, BootStages, BootPCs, PCs
    <2> QED
        BY <2>2, <2>4
<1>3. CASE bootm_ramdisk
    <2>1. IrqInv'
        BY <1>0, <1>3, MaskingKeepsIrqInv
           DEF bootm_ramdisk, TablePCs, BootPCs, PCs
    <2>2. (BootTypes /\ BootMasks)'
        BY <1>0, <1>3
           DEF bootm_ramdisk, BootTypes, BootMasks, BootPCs, bootVars
    <2>3. BootStages'
        BY <1>3 DEF bootm_ramdisk, BootStages, Image, bootVars
    <2> QED
        BY <2>1, <2>2, <2>3
<1>4. CASE standalone_returns
    <2>1. irqs_on
        BY <1>4 DEF standalone_returns, BootMasks
    <2>2. IrqInv'
        BY <1>0, <1>4, <2>1, MaskingKeepsIrqInv
           DEF standalone_returns, tableVars, TablePCs, BootPCs, PCs
    <2>3. (BootTypes /\ BootMasks /\ BootStages)'
        BY <1>4 DEF standalone_returns, BootTypes, BootMasks, BootStages,
                    BootPCs, PCs, bootVars
    <2> QED
        BY <2>2, <2>3
<1>5. CASE boot_prep_linux
    <2>1. IrqInv'
        BY <1>0, <1>5, MaskingKeepsIrqInv
           DEF boot_prep_linux, tableVars, TablePCs, BootPCs, PCs
    <2>2. CASE pc' = "hang" /\ UNCHANGED <<images, by>>
        BY <1>5, <2>1, <2>2
           DEF boot_prep_linux, BootTypes, BootMasks, BootStages, BootPCs
    <2>3. CASE /\ images.fdt /\ images' = [images EXCEPT !.prepared = TRUE]
               /\ pc' = "boot_jump_linux" /\ by' = "bootm"
        <3>1. /\ images' \in [state : 0 .. 255, os : Image \cup {NoImage},
                          fdt : BOOLEAN, loaded : BOOLEAN, prepared : BOOLEAN]
              /\ images'.os = images.os /\ images'.loaded = images.loaded
              /\ images'.fdt = images.fdt /\ images'.prepared
            BY <2>3 DEF BootTypes
        <3>2. (BootTypes /\ BootMasks)'
            BY <1>5, <2>3, <3>1
               DEF boot_prep_linux, BootTypes, BootMasks, BootPCs
        <3>3. BootStages'
            BY <1>5, <2>3, <3>1 DEF boot_prep_linux, BootStages
        <3> QED
            BY <2>1, <3>2, <3>3
    <2> QED
        BY <1>5, <2>2, <2>3 DEF boot_prep_linux
<1>6. CASE boot_jump_linux
    <2>1. IrqInv'
        BY <1>0, <1>6, MaskingKeepsIrqInv
           DEF boot_jump_linux, TablePCs, BootPCs, PCs
    <2>2. (BootTypes /\ BootMasks /\ BootStages)'
        BY <1>6 DEF boot_jump_linux, BootTypes, BootMasks, BootStages,
                    BootPCs, bootVars
    <2> QED
        BY <2>1, <2>2
<1> QED
    BY <1>1, <1>2, <1>3, <1>4, <1>5, <1>6

(* The subcommands, whether or not they were issued in order.              *)
LEMMA SubcommandKeepsBootInv ==
    ASSUME BootInv, Subcommand
    PROVE  BootInv'
<1> USE DEF BootInv
<1> DEFINE Headers == [state : 0 .. 255, os : Image \cup {NoImage},
                       fdt : BOOLEAN, loaded : BOOLEAN, prepared : BOOLEAN]
<1>0. pc = "idle" /\ irqs_on /\ images \in Headers
    BY DEF Subcommand, IrqInv, RunsUnmasked, BootTypes
<1>1. CASE bootm_start("idle")
    BY <1>0, <1>1, StartKeepsBootInv
<1>2. CASE images' \in Headers /\ UNCHANGED <<vars, iflag, by>>
    <2>1. IrqInv'
        BY <1>2, NextIrqInv
    <2>2. (BootTypes /\ BootMasks /\ BootStages)'
        BY <1>0, <1>2 DEF BootTypes, BootMasks, BootStages, vars, tableVars
    <2> QED
        BY <2>1, <2>2
<1>3. ASSUME NEW s \in OS_CALL \cup {OS_GO}, do_bootm_linux(s)
      PROVE  BootInv'
    <2>1. images' \in Headers
        BY <1>0, <1>3 DEF do_bootm_linux, Enter, OS_CALL, OS_GO
    <2>2. pc' \in {"boot_jump_linux", "lost"} /\ by' = "sub"
        BY <1>3 DEF do_bootm_linux
    <2>3. irqs_on' \in BOOLEAN
        BY <1>3 DEF do_bootm_linux
    <2>4. IrqInv'
        BY <1>0, <1>3, <2>2, <2>3, MaskingKeepsIrqInv
           DEF do_bootm_linux, TablePCs, BootPCs, PCs
    <2>5. (BootTypes /\ BootMasks /\ BootStages)'
        BY <1>3, <2>1, <2>2
           DEF do_bootm_linux, BootTypes, BootMasks, BootStages, BootPCs
    <2> QED
        BY <2>4, <2>5
<1>4. sub_loados => images' \in Headers /\ UNCHANGED <<vars, iflag, by>>
    <2>1. Loaded \in BOOLEAN
        BY DEF Loaded
    <2> QED
        <3>1. ASSUME sub_loados PROVE images' \in Headers
            <4> DEFINE b == Loaded
            <4>1. /\ images' = [images EXCEPT !.state = @ + 2, !.loaded = b]
                  /\ images.state < 2 /\ b \in BOOLEAN
                BY <2>1, <3>1 DEF sub_loados, Enter, LOADOS
            <4> HIDE DEF b
            <4> DEFINE n == images.state + 2
            <4>2. n \in 0 .. 255 /\ images' = [images EXCEPT !.state = n, !.loaded = b]
                BY <1>0, <4>1
            <4> HIDE DEF n
            <4> QED
                BY <1>0, <4>1, <4>2
        <3> QED
            BY <3>1 DEF sub_loados
<1>5. ASSUME NEW s \in Between, sub_between(s)
      PROVE  images' \in Headers /\ UNCHANGED <<vars, iflag, by>>
    BY <1>0, <1>5 DEF sub_between, Enter, Between
<1> QED
    BY <1>1, <1>2, <1>3, <1>4, <1>5 DEF Subcommand

(* A reset starts the board anew.                                          *)
LEMMA ResetKeepsBootInv ==
    ASSUME BootInv, Reset
    PROVE  BootInv'
<1> USE DEF BootInv, Reset
<1>1. (TableTypes /\ CallTypes)'
    BY LineAssumption DEF IrqInv, TableTypes, CallTypes, NoCall
<1>2. TimerTypes'
    <2>1. gpt_en' \in BOOLEAN
        OBVIOUS
    <2>2. timer_base' \in 0 .. TICK /\ time_tick' \in {0, 1}
        BY TickAssumption
    <2> QED
        BY <2>1, <2>2 DEF TimerTypes
<1>3. (MaskedInside /\ CallOK /\ OnlyOneBare /\ OnlyOneIdle /\ RunsUnmasked)'
    BY DEF MaskedInside, CallOK, OnlyOneBare, OnlyOneIdle, RunsUnmasked, TablePCs
<1>4. (BootTypes /\ BootMasks /\ BootStages)'
    <2>1. iflag' \in BOOLEAN /\ by' \in {"bootm", "sub"} /\ pc' \in BootPCs
        BY DEF BootPCs, PCs
    <2>2. (BootMasks /\ BootStages)'
        BY DEF BootMasks, BootStages
    <2> QED
        BY <2>1, <2>2, NoImagesTyped DEF BootTypes
<1> QED
    BY <1>1, <1>2, <1>3, <1>4 DEF IrqInv

(* The inductive invariant holds throughout.                               *)
LEMMA AlwaysBootInv == BootSpec => []BootInv
<1>1. BootInit => BootInv
    <2> SUFFICES ASSUME BootInit PROVE BootInv
        OBVIOUS
    <2>1. IrqInv
        BY InitIrqInv DEF BootInit
    <2>2. BootTypes /\ BootMasks /\ BootStages
        <3>1. iflag \in BOOLEAN /\ by \in {"bootm", "sub"} /\ pc \in BootPCs
            BY DEF BootInit, Init, BootPCs, PCs
        <3>2. BootMasks /\ BootStages
            BY DEF BootInit, Init, BootMasks, BootStages
        <3> QED
            BY <3>1, <3>2, NoImagesTyped DEF BootInit, BootTypes
    <2> QED
        BY <2>1, <2>2 DEF BootInv
<1>2. BootInv /\ [BootNext]_allVars => BootInv'
    <2> SUFFICES ASSUME BootInv, [BootNext]_allVars PROVE BootInv'
        OBVIOUS
    <2>1. CASE pc = "idle" /\ bootm_start("bootm_mask")
        BY <2>1, StartKeepsBootInv
    <2>2. CASE UNCHANGED allVars
        <3>1. IrqInv'
            BY <2>2, NextIrqInv DEF BootInv, allVars
        <3>2. (BootTypes /\ BootMasks /\ BootStages)'
            BY <2>2 DEF BootInv, BootTypes, BootMasks, BootStages, allVars,
                        vars, tableVars, bootVars
        <3> QED
            BY <3>1, <3>2 DEF BootInv
    <2> QED
        BY <2>1, <2>2, IrqStepKeepsBootInv, BootmKeepsBootInv,
           SubcommandKeepsBootInv, ResetKeepsBootInv DEF BootNext, do_bootm
<1> QED
    BY <1>1, <1>2, PTL DEF BootSpec

(* BootTypeOK for every instance: bootm and the interrupt code keep their  *)
(* types.                                                                  *)
THEOREM PromptTypeCorrect == BootSpec => []BootTypeOK
<1>1. BootInv => BootTypeOK
    BY DEF BootInv, IrqInv, BootTypes, BootTypeOK
<1> QED
    BY <1>1, AlwaysBootInv, PTL

(* EnabledHasHandler with bootm and resets among the commands: no          *)
(* interrupt is ever taken on a line without a handler.                    *)
THEOREM PromptInterruptsHandled == BootSpec => []EnabledHasHandler
<1>1. BootInv => EnabledHasHandler
    BY IrqInvHandled DEF BootInv
<1> QED
    BY <1>1, AlwaysBootInv, PTL

(* ReturnsUnmasked for every instance: no path of irq_request,             *)
(* irq_request_free or bootm gives the prompt or a standalone application  *)
(* the board with interrupts off.                                          *)
THEOREM PromptComesBackUnmasked == BootSpec => []ReturnsUnmasked
<1>1. BootInv => ReturnsUnmasked
    BY DEF BootInv, IrqInv, BootMasks, ReturnsUnmasked
<1> QED
    BY <1>1, AlwaysBootInv, PTL

(* NoReturnMasked for every instance: no handler runs past bootm's point   *)
(* of no return, and kernels are entered masked.                           *)
THEOREM PointOfNoReturnMasked == BootSpec => []NoReturnMasked
<1>1. BootInv => NoReturnMasked
    BY DEF BootInv, BootMasks, NoReturnMasked
<1> QED
    BY <1>1, AlwaysBootInv, PTL

(* KernelReady for every instance: bootm enters only a kernel it loaded    *)
(* and whose device tree it completed.                                     *)
THEOREM KernelsAreReady == BootSpec => []KernelReady
<1>1. BootInv => KernelReady
    BY DEF BootInv, BootStages, KernelReady
<1> QED
    BY <1>1, AlwaysBootInv, PTL

(* OwnerServed with bootm and resets among the commands: whoever asks for  *)
(* a line in vain, the driver that holds it goes on being served.          *)
THEOREM PromptServesOwners == BootSpec => []OwnerServed
<1>1. BootInv => OwnerServed
    BY IrqInvServed DEF BootInv
<1> QED
    BY <1>1, AlwaysBootInv, PTL

===============================================================================
