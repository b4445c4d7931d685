------------------------------- MODULE HfcBootm -------------------------------
(***************************************************************************)
(* The bootm command at the prompt (common/cmd_bootm.c and                 *)
(* arch/arm/lib/bootm.c), on top of the interrupt table: it masks the      *)
(* interrupts the drivers registered, overwrites memory, and either starts *)
(* a program, resets the board, hangs, or gives the prompt back.           *)
(*                                                                         *)
(* An image is what bootm tells apart: its type, whether boot_os[] has an  *)
(* entry for its operating system (Linux: NetBSD and RTEMS images are left *)
(* out), and what bootm_load_os makes of it.  A program that was started   *)
(* keeps the board until it is reset, except a standalone application.     *)
(***************************************************************************)
EXTENDS HfcIrq

VARIABLES
    images,    \* the global bootm_headers_t: see NoImages
    iflag,     \* do_bootm's local: interrupts were on
    by         \* "bootm", or the subcommand that calls boot_fn

bootVars == <<images, iflag, by>>
allVars == <<vars, bootVars>>

Image == [type : {"kernel", "standalone"}, linux : BOOLEAN,
          load : {"fits", "overlaps", "corrupt", "unimplemented"}]

(* No image: a zeroed header reads as uncompressed and in place.           *)
NoImage == [type |-> "none", linux |-> FALSE, load |-> "fits"]

(* state is the bit set of stages, os the image, fdt whether ft_len is not *)
(* 0; loaded and prepared record what was done to the image of os.         *)
NoImages == [state |-> 0, os |-> NoImage, fdt |-> FALSE,
             loaded |-> FALSE, prepared |-> FALSE]

START == 1
LOADOS == 2
Between == {4, 8}             \* RAMDISK and FDT, which move data about
OS_CALL == {16, 32, 64}       \* OS_CMDLINE, OS_BD_T and OS_PREP
OS_GO == 128

-------------------------------------------------------------------------------

(* bootm_start clears images, then looks for a kernel, a ramdisk and a     *)
(* device tree; it fails on a bad header, or with images.os filled in on   *)
(* an unusable ramdisk or tree of a Linux kernel.                          *)
bootm_start(next) ==
    \/ /\ \/ images' = NoImages
          \/ \E i \in Image : /\ i.type = "kernel" /\ i.linux
                              /\ images' = [NoImages EXCEPT !.os = i]
       /\ pc' = "idle"
       /\ UNCHANGED <<tableVars, timerVars, call, iflag, by>>
    \/ /\ \E i \in Image, fdt \in BOOLEAN :
            images' = [NoImages EXCEPT !.state = START, !.os = i,
                         !.fdt = fdt /\ i.type = "kernel" /\ i.linux]
       /\ pc' = next
       /\ UNCHANGED <<tableVars, timerVars, call, iflag, by>>

(* What the load leaves of the image, when bootm_load_os is over.  A       *)
(* legacy image that was overwritten while it was copied is only reported. *)
Loaded == images.os.type # "none" /\ images.os.load \in {"fits", "overlaps"}

(* The mutant that only notes whether interrupts are on.                   *)
bootm_mask_iflag ==
    /\ pc = "bootm_mask"
    /\ iflag' = irqs_on
    /\ pc' = "bootm_load"
    /\ UNCHANGED <<tableVars, timerVars, call, images, by>>

(* The point of no return: from here on the exception vectors may be       *)
(* overwritten.                                                            *)
bootm_mask ==
    /\ pc = "bootm_mask"
    /\ iflag' = irqs_on
    /\ irqs_on' = FALSE
    /\ pc' = "bootm_load"
    /\ UNCHANGED <<intenable, irq_handler, pending, timerVars, call, images, by>>

(* The mutant that gives the prompt back with interrupts off.              *)
bootm_load_os_off ==
    /\ pc = "bootm_load"
    /\ images' = [images EXCEPT !.loaded = Loaded]
    /\ pc' = IF images.os.load = "unimplemented" THEN "idle"
             ELSE IF images.os.load = "corrupt" THEN "do_reset"
             ELSE "bootm_ramdisk"
    /\ UNCHANGED <<tableVars, timerVars, call, iflag, by>>

(* The mutant that goes on after a broken stream.                          *)
bootm_load_os_on ==
    /\ pc = "bootm_load"
    /\ images' = [images EXCEPT !.loaded = Loaded]
    /\ IF images.os.load = "unimplemented"
       THEN pc' = "idle" /\ irqs_on' = (irqs_on \/ iflag)
       ELSE pc' = "bootm_ramdisk" /\ UNCHANGED irqs_on
    /\ UNCHANGED <<intenable, irq_handler, pending, timerVars, call, iflag, by>>

(* do_bootm's call of bootm_load_os: a compression it does not know gives  *)
(* the prompt back, a broken stream resets the board.                      *)
bootm_load_os ==
    /\ pc = "bootm_load"
    /\ images' = [images EXCEPT !.loaded = Loaded]
    /\ IF images.os.load = "unimplemented"
       THEN pc' = "idle" /\ irqs_on' = (irqs_on \/ iflag)
       ELSE /\ pc' = IF images.os.load = "corrupt" THEN "do_reset"
                     ELSE "bootm_ramdisk"
            /\ UNCHANGED irqs_on
    /\ UNCHANGED <<intenable, irq_handler, pending, timerVars, call, iflag, by>>

(* hfc_load_ram_disk, whose result nobody looks at, then the choice on the *)
(* type.  A standalone application runs unmasked.                          *)
bootm_ramdisk ==
    /\ pc = "bootm_ramdisk"
    /\ IF images.os.type = "standalone"
       THEN pc' = "standalone" /\ irqs_on' = (irqs_on \/ iflag)
       ELSE pc' = "boot_prep_linux" /\ UNCHANGED irqs_on
    /\ UNCHANGED <<intenable, irq_handler, pending, timerVars, call, bootVars>>

(* The application returns, or autostart=no keeps it from being called.    *)
standalone_returns ==
    /\ pc = "standalone"
    /\ pc' = "idle"
    /\ UNCHANGED <<tableVars, timerVars, call, bootVars>>

(* With a device tree, create_fdt completes it or the board hangs; without *)
(* one it hangs too, because the board has no ATAGS compiled in.           *)
boot_prep_linux ==
    /\ pc = "boot_prep_linux"
    /\ \/ /\ images.fdt
          /\ images' = [images EXCEPT !.prepared = TRUE]
          /\ by' = "bootm"
          /\ pc' = "boot_jump_linux"
       \/ /\ pc' = "hang"
          /\ UNCHANGED <<images, by>>
    /\ UNCHANGED <<tableVars, timerVars, call, iflag>>

(* cleanup_before_linux masks interrupts, and the kernel has the board.    *)
boot_jump_linux ==
    /\ pc = "boot_jump_linux"
    /\ irqs_on' = FALSE
    /\ pc' = "kernel"
    /\ UNCHANGED <<intenable, irq_handler, pending, timerVars, call, bootVars>>

-------------------------------------------------------------------------------
(* do_bootm_subcommand.                                                    *)

(* A stage that was passed is refused; images.state |= stage otherwise.    *)
Enter(stage) == images.state < stage

(* loados runs unmasked and leaves its errors to the caller.               *)
sub_loados ==
    /\ Enter(LOADOS)
    /\ images' = [images EXCEPT !.state = @ + LOADOS, !.loaded = Loaded]
    /\ UNCHANGED <<vars, iflag, by>>

sub_between(stage) ==
    /\ Enter(stage)
    /\ images' = [images EXCEPT !.state = @ + stage]
    /\ UNCHANGED <<vars, iflag, by>>

(* The entry of boot_os[] is called: do_bootm_linux ignores which stage it *)
(* is called for and jumps; an entry that is NULL is called all the same.  *)
do_bootm_linux(stage) ==
    /\ Enter(stage)
    /\ images' = [images EXCEPT !.state = @ + stage]
    /\ irqs_on' = (irqs_on /\ stage # OS_GO)
    /\ by' = "sub"
    /\ pc' = IF images.os.linux THEN "boot_jump_linux" ELSE "lost"
    /\ UNCHANGED <<intenable, irq_handler, pending, timerVars, call, iflag>>

Subcommand ==
    /\ pc = "idle"
    /\ \/ bootm_start("idle")
       \/ sub_loados
       \/ \E s \in Between : sub_between(s)
       \/ \E s \in OS_CALL \cup {OS_GO} : do_bootm_linux(s)

do_bootm ==
    \/ pc = "idle" /\ bootm_start("bootm_mask")
    \/ bootm_mask \/ bootm_load_os \/ bootm_ramdisk \/ standalone_returns
    \/ boot_prep_linux \/ boot_jump_linux

(* do_reset, or somebody cycles the power of a board that is gone.         *)
Reset ==
    /\ pc \in {"do_reset", "kernel", "hang", "lost"}
    /\ irqs_on' = FALSE
    /\ intenable' \in SUBSET Internal
    /\ irq_handler' = [n \in Internal |-> NULL]
    /\ pending' = pending \ {Gpt2}
    /\ gpt_en' = FALSE /\ timer_base' = 0 /\ time_tick' = 0
    /\ pc' = "boot" /\ call' = NoCall
    /\ images' = NoImages /\ iflag' = FALSE /\ by' = "bootm"

-------------------------------------------------------------------------------

BootInit == Init /\ images = NoImages /\ iflag = FALSE /\ by = "bootm"

BootNext ==
    \/ Next /\ UNCHANGED bootVars
    \/ do_bootm \/ Subcommand \/ Reset

BootSpec == BootInit /\ [][BootNext]_allVars

-------------------------------------------------------------------------------

BootPCs == PCs \cup
    {"bootm_mask", "bootm_load", "bootm_ramdisk", "standalone",
     "boot_prep_linux", "boot_jump_linux", "kernel", "hang", "lost", "do_reset"}

(* Every variable has its type; the stages of images.state are bits that   *)
(* were or'ed in at most once each.                                        *)
BootTypeOK ==
    /\ TableTypes /\ TimerTypes /\ CallTypes
    /\ pc \in BootPCs
    /\ images \in [state : 0 .. 255, os : Image \cup {NoImage}, fdt : BOOLEAN,
                   loaded : BOOLEAN, prepared : BOOLEAN]
    /\ iflag \in BOOLEAN /\ by \in {"bootm", "sub"}

(* Past the point of no return no interrupt handler runs, and a kernel is  *)
(* entered with interrupts off however it was reached, the subcommands     *)
(* that run unmasked included.                                             *)
NoReturnMasked ==
    pc \in {"bootm_load", "bootm_ramdisk", "boot_prep_linux", "kernel"} =>
      ~irqs_on

(* bootm gives interrupts back on every path that gives the board back: at *)
(* the prompt and in a standalone application they are on.                 *)
ReturnsUnmasked == RunsUnmasked /\ (pc = "standalone" => irqs_on)

(* A kernel that bootm itself starts is the image found by its own         *)
(* bootm_start, loaded, with its device tree completed: nothing an earlier *)
(* command left in images gets it past a stage that failed.                *)
KernelReady ==
    pc = "kernel" /\ by = "bootm" =>
      images.loaded /\ images.prepared /\ images.fdt /\ images.os.type = "kernel"

===============================================================================
