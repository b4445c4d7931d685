------------------------------- MODULE NandFlash -------------------------------
(***************************************************************************)
(* Two programs use the flash.  U-Boot writes its own image with the nand  *)
(* command (drivers/mtd/nand/nand_util.c) and skips the blocks its bad     *)
(* block table names (NandBbt).  At power-on the first stage               *)
(* (nand_spl/nand_boot_fsl_nfc.c) loads that image and skips the blocks    *)
(* with a marker in their spare area.                                      *)
(*                                                                         *)
(* Both go upwards from the same block, so the set of blocks an image is   *)
(* in says which part of it is where.  A block that is programmed without  *)
(* having been erased holds no part of it.                                 *)
(***************************************************************************)
EXTENDS NandBbt

CONSTANTS
    U_BOOT_BLK,      \* CONFIG_SYS_NAND_U_BOOT_OFFS, in blocks
    U_BOOT_BLKS      \* CONFIG_SYS_NAND_U_BOOT_SIZE, in blocks

ASSUME ImageAssumption ==
    /\ U_BOOT_BLK \in Blocks /\ U_BOOT_BLK < NAND_BBT_START_BLK
    /\ U_BOOT_BLKS \in Nat \ {0}

VARIABLES
    image,           \* the blocks that hold the image, {} when it is broken
    blank,           \* the erased blocks outside the region
    cmd,             \* "none", or "write" while nand write runs
    boot,            \* "off", "running", or "dead": the first stage hangs or
                     \* starts something that is not the image
    skipped          \* history: the image was written past a block that is
                     \* bad for U-Boot and has no marker

imageVars == <<image, blank, cmd, skipped>>
flashAllVars == <<bbtVars, imageVars, boot>>

FirstOf(good, n) == {b \in good : Cardinality({c \in good : c < b}) < n}

-------------------------------------------------------------------------------
(* nand_boot: the first stage.                                             *)

(* is_badblock reads the byte where a table has its pattern.               *)
Marked(b) == b \in factory \/ (b \in Region /\ table[b] # Blank)

(* The mutant that checks a block only after it has read the next one.     *)
LoadableLate ==
    {b \in Blocks : b >= U_BOOT_BLK /\ (b > U_BOOT_BLK + 1 => ~Marked(b))}

(* The first block is read unchecked.                                      *)
Loadable == {b \in Blocks : b >= U_BOOT_BLK /\ (b > U_BOOT_BLK => ~Marked(b))}

nand_load == FirstOf(Loadable, U_BOOT_BLKS)

(* The block after the last one is looked for too: without one nand_load   *)
(* fails, and past the end of the chip it may see one or not.              *)
nand_load_fails ==
    IF Cardinality(nand_load) < U_BOOT_BLKS THEN {TRUE}
    ELSE IF Cardinality(Loadable) > U_BOOT_BLKS THEN {FALSE}
    ELSE IF NUM_BLOCKS - 1 \in nand_load THEN BOOLEAN
    ELSE {TRUE}

nand_boot ==
    /\ boot = "off"
    /\ \E fails \in nand_load_fails :
         boot' = IF ~fails /\ nand_load = image THEN "running" ELSE "dead"
    /\ UNCHANGED <<bbtVars, imageVars>>

-------------------------------------------------------------------------------
(* The nand command.                                                       *)

Prompt == boot = "running" /\ cmd = "none"

(* nand erase on one block.  A failure is printed and counts as success.   *)
EraseBlock(b) ==
    /\ Prompt
    /\ \/ /\ nand_erase(b)
          /\ blank' = blank \cup ({b} \ Region)
          /\ image' = IF b \in image THEN {} ELSE image
       \/ /\ scanned /\ ~IsBad(b) /\ ElsewhereFails
          /\ blank' = blank \ {b}
          /\ image' \in {image, IF b \in image THEN {} ELSE image}
    /\ UNCHANGED <<cmd, skipped, boot>>

Writable == {b \in Blocks : b >= U_BOOT_BLK /\ ~IsBad(b)}

(* The blocks nand_write_skip_bad writes to.                               *)
Place == FirstOf(Writable, U_BOOT_BLKS)

(* check_skip_len refuses an image that does not fit.                      *)
nand_write_starts ==
    /\ Prompt /\ op = "idle" /\ scanned
    /\ Cardinality(Place) = U_BOOT_BLKS
    /\ cmd' = "write" /\ image' = {}
    /\ UNCHANGED <<bbtVars, blank, skipped, boot>>

nand_write_ends ==
    /\ cmd = "write" /\ cmd' = "none"
    /\ blank' = blank \ Place
    /\ \/ /\ image' = IF Place \subseteq blank THEN Place ELSE {}
          /\ skipped' = \E b \in Blocks \ factory :
                          /\ b >= U_BOOT_BLK /\ IsBad(b)
                          /\ \E p \in Place : b < p
          /\ UNCHANGED bbtVars
       \/ ElsewhereFails /\ UNCHANGED <<image, skipped>>
    /\ UNCHANGED boot

-------------------------------------------------------------------------------

(* Whatever was programmed when power failed is not erased any more.       *)
Cut ==
    /\ boot # "off" /\ boot' = "off"
    /\ IF scanned THEN PowerCut ELSE UNCHANGED bbtVars
    /\ cmd' = "none"
    /\ blank' = IF cmd = "write" THEN blank \ Place ELSE blank
    /\ UNCHANGED <<image, skipped>>

(* The factory has written the image where the first stage looks for it.   *)
FlashInit ==
    /\ BbtInit
    /\ image = nand_load
    /\ blank = {} /\ cmd = "none" /\ boot = "off" /\ skipped = FALSE

FlashNext ==
    \/ nand_boot
    \/ Prompt /\ BbtStep /\ UNCHANGED <<imageVars, boot>>
    \/ \E b \in Blocks : EraseBlock(b)
    \/ nand_write_starts \/ nand_write_ends
    \/ Cut

FlashSpec == FlashInit /\ [][FlashNext]_flashAllVars

-------------------------------------------------------------------------------

FlashTypeOK ==
    /\ BbtTypeOK
    /\ image \in SUBSET Blocks /\ blank \in SUBSET (Blocks \ Region)
    /\ cmd \in {"none", "write"} /\ boot \in {"off", "running", "dead"}
    /\ skipped \in BOOLEAN

(* The first stage starts the image that is in flash, wherever the nand    *)
(* command has put it, after any history of marks, erasures, writes and    *)
(* power cuts (nand_load against nand_write_skip_bad).  Excepted are a     *)
(* first block that is bad from the factory, which nand_load does not      *)
(* check, and an image written past a block that only the bad block table  *)
(* knows to be bad.                                                        *)
ImageBoots ==
    boot = "dead" => image = {} \/ skipped \/ U_BOOT_BLK \in factory

(* The comment at nand_boot_fsl_nfc.c:237 says of a new block "See if this *)
(* block is good. If not, loop until we find a good block.": the image is  *)
(* found whichever blocks are bad.                                         *)
BadBlocksSkipped == boot = "dead" => image = {} \/ U_BOOT_BLK \in factory

===============================================================================
