-------------------------------- MODULE NandBbt --------------------------------
(***************************************************************************)
(* The bad block table of the NAND flash (drivers/mtd/nand/nand_bbt.c and  *)
(* nand_base.c, with the descriptors of mxc_nand.c).  The board keeps it   *)
(* in flash, twice: the table td and its mirror md, each in a block of its *)
(* own in a region set aside for them.  It is read on the first access     *)
(* after power-on and rewritten when a block is marked bad.                *)
(*                                                                         *)
(* Power can fail between any two operations of the chip, and an erase or  *)
(* a program can fail.  A table fits one page, and the programming of a    *)
(* page is taken to be atomic: power fails before it or after it.          *)
(*                                                                         *)
(* The table has two bits per block.  In the RAM copy they are kept apart: *)
(* `bad' are the blocks with the low bit set and `reserved' those with     *)
(* the high bit set by mark_bbt_region; worn out and bad from the factory  *)
(* are not told apart.  write_bbt stores a block that is only reserved as  *)
(* good, so a table in flash is a set of bad blocks.                       *)
(***************************************************************************)
EXTENDS Integers, FiniteSets

CONSTANTS
    NUM_BLOCKS,
    NAND_BBT_START_BLK, NAND_BBT_BLK_SIZE,   \* the region: 10 and 6
    VERSIONS,        \* values of the version byte, 256
    FactorySets,     \* the sets of blocks that may be bad from the factory
    Markable,        \* bound: the blocks that may be marked bad
    MaxFails         \* bound: operations of the chip that fail

Blocks == 0 .. NUM_BLOCKS - 1
Region == NAND_BBT_START_BLK .. NAND_BBT_START_BLK + NAND_BBT_BLK_SIZE - 1

ASSUME RegionAssumption ==
    /\ NUM_BLOCKS \in Nat \ {0}
    /\ NAND_BBT_START_BLK \in Nat /\ NAND_BBT_BLK_SIZE \in Nat
    /\ NAND_BBT_START_BLK + NAND_BBT_BLK_SIZE <= NUM_BLOCKS
    /\ Markable \subseteq Blocks /\ FactorySets \subseteq SUBSET Blocks

(* A copy that misses an update for every failure, and one for a power     *)
(* cut, is still seen to be the older one.                                 *)
ASSUME VersionAssumption ==
    /\ VERSIONS \in Nat /\ MaxFails \in Nat
    /\ 2 * (MaxFails + 2) <= VERSIONS

Versions == 0 .. VERSIONS - 1
Descr == {"td", "md"}
Other(d) == IF d = "td" THEN "md" ELSE "td"

NoPage == -1
Blank == [descr |-> "none"]
Table == [descr : Descr, version : Versions, bad : SUBSET Blocks]

VARIABLES
    \* flash
    factory,         \* the blocks with a bad block marker in their spare area
    table,           \* the table in each block of the region, or Blank
    \* memory
    scanned,         \* NAND_BBT_SCANNED
    bad, reserved,   \* this->bbt
    pages, version,  \* of the descriptors
    op,              \* what runs: "idle", "scan" (nand_scan_bbt) or "mark"
    block,           \* the block being marked
    writeops,        \* the tables it still has to write
    erased,          \* the block write_bbt has erased and not yet programmed
    ok,              \* no write of the last scan or mark failed
    \* history
    acked,           \* the blocks marked with success
    forgotten,       \* those among them that no table had when power failed
    failures         \* operations of the chip that failed

flashVars == <<factory, table>>
ramVars == <<scanned, bad, reserved, pages, version, op, block, writeops, erased, ok>>
marks == <<acked, forgotten>>
bbtVars == <<flashVars, ramVars, marks, failures>>

-------------------------------------------------------------------------------
(* Version numbers are bytes.                                              *)

(* The mutant without the wrap of a byte.                                  *)
BumpOver(v) == v + 1

Bump(v) == IF v = VERSIONS - 1 THEN 0 ELSE v + 1

(* The mutant that compares the bytes without the sign.                    *)
NewerUnsigned(v, w) == v > w

(* ((int8_t) (v - w)) > 0                                                  *)
Newer(v, w) == LET d == IF v >= w THEN v - w ELSE v - w + VERSIONS
               IN  d # 0 /\ 2 * d < VERSIONS

-------------------------------------------------------------------------------
(* nand_isbad_bbt: the region counts as bad, except for the table itself.  *)

(* The mutant that forgets the reserved blocks.                            *)
IsBadOpen(b) == b \in bad

IsBad(b) == b \in bad \cup reserved

-------------------------------------------------------------------------------
(* nand_scan_bbt up to the writing: search_bbt takes the first block with  *)
(* the pattern, check_create decides which copy to read and which to write.*)

Holds(d, b) == table[b].descr = d

search_bbt(d) ==
    IF \E b \in Region : Holds(d, b)
    THEN CHOOSE b \in Region :
           Holds(d, b) /\ \A c \in Region : Holds(d, c) => b <= c
    ELSE NoPage

(* The copy to read, and those to write; with none to read the device is   *)
(* scanned for markers.                                                    *)
Plan(rd, ops) == [rd |-> rd, writeops |-> ops]

(* The mutant that does not write the copy that is out of date.            *)
check_create_lazy(t, m) ==
    IF t = NoPage /\ m = NoPage THEN Plan("none", Descr)
    ELSE IF t = NoPage THEN Plan("md", {"td"})
    ELSE IF m = NoPage THEN Plan("td", {"md"})
    ELSE IF Newer(table[m].version, table[t].version) THEN Plan("md", {})
    ELSE Plan("td", {})

check_create(t, m) ==
    IF t = NoPage /\ m = NoPage THEN Plan("none", Descr)
    ELSE IF t = NoPage THEN Plan("md", {"td"})
    ELSE IF m = NoPage THEN Plan("td", {"md"})
    ELSE IF table[t].version = table[m].version THEN Plan("td", {})
    ELSE IF Newer(table[t].version, table[m].version) THEN Plan("td", {"md"})
    ELSE Plan("md", {"td"})

nand_scan_bbt ==
    LET found == [d \in Descr |-> search_bbt(d)]
        check == check_create(found["td"], found["md"])
        read  == table[found[check.rd]]
    IN  /\ op = "idle" /\ ~scanned
        /\ scanned' = TRUE
        /\ pages' = found
        /\ IF check.rd = "none"
           THEN bad' = factory /\ version' = [d \in Descr |-> 1]
           ELSE bad' = read.bad /\ version' = [d \in Descr |-> read.version]
        /\ op' = "scan" /\ writeops' = check.writeops /\ ok' = TRUE
        /\ UNCHANGED <<flashVars, reserved, block, erased, marks, failures>>

-------------------------------------------------------------------------------
(* write_bbt, for td before md, in steps that power can fail between.      *)

Writing == IF "td" \in writeops THEN "td" ELSE "md"

(* The mutant that does not spare the block of the other table.            *)
CandidatesShared(d) == Region \ bad

Candidates(d) == {b \in Region \ bad : b # pages[Other(d)]}

(* The block the table had, or the first good one the other does not use.  *)
PageFor(d) ==
    IF pages[d] # NoPage THEN pages[d]
    ELSE IF Candidates(d) = {} THEN NoPage
    ELSE CHOOSE b \in Candidates(d) : \A c \in Candidates(d) : b <= c

(* Any error ends the scan or the update: the mirror is not tried.         *)
GiveUp == ok' = FALSE /\ writeops' = {} /\ erased' = NoPage

(* No space left, or nand_erase_nand refuses a bad block.                  *)
write_bbt_refused ==
    /\ writeops # {} /\ erased = NoPage
    /\ PageFor(Writing) \in bad \cup {NoPage}
    /\ GiveUp
    /\ UNCHANGED <<flashVars, scanned, bad, reserved, pages, version, op, block,
                   marks, failures>>

Erasable(page) == writeops # {} /\ erased = NoPage /\ page \notin bad \cup {NoPage}

Fails == failures < MaxFails /\ failures' = failures + 1

(* nand_erase_nand on the block; if it fails the table may be gone or not. *)
write_bbt_erase ==
    LET page == PageFor(Writing) IN
    /\ Erasable(page)
    /\ table' = [table EXCEPT ![page] = Blank]
    /\ erased' = page
    /\ UNCHANGED <<factory, scanned, bad, reserved, pages, version, op, block,
                   writeops, ok, marks, failures>>

write_bbt_erase_fails ==
    LET page == PageFor(Writing) IN
    /\ Erasable(page) /\ Fails
    /\ table' \in {table, [table EXCEPT ![page] = Blank]}
    /\ GiveUp
    /\ UNCHANGED <<factory, scanned, bad, reserved, pages, version, op, block, marks>>

NewTable(d) == [descr |-> d, version |-> version[d], bad |-> bad]

(* scan_write_bbt; a page whose programming failed may hold the table.     *)
write_bbt_program ==
    /\ erased # NoPage
    /\ table' = [table EXCEPT ![erased] = NewTable(Writing)]
    /\ pages' = [pages EXCEPT ![Writing] = erased]
    /\ writeops' = writeops \ {Writing} /\ erased' = NoPage
    /\ UNCHANGED <<factory, scanned, bad, reserved, version, op, block, ok,
                   marks, failures>>

write_bbt_program_fails ==
    /\ erased # NoPage /\ Fails
    /\ table' \in {table, [table EXCEPT ![erased] = NewTable(Writing)]}
    /\ GiveUp
    /\ UNCHANGED <<factory, scanned, bad, reserved, pages, version, op, block, marks>>

(* The end of nand_scan_bbt: mark_bbt_region.                              *)
mark_bbt_region ==
    /\ op = "scan" /\ writeops = {}
    /\ reserved' = Region
    /\ op' = "idle"
    /\ UNCHANGED <<flashVars, scanned, bad, pages, version, block, writeops,
                   erased, ok, marks, failures>>

-------------------------------------------------------------------------------
(* nand_block_markbad: a block that is bad already needs nothing; for any  *)
(* other nand_default_block_markbad sets its bit and nand_update_bbt       *)
(* writes both tables.  With a table in flash no marker is written to the  *)
(* block itself.                                                           *)

nand_block_markbad(b) ==
    /\ op = "idle" /\ scanned /\ ~IsBad(b)
    /\ bad' = bad \cup {b}
    /\ version' = [d \in Descr |-> Bump(version[d])]
    /\ op' = "mark" /\ block' = b /\ writeops' = Descr /\ ok' = TRUE
    /\ UNCHANGED <<flashVars, scanned, reserved, pages, erased, marks, failures>>

(* The mutant that reports success whatever became of the tables.          *)
markbad_returns_0 ==
    /\ op = "mark" /\ writeops = {}
    /\ acked' = acked \cup {block} /\ forgotten' = forgotten \ {block}
    /\ op' = "idle"
    /\ UNCHANGED <<flashVars, scanned, bad, reserved, pages, version, block,
                   writeops, erased, ok, failures>>

markbad_returns ==
    /\ op = "mark" /\ writeops = {}
    /\ IF ok THEN acked' = acked \cup {block} /\ forgotten' = forgotten \ {block}
             ELSE UNCHANGED marks
    /\ op' = "idle"
    /\ UNCHANGED <<flashVars, scanned, bad, reserved, pages, version, block,
                   writeops, erased, ok, failures>>

-------------------------------------------------------------------------------
(* nand_erase_opts on one block: a bad or reserved block is skipped.       *)
nand_erase(b) ==
    /\ op = "idle" /\ scanned /\ ~IsBad(b)
    /\ table' = [c \in Region |-> IF c = b THEN Blank ELSE table[c]]
    /\ UNCHANGED <<factory, ramVars, marks, failures>>

(* An operation on a block outside the region fails.                       *)
ElsewhereFails == op = "idle" /\ Fails /\ UNCHANGED <<flashVars, ramVars, marks>>

RamInit ==
    /\ scanned = FALSE /\ bad = {} /\ reserved = {}
    /\ pages = [d \in Descr |-> NoPage] /\ version = [d \in Descr |-> 0]
    /\ op = "idle" /\ block = 0 /\ writeops = {} /\ erased = NoPage
    /\ ok = TRUE

(* Power fails and comes back: flash is all that is left.                  *)
PowerCut ==
    /\ scanned
    /\ scanned' = FALSE /\ bad' = {} /\ reserved' = {}
    /\ pages' = [d \in Descr |-> NoPage] /\ version' = [d \in Descr |-> 0]
    /\ op' = "idle" /\ block' = 0 /\ writeops' = {} /\ erased' = NoPage
    /\ ok' = TRUE
    /\ forgotten' = IF \A b \in Region : table[b] = Blank THEN forgotten \cup acked
                                                       ELSE forgotten
    /\ UNCHANGED <<flashVars, acked, failures>>

-------------------------------------------------------------------------------
(* A new device has no table; one in service has two that agree, in the    *)
(* first good blocks of the region and with any version (blocks beyond the *)
(* model have been marked before).                                         *)
NewDevice == table = [b \in Region |-> Blank]

InService ==
    \E t, m \in Region \ factory, v \in Versions :
        /\ \A b \in Region \ factory : t <= b /\ (b # t => m <= b)
        /\ t # m
        /\ table = [b \in Region |->
                      IF b = t THEN [descr |-> "td", version |-> v, bad |-> factory]
                      ELSE IF b = m
                      THEN [descr |-> "md", version |-> v, bad |-> factory]
                      ELSE Blank]

BbtInit ==
    /\ factory \in FactorySets
    /\ NewDevice \/ InService
    /\ RamInit
    /\ acked = {} /\ forgotten = {} /\ failures = 0

BbtStep == \/ nand_scan_bbt
           \/ write_bbt_refused
           \/ write_bbt_erase \/ write_bbt_erase_fails
           \/ write_bbt_program \/ write_bbt_program_fails
           \/ mark_bbt_region
           \/ \E b \in Markable : nand_block_markbad(b)
           \/ markbad_returns

BbtNext ==
    \/ BbtStep \/ PowerCut \/ ElsewhereFails
    \/ \E b \in Blocks : nand_erase(b)

BbtSpec == BbtInit /\ [][BbtNext]_bbtVars

-------------------------------------------------------------------------------

BbtTypeOK ==
    /\ factory \in SUBSET Blocks
    /\ table \in [Region -> Table \cup {Blank}]
    /\ scanned \in BOOLEAN
    /\ bad \in SUBSET Blocks /\ reserved \in SUBSET Region
    /\ pages \in [Descr -> Region \cup {NoPage}] /\ version \in [Descr -> Versions]
    /\ op \in {"idle", "scan", "mark"} /\ block \in Blocks
    /\ writeops \in SUBSET Descr /\ erased \in Region \cup {NoPage}
    /\ ok \in BOOLEAN /\ acked \in SUBSET Blocks /\ forgotten \in SUBSET Blocks
    /\ failures \in 0 .. MaxFails

(* A block that was marked bad with success is in the table after every    *)
(* later power-on, whichever of the two copies check_create takes then,    *)
(* and whatever updates of other blocks power or the chip cut short in     *)
(* between.  One thing alone loses marks: power that fails while neither   *)
(* copy is in flash, after which check_create rebuilds the table from the  *)
(* markers of the factory.  It takes an operation of the chip that failed  *)
(* before (one copy left blank by a failed erase, the other being          *)
(* rewritten), and it spares the blocks marked with success later.         *)
MarksSurvive ==
    /\ scanned => acked \ forgotten \subseteq bad
    /\ forgotten # {} => failures > 0

(* The table in memory knows every block that either copy in flash has     *)
(* marked: check_create never takes the older copy over the newer one,     *)
(* also when the version byte has wrapped or one copy has missed updates.  *)
RamKnowsFlash ==
    scanned => \A b \in Region : table[b] # Blank => table[b].bad \subseteq bad

(* Power cuts alone never cost both copies: once a block has been marked   *)
(* with success, and as long as no operation of the chip fails, there is a *)
(* table in flash at every moment (td is rewritten while md is left alone, *)
(* and the other way round).                                               *)
PowerCutsSpareATable ==
    acked # {} /\ failures = 0 => \E b \in Region : table[b] # Blank

(* When a scan or an update has succeeded, both copies are in flash, in    *)
(* two blocks, and say what the table in memory says: the next power cut   *)
(* finds either of them sufficient (write_bbt, nand_update_bbt).           *)
Mirrored ==
    scanned /\ op = "idle" /\ ok =>
        \A d \in Descr : pages[d] # NoPage /\ table[pages[d]] = NewTable(d)

(* Only the bad block code itself writes the blocks of the tables: no nand *)
(* command erases one, although it runs before the region is known to be   *)
(* reserved when it is the first to touch the chip (mark_bbt_region).      *)
TablesProtected == [][op = "idle" => table' = table]_bbtVars

===============================================================================
