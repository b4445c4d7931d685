----------------------------- MODULE NandBbtProofs -----------------------------
(***************************************************************************)
(* The bad block table is safe for every size of the device, every set of  *)
(* factory bad blocks and any number of failures the version byte can tell *)
(* apart, whatever the nand command and the first stage do to the flash.   *)
(***************************************************************************)
EXTENDS NandFlash, NandBbtInv, FiniteSetTheorems

(* The ends of a scan and of a mark, and what happens in between.          *)

(* With every table written, or none left to write, each one in flash is   *)
(* the table in memory.                                                    *)
LEMMA AllWritten ==
    ASSUME IInv, scanned, ok, writeops = {}, NEW b \in Tables
    PROVE  table[b].bad = bad /\ table[b].version = version["td"]
<1>1. table[b].descr \in Descr /\ Home(table[b].descr, b)
    BY TableFacts, Zenon DEF IInv, Placed, Tables
<1>2. /\ pages[table[b].descr] # NoPage
      /\ table[pages[table[b].descr]] = NewTable(table[b].descr)
    BY <1>1, Zenon DEF IInv, Written
<1>3. Home(table[b].descr, pages[table[b].descr])
    BY <1>1, <1>2, Zenon DEF IInv, Placed
<1>4. pages[table[b].descr] = b
    BY <1>1, <1>3, HomeUnique
<1>5. version[table[b].descr] = version["td"]
    BY <1>1, Zenon DEF IInv, Versioned, Descr
<1> QED
    BY <1>2, <1>4, <1>5 DEF NewTable

(* A scan or a mark ends, and a mark may make its promise.                 *)
LEMMA ReturnKeepsIInv ==
    ASSUME IInv, mark_bbt_region \/ markbad_returns
    PROVE  IInv'
<1>1. /\ factory' = factory /\ table' = table /\ scanned' = scanned /\ bad' = bad
      /\ pages' = pages /\ version' = version /\ block' = block /\ op' = "idle"
      /\ writeops' = writeops /\ writeops = {} /\ erased' = erased /\ ok' = ok
      /\ failures' = failures /\ op # "idle"
      /\ \/ op = "scan" /\ reserved' = Region
            /\ acked' = acked /\ forgotten' = forgotten
         \/ op = "mark" /\ reserved' = reserved
            /\ IF ok THEN acked' = acked \cup {block} /\ forgotten' = forgotten \ {block}
                     ELSE acked' = acked /\ forgotten' = forgotten
    BY Zenon DEF mark_bbt_region, markbad_returns, flashVars, marks
<1>2. scanned /\ (op = "mark" => reserved = Region /\ block \in bad)
    BY <1>1, Zenon DEF IInv, Flow
<1>3. /\ Tables' = Tables /\ \A b, d : (Holds(d, b))' = Holds(d, b)
      /\ \A b, d : (Home(d, b))' = Home(d, b)
      /\ \A b : (First(b))' = First(b) /\ (Second(b))' = Second(b)
    BY <1>1, Zenon DEF Tables, Holds, Home, First, Second, Good
<1>4. BbtTypeOK' /\ Flow'
    BY <1>1, <1>2, Zenon DEF IInv, BbtTypeOK, Flow
<1>5. Placed' /\ Written'
    <2>1. erased = NoPage
        BY <1>1, Zenon DEF IInv, Flow
    <2>2. Placed'
        BY <1>1, <1>3, <2>1, Zenon DEF IInv, Placed
    <2> QED
        BY <1>1, <2>2, Zenon DEF IInv, Written, NewTable
<1>6. Kept'
    <2>1. ASSUME ok PROVE \A b \in Tables : block \in bad => block \in table[b].bad
        BY <1>1, <1>2, <2>1, AllWritten, Zenon
    <2> QED
        BY <1>1, <1>2, <1>3, <2>1, Zenon DEF IInv, Kept
<1>7. Spare'
    <2>1. CASE acked' = acked
        BY <1>1, <1>3, <2>1, Zenon DEF IInv, Spare
    <2>2. CASE acked' # acked
        <3>1. ok
            BY <1>1, <2>2, Zenon
        <3>2. \A d \in Descr : /\ pages[d] # NoPage /\ table[pages[d]] = NewTable(d)
                               /\ Home(d, pages[d])
            BY <1>1, <1>2, <3>1, Zenon DEF IInv, Written, Placed
        <3>3. First(pages["td"]) /\ Second(pages["md"])
            BY <3>2, Zenon DEF Home, Descr
        <3>4. pages["td"] \in Region /\ pages["md"] \in Region
            BY <3>3, Zenon DEF First, Second, Good
        <3>5. table[pages["td"]].descr = "td"
            BY <3>2 DEF NewTable, Descr
        <3>6. pages["td"] \in Tables
            BY <3>4, <3>5, TableFacts, Zenon DEF IInv, Tables, Descr
        <3> QED
            BY <1>1, <1>3, <3>1, <3>3, <3>4, <3>6, Zenon DEF Spare
    <2> QED
        BY <2>1, <2>2, Zenon
<1>8. Versioned'
    <2>1. failures \in Nat /\ version["td"] \in Versions
        BY VersionAssumption DEF IInv, BbtTypeOK, Descr
    <2>2. Drift' = failures
        BY <1>1, Zenon DEF Drift
    <2>3. \A b \in Tables : Dist(version["td"], table[b].version) <= failures
        <3>1. CASE ok
            BY <1>1, <1>2, <2>1, <3>1, AllWritten, DistFacts
        <3>2. CASE ~ok
            BY <1>2, <3>2, Zenon DEF IInv, Versioned, Drift
        <3> QED
            BY <3>1, <3>2, Zenon
    <2> QED
        BY <1>1, <1>2, <1>3, <2>2, <2>3, Zenon DEF IInv, Versioned, Dist
<1> QED
    BY <1>4, <1>5, <1>6, <1>7, <1>8, Zenon DEF IInv

(* Marking starts: memory gets one update ahead of both tables.            *)
LEMMA MarkKeepsIInv ==
    ASSUME IInv, NEW b \in Markable, nand_block_markbad(b)
    PROVE  IInv'
<1>1. /\ op = "idle" /\ scanned /\ b \notin bad \cup reserved
      /\ bad' = bad \cup {b} /\ version' = [d \in Descr |-> Bump(version[d])]
      /\ op' = "mark" /\ block' = b /\ writeops' = Descr /\ ok' = TRUE
      /\ factory' = factory /\ table' = table /\ scanned' = scanned
      /\ reserved' = reserved /\ pages' = pages /\ erased' = erased
      /\ acked' = acked /\ forgotten' = forgotten /\ failures' = failures
    BY Zenon DEF nand_block_markbad, IsBad, flashVars, marks
<1>2. writeops = {} /\ erased = NoPage /\ reserved = Region
    BY <1>1, Zenon DEF IInv, Flow
<1>3. b \in Blocks /\ b \notin Region
    BY <1>1, <1>2, RegionAssumption, Zenon
<1>4. /\ Tables' = Tables /\ \A c, d : (Holds(d, c))' = Holds(d, c)
      /\ \A c, d : (Home(d, c))' = Home(d, c)
      /\ \A c : (First(c))' = First(c) /\ (Second(c))' = Second(c)
    BY <1>1, Zenon DEF Tables, Holds, Home, First, Second, Good
<1>5. version \in [Descr -> Versions]
    BY Zenon DEF IInv, BbtTypeOK
<1>6. BbtTypeOK' /\ Flow'
    <2>1. version' \in [Descr -> Versions]
        BY <1>1, <1>5, VersionFacts, Zenon
    <2>2. BbtTypeOK'
        BY <1>1, <1>3, <2>1, Zenon DEF IInv, BbtTypeOK
    <2> QED
        BY <1>1, <1>2, <2>2, Zenon DEF Flow, Descr
<1>7. Placed'
    <2>1. bad' \cap Region = factory \cap Region
        BY <1>1, <1>3, Zenon DEF IInv, Placed
    <2>2. writeops' # {"md"}
        BY <1>1 DEF Descr
    <2> QED
        BY <1>1, <1>2, <1>4, <2>1, <2>2, Zenon DEF IInv, Placed
<1>8. Written' /\ Kept'
    BY <1>1, <1>4, Zenon DEF IInv, Written, Kept
<1>9. Spare'
    <2>1. SUFFICES ASSUME failures = 0, acked # {}
          PROVE \E c \in Region : Holds("md", c)
        BY <1>1, <1>4, Zenon DEF IInv, Spare
    <2>2. /\ pages["md"] # NoPage /\ table[pages["md"]] = NewTable("md")
          /\ Home("md", pages["md"])
        BY <1>1, <1>2, <2>1, Zenon DEF IInv, Spare, Written, Placed, Descr
    <2> QED
        BY <2>2 DEF Holds, NewTable, Home, Second, Good
<1>10. Versioned'
    <2>1. version'["td"] = Bump(version["td"]) /\ version'["md"] = Bump(version["md"])
        BY <1>1, Zenon DEF Descr
    <2>2. Drift = failures /\ Drift' = failures + 1 /\ failures \in 0 .. MaxFails
        BY <1>1, Zenon DEF Drift, IInv, BbtTypeOK
    <2>3. ASSUME NEW c \in Tables
          PROVE  /\ Dist(version'["td"], table[c].version) <= failures + 1
                 /\ table[c].bad \subseteq bad'
                 /\ table[c].version # version'["td"]
        <3>1. /\ version["td"] \in Versions /\ table[c].version \in Versions
              /\ Bump(version["td"]) \in Versions
            BY <1>5, TableFacts, VersionFacts, Zenon DEF IInv, Tables, Descr
        <3>2. Dist(version["td"], table[c].version) <= failures
            BY <1>1, <2>2, Zenon DEF IInv, Versioned
        <3>3. Dist(version["td"], table[c].version) \in Nat
            BY <3>1, DistFacts, Zenon
        <3>4. Dist(version["td"], table[c].version) <= MaxFails + 1
            BY <2>2, <3>2, <3>3, VersionAssumption
        <3>5. Dist(Bump(version["td"]), table[c].version)
                = Dist(version["td"], table[c].version) + 1
            BY <3>1, <3>4, DistFacts, Zenon
        <3>6. /\ Dist(Bump(version["td"]), table[c].version) <= failures + 1
              /\ Dist(Bump(version["td"]), table[c].version) # 0
            BY <2>2, <3>2, <3>3, <3>5, VersionAssumption
        <3>7. table[c].version # Bump(version["td"])
            BY <3>1, <3>6, DistFacts, Zenon
        <3> QED
            BY <1>1, <2>1, <3>6, <3>7, Zenon DEF IInv, Versioned
    <2> QED
        BY <1>1, <1>4, <2>1, <2>2, <2>3 DEF IInv, Versioned, Dist
<1> QED
    BY <1>6, <1>7, <1>8, <1>9, <1>10, Zenon DEF IInv

(* The nand command leaves the tables alone; a failure elsewhere only      *)
(* allows more drift.                                                      *)
LEMMA CommandKeepsIInv ==
    ASSUME IInv, ElsewhereFails \/ \E b \in Blocks : nand_erase(b)
    PROVE  IInv' /\ table' = table
<1>1. /\ factory' = factory /\ scanned' = scanned /\ bad' = bad
      /\ reserved' = reserved /\ pages' = pages /\ version' = version
      /\ op' = op /\ block' = block /\ writeops' = writeops
      /\ erased' = erased /\ ok' = ok /\ acked' = acked
      /\ forgotten' = forgotten /\ op = "idle"
    BY Zenon DEF ElsewhereFails, nand_erase, flashVars, ramVars, marks
<1>2. table' = table
    <2>1. CASE ElsewhereFails
        BY <2>1, Zenon DEF ElsewhereFails, flashVars
    <2>2. CASE \E b \in Blocks : nand_erase(b)
        <3>1. PICK b \in Blocks : nand_erase(b)
            BY <2>2, Zenon
        <3>2. b \notin Region
            BY <1>1, <3>1, Zenon DEF nand_erase, IsBad, IInv, Flow
        <3> QED
            BY <3>1, <3>2 DEF nand_erase, IInv, BbtTypeOK
    <2> QED
        BY <2>1, <2>2, Zenon
<1>3. /\ failures \in Nat /\ failures' \in {failures, failures + 1}
      /\ failures' \in 0 .. MaxFails
    BY VersionAssumption DEF ElsewhereFails, nand_erase, Fails, IInv, BbtTypeOK
<1>4. /\ Tables' = Tables /\ \A c, d : (Holds(d, c))' = Holds(d, c)
      /\ \A c, d : (Home(d, c))' = Home(d, c)
      /\ \A c : (First(c))' = First(c) /\ (Second(c))' = Second(c)
    BY <1>1, <1>2, Zenon DEF Tables, Holds, Home, First, Second, Good
<1>5. BbtTypeOK' /\ Flow' /\ Kept'
    <2>1. failures > 0 => failures' > 0
        BY <1>3
    <2> QED
        BY <1>1, <1>2, <1>3, <1>4, <2>1, Zenon DEF IInv, BbtTypeOK, Flow, Kept
<1>6. Placed' /\ Written'
    <2>1. erased = NoPage
        BY <1>1, Zenon DEF IInv, Flow
    <2>2. Placed'
        BY <1>1, <1>2, <1>4, <2>1, Zenon DEF IInv, Placed
    <2> QED
        BY <1>1, <1>2, <2>2, Zenon DEF IInv, Written, NewTable
<1>7. Spare'
    <2>1. failures' = 0 => failures = 0
        BY <1>3
    <2> QED
        BY <1>1, <1>2, <1>4, <2>1, Zenon DEF IInv, Spare
<1>8. Versioned'
    <2>1. Drift = failures /\ Drift' = failures'
        BY <1>1, Zenon DEF Drift
    <2>2. ASSUME NEW c \in Tables, scanned
          PROVE Dist(version["td"], table[c].version) <= failures'
        <3>1. version["td"] \in Versions /\ table[c].version \in Versions
            BY TableFacts, Zenon DEF IInv, BbtTypeOK, Tables, Descr
        <3>2. Dist(version["td"], table[c].version) \in Nat
            BY <3>1, DistFacts, Zenon
        <3> QED
            BY <1>3, <2>1, <2>2, <3>2 DEF IInv, Versioned
    <2>3. ASSUME NEW t \in Region, NEW m \in Region, Holds("td", t), Holds("md", m)
          PROVE  Dist(table[t].version, table[m].version) <= failures' + 1
        <3>1. table[t].version \in Versions /\ table[m].version \in Versions
            BY <2>3, TableFacts, Zenon DEF IInv, Holds, Descr
        <3>2. Dist(table[t].version, table[m].version) \in Nat
            BY <3>1, DistFacts, Zenon
        <3> QED
            BY <1>3, <2>3, <3>2 DEF IInv, Versioned
    <2> QED
        BY <1>1, <1>2, <1>4, <2>1, <2>2, <2>3 DEF IInv, Versioned, Dist
<1> QED
    BY <1>2, <1>5, <1>6, <1>7, <1>8, Zenon DEF IInv

(* Power fails at any moment.                                              *)
LEMMA CutKeepsIInv ==
    ASSUME IInv, PowerCut
    PROVE  IInv'
<1>1. /\ factory' = factory /\ table' = table /\ acked' = acked /\ failures' = failures
      /\ scanned' = FALSE /\ bad' = {} /\ reserved' = {}
      /\ pages' = [d \in Descr |-> NoPage] /\ version' = [d \in Descr |-> 0]
      /\ op' = "idle" /\ block' = 0 /\ writeops' = {} /\ erased' = NoPage /\ ok' = TRUE
      /\ forgotten' = IF Tables = {} THEN forgotten \cup acked ELSE forgotten
    BY Zenon DEF PowerCut, flashVars, Tables
<1>2. 0 \in Blocks /\ 0 \in Versions
    BY RegionAssumption, VersionAssumption DEF Blocks, Versions
<1>3. /\ Tables' = Tables /\ \A c, d : (Holds(d, c))' = Holds(d, c)
      /\ \A c, d : (Home(d, c))' = Home(d, c)
      /\ \A c : (First(c))' = First(c) /\ (Second(c))' = Second(c)
    BY <1>1, Zenon DEF Tables, Holds, Home, First, Second, Good
<1>4. BbtTypeOK' /\ Flow' /\ Written'
    BY <1>1, <1>2, <1>3, Zenon DEF IInv, BbtTypeOK, Flow, Written
<1>8. Kept'
    <2>1. acked # {} /\ Tables = {} => failures > 0
        <3>1. failures \in Nat
            BY VersionAssumption DEF IInv, BbtTypeOK
        <3>2. acked # {} /\ Tables = {} => failures # 0
            BY Zenon DEF IInv, Spare
        <3> QED
            BY <3>1, <3>2
    <2>2. forgotten' # {} => failures > 0
        BY <1>1, <2>1, Zenon DEF IInv, Kept
    <2> QED
        BY <1>1, <1>3, <2>2, Zenon DEF IInv, Kept
<1>5. Placed'
    BY <1>1, <1>3, Zenon DEF IInv, Placed
<1>6. Spare'
    BY <1>1, <1>3, Zenon DEF IInv, Spare
<1>7. Versioned'
    BY <1>1, <1>3 DEF IInv, Versioned, Dist, Descr
<1> QED
    BY <1>4, <1>5, <1>6, <1>7, <1>8, Zenon DEF IInv

-------------------------------------------------------------------------------

(* Everything the flash sees from the two programs is a step of the bad    *)
(* block code, an erasure that skips bad blocks, a failure elsewhere or a  *)
(* power cut.                                                              *)
LEMMA FlashStepIsBbtStep ==
    ASSUME [FlashNext]_flashAllVars
    PROVE  [BbtNext]_bbtVars
<1>1. CASE UNCHANGED flashAllVars
    BY <1>1, Zenon DEF flashAllVars
<1>2. CASE nand_boot \/ nand_write_starts
    BY <1>2, Zenon DEF nand_boot, nand_write_starts
<1>3. CASE BbtStep
    BY <1>3, Zenon DEF BbtNext
<1>4. CASE \E b \in Blocks : EraseBlock(b)
    BY <1>4, Zenon DEF EraseBlock, BbtNext
<1>5. CASE nand_write_ends
    BY <1>5, Zenon DEF nand_write_ends, BbtNext
<1>6. CASE Cut
    BY <1>6, Zenon DEF Cut, BbtNext
<1> QED
    BY <1>1, <1>2, <1>3, <1>4, <1>5, <1>6, Zenon DEF FlashNext

(* The invariant holds whatever the two programs do with the flash.        *)
THEOREM IInvHolds == FlashSpec => []IInv
<1>1. FlashInit => IInv
    BY InitIInv, Zenon DEF FlashInit
<1>2. ASSUME IInv, [BbtNext]_bbtVars PROVE IInv'
    <2>1. CASE UNCHANGED bbtVars
        BY <1>2, <2>1 DEF bbtVars, flashVars, ramVars, IInv, BbtTypeOK, Flow, Placed,
            Written, Kept, Spare, Versioned, Tables, Holds, Home, First, Second, Good,
            Writing, NewTable, Drift, Dist, marks
    <2>2. CASE BbtStep
        BY <1>2, <2>2, ScanKeepsIInv, RefusedKeepsIInv, EraseKeepsIInv, ProgramKeepsIInv,
           ReturnKeepsIInv, MarkKeepsIInv, Zenon DEF BbtStep
    <2>3. CASE PowerCut
        BY <1>2, <2>3, CutKeepsIInv, Zenon
    <2>4. CASE ElsewhereFails \/ \E b \in Blocks : nand_erase(b)
        BY <1>2, <2>4, CommandKeepsIInv, Zenon
    <2> QED
        BY <1>2, <2>1, <2>2, <2>3, <2>4, Zenon DEF BbtNext
<1>3. IInv /\ [FlashNext]_flashAllVars => IInv'
    BY <1>2, FlashStepIsBbtStep, Zenon
<1> QED
    BY <1>1, <1>3, PTL DEF FlashSpec

(* A block that was marked bad with success is in the table in memory      *)
(* after every later power-on, unless power has failed since while neither *)
(* copy was in flash; and that does not happen before an operation of the  *)
(* chip has failed (nand_block_markbad, write_bbt, nand_scan_bbt).         *)
THEOREM MarksSurviveHolds == FlashSpec => []MarksSurvive
<1>1. IInv => MarksSurvive
    BY Zenon DEF IInv, Kept, MarksSurvive
<1> QED
    BY <1>1, IInvHolds, PTL

(* check_create never takes the older copy over the newer one: memory      *)
(* knows every block that either copy in flash has marked.                 *)
THEOREM RamKnowsFlashHolds == FlashSpec => []RamKnowsFlash
<1>1. IInv => RamKnowsFlash
    BY Zenon DEF IInv, Versioned, RamKnowsFlash, Tables
<1> QED
    BY <1>1, IInvHolds, PTL

(* Power cuts alone never cost both copies (write_bbt rewrites td while md *)
(* is left alone).                                                         *)
THEOREM PowerCutsSpareATableHolds == FlashSpec => []PowerCutsSpareATable
<1>1. IInv => PowerCutsSpareATable
    BY Zenon DEF IInv, Spare, PowerCutsSpareATable, Tables
<1> QED
    BY <1>1, IInvHolds, PTL

(* After a scan or an update that succeeded, both copies are in flash and  *)
(* say what the table in memory says.                                      *)
THEOREM MirroredHolds == FlashSpec => []Mirrored
<1>1. IInv => Mirrored
    BY Zenon DEF IInv, Flow, Written, Mirrored
<1> QED
    BY <1>1, IInvHolds, PTL

(* Only the bad block code writes the blocks of the tables: the nand       *)
(* command skips them (mark_bbt_region).                                   *)
THEOREM TablesProtectedHolds == FlashSpec => TablesProtected
<1>1. IInv /\ [FlashNext]_flashAllVars => [op = "idle" => table' = table]_bbtVars
    <2> SUFFICES ASSUME IInv, [BbtNext]_bbtVars, op = "idle"
                 PROVE  table' = table
        BY FlashStepIsBbtStep, Zenon
    <2>1. writeops = {} /\ erased = NoPage
        BY Zenon DEF IInv, Flow
    <2>2. CASE UNCHANGED bbtVars
        BY <2>2, Zenon DEF bbtVars, flashVars
    <2>3. CASE BbtStep
        BY <2>1, <2>3, Zenon DEF BbtStep, nand_scan_bbt, write_bbt_refused, write_bbt_erase,
            write_bbt_erase_fails, Erasable, write_bbt_program, write_bbt_program_fails,
            mark_bbt_region, nand_block_markbad, markbad_returns, flashVars
    <2>4. CASE PowerCut
        BY <2>4, Zenon DEF PowerCut, flashVars
    <2>5. CASE ElsewhereFails \/ \E b \in Blocks : nand_erase(b)
        BY <2>5, CommandKeepsIInv, Zenon
    <2> QED
        BY <2>2, <2>3, <2>4, <2>5, Zenon DEF BbtNext
<1> QED
    BY <1>1, IInvHolds, PTL DEF FlashSpec, TablesProtected


-------------------------------------------------------------------------------
(* The image.                                                              *)

(* The blocks without a marker from the image's first block on, and those  *)
(* of them that an image is in as long as no block is marked before them.  *)
Sound(f) == {b \in Blocks : b >= U_BOOT_BLK /\ b \notin f}
Settled == FirstOf(Sound(factory), U_BOOT_BLKS)

(* What the layout of the flash relies on: however the factory left the    *)
(* chip, there are good blocks for the image below the tables, and one     *)
(* more outside their region for the look ahead of nand_load.              *)
Roomy ==
    \A f \in FactorySets :
        /\ Cardinality({b \in Sound(f) : b < NAND_BBT_START_BLK}) >= U_BOOT_BLKS
        /\ Cardinality(Sound(f) \ Region) > U_BOOT_BLKS

(* What the tables keep of the factory's markers.                          *)
FactoryKnown ==
    /\ factory \in FactorySets
    /\ scanned => factory \subseteq bad
    /\ \A b \in Tables : factory \subseteq table[b].bad

ImageFits == skipped \/ U_BOOT_BLK \in factory \/ image = {} \/ image = Settled

WriteRuns ==
    cmd = "write" => /\ boot = "running" /\ scanned /\ image = {}
                     /\ Cardinality(Place) = U_BOOT_BLKS

ImageInv == FlashTypeOK /\ FactoryKnown /\ ImageFits /\ WriteRuns /\ ImageBoots

(* Sets of blocks are finite, and counted by natural numbers.              *)
LEMMA BlocksFinite ==
    ASSUME NEW S \in SUBSET Blocks
    PROVE  /\ IsFiniteSet(S) /\ Cardinality(S) \in Nat /\ S \in SUBSET Nat
           /\ \A T \in SUBSET S : Cardinality(T) <= Cardinality(S)
<1>1. 0 \in Int /\ NUM_BLOCKS - 1 \in Int
    BY RegionAssumption
<1>2. IsFiniteSet(Blocks)
    BY <1>1, FS_Interval, Zenon DEF Blocks
<1>3. IsFiniteSet(S)
    BY <1>2, FS_Subset, Zenon
<1>4. S \in SUBSET Nat
    BY RegionAssumption DEF Blocks
<1> QED
    BY <1>3, <1>4, FS_Subset, FS_CardinalityType, Zenon

(* The first n of at least n blocks are at least n.                        *)
LEMMA FirstOfFills ==
    ASSUME NEW S \in SUBSET Blocks, NEW n \in Nat, Cardinality(S) >= n
    PROVE  Cardinality(FirstOf(S, n)) >= n
<1> DEFINE F == FirstOf(S, n)
<1>1. F \in SUBSET S /\ F \in SUBSET Blocks
    BY Zenon DEF FirstOf
<1>2. CASE F = S
    BY <1>2, Zenon
<1>3. CASE F # S
    <2>1. S \ F # {} /\ S \ F \in SUBSET Nat
        BY <1>1, <1>3, BlocksFinite, Zenon
    <2>2. PICK x \in S \ F : \A y \in S \ F : x <= y
        BY <2>1, LeastExists, Zenon
    <2> DEFINE B == {c \in S : c < x}
    <2>3. ~(Cardinality(B) < n)
        BY <2>2, Zenon DEF FirstOf
    <2>4. B \in SUBSET F
        <3>1. ASSUME NEW c \in S, c < x PROVE c \in F
            BY <2>1, <2>2, <3>1, BlocksFinite
        <3> QED BY <3>1, Zenon
    <2>5. Cardinality(B) \in Nat /\ Cardinality(F) \in Nat /\ Cardinality(B) <= Cardinality(F)
        BY <1>1, <2>4, BlocksFinite, Zenon
    <2> QED
        BY <2>3, <2>5
<1> QED
    BY <1>2, <1>3, Zenon

(* The first n blocks are below e if there are n blocks below e, and then  *)
(* nothing from e on has a say in which they are.                          *)
LEMMA FirstOfBelow ==
    ASSUME NEW S \in SUBSET Blocks, NEW T \in SUBSET Blocks,
           NEW n \in Nat, NEW e \in Nat,
           {b \in S : b < e} = {b \in T : b < e},
           Cardinality({b \in S : b < e}) >= n
    PROVE  FirstOf(S, n) \subseteq FirstOf(T, n)
<1> SUFFICES ASSUME NEW x \in FirstOf(S, n) PROVE x \in FirstOf(T, n)
    OBVIOUS
<1>1. x \in S /\ x \in Nat /\ Cardinality({c \in S : c < x}) < n
    BY BlocksFinite, Zenon DEF FirstOf
<1>2. x < e
    <2>1. SUFFICES ASSUME ~(x < e) PROVE FALSE
        OBVIOUS
    <2> DEFINE A == {c \in S : c < x}
               B == {b \in S : b < e}
    <2>2. B \in SUBSET A
        <3>1. \A b \in S : b \in Nat
            BY BlocksFinite, Zenon
        <3>2. \A b \in S : b < e => b < x
            BY <1>1, <2>1, <3>1
        <3> QED BY <3>2, Zenon
    <2>3. A \in SUBSET Blocks /\ B \in SUBSET Blocks
        OBVIOUS
    <2>4. Cardinality(A) \in Nat /\ Cardinality(B) \in Nat /\ Cardinality(B) <= Cardinality(A)
        BY <2>2, <2>3, BlocksFinite, Zenon
    <2> QED
        BY <1>1, <2>4
<1>3. {c \in S : c < x} = {c \in T : c < x}
    <2>1. \A b \in Blocks : b \in Nat
        BY RegionAssumption DEF Blocks
    <2>2. \A c \in Blocks : c < x => c < e
        BY <1>1, <1>2, <2>1
    <2>3. \A c \in Blocks : c < x => (c \in S <=> c \in T)
        BY <2>2, Zenon
    <2> QED BY <2>3, Zenon
<1>4. x \in T
    BY <1>1, <1>2, Zenon
<1> QED
    BY <1>1, <1>3, <1>4 DEF FirstOf

(* As long as the image's first block is good, nand_load takes the settled *)
(* blocks and succeeds, wherever the tables are.                           *)
LEMMA LoadsSettled ==
    ASSUME Roomy, IInv, FactoryKnown, U_BOOT_BLK \notin factory
    PROVE  nand_load = Settled /\ nand_load_fails = {FALSE}
<1> DEFINE S == Sound(factory)
           L == Loadable
           n == U_BOOT_BLKS
           e == NAND_BBT_START_BLK
<1>0. /\ n \in Nat /\ e \in Nat /\ U_BOOT_BLK \in Nat /\ U_BOOT_BLK < e
      /\ \A b \in Blocks : b \in Nat
      /\ \A b \in Region : b >= e
    BY ImageAssumption, RegionAssumption DEF Blocks, Region
<1>1. S \in SUBSET Blocks /\ L \in SUBSET Blocks
    BY Zenon DEF Sound, Loadable
<1>2. U_BOOT_BLK \notin Region
    BY <1>0
<1>3. L = {b \in S : ~(b \in Region /\ table[b] # Blank)}
    <2>1. ASSUME NEW b \in Blocks, b >= U_BOOT_BLK
          PROVE  (b > U_BOOT_BLK => ~Marked(b))
                    <=> b \notin factory /\ ~(b \in Region /\ table[b] # Blank)
        <3>1. CASE b = U_BOOT_BLK
            BY <1>0, <1>2, <3>1
        <3>2. CASE b # U_BOOT_BLK
            <4>1. b > U_BOOT_BLK
                BY <1>0, <2>1, <3>2
            <4> QED BY <4>1, Zenon DEF Marked
        <3> QED BY <3>1, <3>2, Zenon
    <2> QED BY <2>1, Zenon DEF Loadable, Sound
<1>4. {b \in S : b < e} = {b \in L : b < e}
    <2>1. \A b \in Blocks : b < e => b \notin Region
        BY <1>0
    <2> QED BY <1>1, <1>3, <2>1, Zenon
<1>5. Cardinality({b \in S : b < e}) >= n /\ Cardinality(S \ Region) > n
    BY Zenon DEF Roomy, FactoryKnown
<1>6. FirstOf(S, n) = FirstOf(L, n)
    <2> HIDE DEF S, L, n, e
    <2>1. FirstOf(S, n) \subseteq FirstOf(L, n)
        BY <1>0, <1>1, <1>4, <1>5, FirstOfBelow
    <2>2. FirstOf(L, n) \subseteq FirstOf(S, n)
        BY <1>0, <1>1, <1>4, <1>5, FirstOfBelow
    <2> QED BY <2>1, <2>2
<1>7. Cardinality(L) > n
    <2>1. S \ Region \in SUBSET L
        BY <1>3, Zenon
    <2>2. Cardinality(S \ Region) \in Nat /\ Cardinality(L) \in Nat
        BY <1>1, BlocksFinite, Zenon
    <2>3. Cardinality(S \ Region) <= Cardinality(L)
        BY <1>1, <2>1, BlocksFinite, Zenon
    <2> QED BY <1>0, <1>5, <2>2, <2>3
<1>8. Cardinality(L) \in Nat /\ Cardinality(FirstOf(L, n)) \in Nat
    <2>1. FirstOf(L, n) \in SUBSET Blocks
        BY <1>1, Zenon DEF FirstOf
    <2> QED BY <1>1, <2>1, BlocksFinite, Zenon
<1>9. Cardinality(FirstOf(L, n)) >= n
    BY <1>0, <1>1, <1>7, <1>8, FirstOfFills
<1>10. nand_load_fails = {FALSE}
    <2>1. ~(Cardinality(nand_load) < U_BOOT_BLKS) /\ Cardinality(Loadable) > U_BOOT_BLKS
        BY <1>0, <1>7, <1>8, <1>9 DEF nand_load
    <2> QED BY <2>1, Zenon DEF nand_load_fails
<1> QED
    BY <1>6, <1>10, Zenon DEF nand_load, Settled

(* An image that passed no block which only the table knows to be bad is   *)
(* in the settled blocks.                                                  *)
LEMMA WritesSettled ==
    ASSUME FactoryKnown, scanned, Cardinality(Place) = U_BOOT_BLKS,
           ~ \E b \in Blocks \ factory : /\ b >= U_BOOT_BLK /\ IsBad(b)
                                         /\ \E p \in Place : b < p
    PROVE  Place = Settled
<1> DEFINE S == Sound(factory)
           W == Writable
           n == U_BOOT_BLKS
<1>0. n \in Nat /\ \A b \in Blocks : b \in Nat
    BY ImageAssumption, RegionAssumption DEF Blocks
<1>1. W \in SUBSET S /\ S \in SUBSET Blocks /\ W \in SUBSET Blocks
    BY Zenon DEF Writable, Sound, FactoryKnown, IsBad
<1>2. \A b \in S : b \in W \/ IsBad(b)
    BY Zenon DEF Writable, Sound
<1>3. \A b \in S, p \in Place : b < p => b \in W
    BY <1>2, Zenon DEF Sound
<1>4. Place \in SUBSET W
    BY Zenon DEF Place, FirstOf
<1>5. ASSUME NEW p \in Place PROVE p \in Settled
    <2>1. {c \in S : c < p} = {c \in W : c < p}
        BY <1>1, <1>3, Zenon
    <2>2. p \in W /\ Cardinality({c \in W : c < p}) < n
        BY Zenon DEF Place, FirstOf
    <2>3. p \in S /\ Cardinality({c \in S : c < p}) < n
        BY <1>1, <2>1, <2>2, Zenon
    <2> QED BY <2>3, Zenon DEF Settled, FirstOf
<1>6. ASSUME NEW x \in Settled PROVE x \in Place
    <2> DEFINE A == {c \in S : c < x}
               B == {c \in W : c < x}
    <2>1. x \in S /\ Cardinality(A) < n /\ x \in Nat
        BY <1>0, <1>1, Zenon DEF Settled, FirstOf
    <2>2. A \in SUBSET Blocks /\ B \in SUBSET A
        BY <1>1, Zenon
    <2>3. Cardinality(A) \in Nat /\ Cardinality(B) \in Nat /\ Cardinality(B) <= Cardinality(A)
        BY <2>2, BlocksFinite, Zenon
    <2>4. CASE x \in W
        BY <1>0, <2>1, <2>3, <2>4 DEF Place, FirstOf
    <2>5. CASE x \notin W
        <3>1. \A p \in Place : p < x
            BY <1>0, <1>1, <1>3, <1>4, <2>1, <2>5
        <3>2. Place \in SUBSET A
            BY <1>1, <1>4, <3>1, Zenon
        <3>3. Cardinality(Place) <= Cardinality(A)
            BY <2>2, <3>2, BlocksFinite, Zenon
        <3> QED BY <1>0, <2>1, <2>3, <3>3
    <2> QED BY <2>4, <2>5, Zenon
<1> QED
    BY <1>5, <1>6, Zenon

(* The markers of the factory are never forgotten.                         *)
LEMMA FactoryStaysKnown ==
    ASSUME IInv, FactoryKnown, [BbtNext]_bbtVars
    PROVE  FactoryKnown'
<1>1. CASE UNCHANGED bbtVars
    BY <1>1, Zenon DEF bbtVars, flashVars, ramVars, FactoryKnown, Tables
<1>2. CASE nand_scan_bbt
    <2> DEFINE found == [d \in Descr |-> search_bbt(d)]
               rd == check_create(found["td"], found["md"]).rd
    <2>1. factory' = factory /\ table' = table /\ Tables' = Tables
        BY <1>2, Zenon DEF nand_scan_bbt, flashVars, Tables
    <2>2. CASE rd = "none"
        <3>1. bad' = factory
            BY <1>2, <2>2, Zenon DEF nand_scan_bbt
        <3> QED BY <2>1, <3>1, Zenon DEF FactoryKnown
    <2>3. CASE rd # "none"
        <3>1. bad' = table[found[rd]].bad
            BY <1>2, <2>3, Zenon DEF nand_scan_bbt
        <3>2. rd \in Descr
            BY <2>3, Zenon DEF check_create, Plan, Descr
        <3>3. found[rd] = search_bbt(rd) /\ found[rd] # NoPage
            BY <2>3, <3>2, Zenon DEF check_create, Plan, Descr
        <3>4. found[rd] \in Tables
            BY <3>2, <3>3, SearchFinds, Zenon
        <3> QED BY <2>1, <3>1, <3>4 DEF FactoryKnown
    <2> QED BY <2>2, <2>3, Zenon
<1>3. CASE /\ factory' = factory /\ bad' = bad /\ scanned' = scanned
           /\ \A b \in Tables' : \/ b \in Tables /\ table'[b] = table[b]
                                 \/ scanned /\ table'[b].bad = bad
    BY <1>3, Zenon DEF FactoryKnown
<1>4. \A page : LET t == [table EXCEPT ![page] = Blank] IN
           \A b \in Region : t[b] # Blank => b \in Tables /\ t[b] = table[b]
    BY Zenon DEF IInv, BbtTypeOK, Tables
<1>5. CASE write_bbt_erase
    BY <1>3, <1>4, <1>5, Zenon DEF write_bbt_erase, Tables
<1>6. CASE write_bbt_erase_fails
    BY <1>3, <1>4, <1>6, Zenon DEF write_bbt_erase_fails, Tables
<1>7. ASSUME erased # NoPage
      PROVE  /\ scanned
             /\ \A d : LET t == [table EXCEPT ![erased] = NewTable(d)] IN
                  \A b \in Region : \/ t[b] = table[b]
                                    \/ t[b].bad = bad
    <2>1. scanned /\ erased \in Region
        BY <1>7, Zenon DEF IInv, Flow, BbtTypeOK
    <2> QED BY <2>1, Zenon DEF IInv, BbtTypeOK, NewTable
<1>8. CASE write_bbt_program
    BY <1>3, <1>7, <1>8, Zenon DEF write_bbt_program, Tables
<1>9. CASE write_bbt_program_fails
    <2>1. /\ erased # NoPage /\ factory' = factory /\ bad' = bad /\ scanned' = scanned
          /\ table' \in {table, [table EXCEPT ![erased] = NewTable(Writing)]}
        BY <1>9, Zenon DEF write_bbt_program_fails
    <2>2. \A b \in Region : table'[b] = table[b] \/ table'[b].bad = bad
        <3>1. CASE table' = table
            BY <3>1, Zenon
        <3>2. CASE table' = [table EXCEPT ![erased] = NewTable(Writing)]
            BY <1>7, <2>1, <3>2, Zenon
        <3> QED BY <2>1, <3>1, <3>2, Zenon
    <2>3. scanned
        BY <1>7, <2>1, Zenon
    <2> QED BY <1>3, <2>1, <2>2, <2>3, Zenon DEF Tables
<1>10. CASE \/ write_bbt_refused \/ mark_bbt_region \/ markbad_returns \/ ElsewhereFails
    <2>1. factory' = factory /\ table' = table /\ bad' = bad /\ scanned' = scanned
        BY <1>10, Zenon DEF write_bbt_refused, mark_bbt_region, markbad_returns, ElsewhereFails,
                     flashVars, ramVars
    <2> QED BY <1>3, <2>1, Zenon DEF Tables
<1>11. ASSUME NEW b \in Markable, nand_block_markbad(b) PROVE FactoryKnown'
    <2>1. factory' = factory /\ table' = table /\ bad \subseteq bad' /\ scanned
        BY <1>11, Zenon DEF nand_block_markbad, flashVars
    <2> QED BY <2>1, Zenon DEF FactoryKnown, Tables
<1>12. CASE PowerCut
    BY <1>12, Zenon DEF PowerCut, flashVars, FactoryKnown, Tables
<1>13. ASSUME NEW b \in Blocks, nand_erase(b) PROVE FactoryKnown'
    <2>1. /\ factory' = factory /\ bad' = bad /\ scanned' = scanned
          /\ \A c \in Tables' : c \in Tables /\ table'[c] = table[c]
        BY <1>13, Zenon DEF nand_erase, ramVars, Tables
    <2> QED BY <1>3, <2>1, Zenon
<1> QED
    BY <1>1, <1>2, <1>5, <1>6, <1>8, <1>9, <1>10, <1>11, <1>12, <1>13, Zenon DEF BbtNext, BbtStep

(* A new chip, and one in service, know the markers and hold the image     *)
(* where the first stage finds it.                                         *)
LEMMA InitImage ==
    ASSUME Roomy, FlashInit
    PROVE  ImageInv
<1>1. IInv
    BY InitIInv, Zenon DEF FlashInit
<1>2. FactoryKnown
    <2>1. factory \in FactorySets /\ ~scanned
        BY Zenon DEF FlashInit, BbtInit, RamInit
    <2>2. \A b \in Tables : table[b].bad = factory
        <3>1. CASE NewDevice
            BY <3>1, Zenon DEF NewDevice, Tables
        <3>2. CASE InService
            BY <3>2 DEF InService, Tables
        <3> QED BY <3>1, <3>2, Zenon DEF FlashInit, BbtInit
    <2> QED BY <2>1, <2>2, Zenon DEF FactoryKnown
<1>3. FlashTypeOK
    <2>1. image \in SUBSET Blocks
        BY Zenon DEF FlashInit, nand_load, FirstOf, Loadable
    <2> QED BY <1>1, <2>1, Zenon DEF FlashInit, FlashTypeOK, IInv
<1>4. ImageFits
    BY <1>1, <1>2, LoadsSettled, Zenon DEF FlashInit, ImageFits
<1> QED
    BY <1>2, <1>3, <1>4, Zenon DEF FlashInit, ImageInv, WriteRuns, ImageBoots

(* The first stage starts the image, or one of the exceptions holds.       *)
LEMMA BootKeepsImage ==
    ASSUME Roomy, IInv, ImageInv, nand_boot
    PROVE  ImageInv'
<1>1. UNCHANGED <<factory, table, scanned, bad, reserved>> /\ UNCHANGED bbtVars
      /\ UNCHANGED imageVars
    BY Zenon DEF nand_boot, bbtVars, flashVars, ramVars, marks
<1>2. image' = image /\ blank' = blank /\ cmd' = cmd /\ skipped' = skipped /\ boot = "off"
    BY <1>1, Zenon DEF imageVars, nand_boot
<1>3. BbtTypeOK' /\ FactoryKnown' /\ Settled' = Settled
    BY <1>1 DEF ImageInv, FlashTypeOK, BbtTypeOK, FactoryKnown, Tables, Settled, bbtVars,
                flashVars, ramVars, marks
<1>4. boot' \in {"running", "dead"}
    BY Zenon DEF nand_boot
<1>5. ImageBoots'
    <2>1. SUFFICES ASSUME ~skipped, U_BOOT_BLK \notin factory, image # {}
                   PROVE  boot' = "running"
        BY <1>1, <1>2, Zenon DEF ImageBoots
    <2>2. image = Settled
        BY <2>1, Zenon DEF ImageInv, ImageFits
    <2>3. nand_load = Settled /\ nand_load_fails = {FALSE}
        BY <2>1, LoadsSettled, Zenon DEF ImageInv
    <2> QED BY <2>2, <2>3, Zenon DEF nand_boot
<1>6. FlashTypeOK' /\ ImageFits' /\ WriteRuns'
    BY <1>1, <1>2, <1>3, <1>4, Zenon DEF ImageInv, FlashTypeOK, ImageFits, WriteRuns
<1> QED
    BY <1>3, <1>5, <1>6, Zenon DEF ImageInv

(* What runs at the prompt leaves the image where it is or breaks it.      *)
LEMMA PromptKeepsImage ==
    ASSUME IInv', FactoryKnown', ImageInv, Prompt, UNCHANGED <<factory, skipped, boot>>,
           cmd' = "none", image' \in {image, {}}, blank' \in SUBSET (Blocks \ Region)
    PROVE  ImageInv'
<1>1. boot = "running" /\ cmd = "none" /\ Settled' = Settled
    BY Zenon DEF Prompt, Settled
<1>2. FlashTypeOK'
    BY <1>1, Zenon DEF IInv, ImageInv, FlashTypeOK
<1>3. ImageFits' /\ WriteRuns' /\ ImageBoots'
    BY <1>1, Zenon DEF ImageInv, ImageFits, WriteRuns, ImageBoots
<1> QED
    BY <1>2, <1>3, Zenon DEF ImageInv

(* nand write puts the image into the settled blocks, or past a block that *)
(* only the table knows.                                                   *)
LEMMA WriteKeepsImage ==
    ASSUME IInv', FactoryKnown', ImageInv, nand_write_starts \/ nand_write_ends
    PROVE  ImageInv'
<1>1. CASE nand_write_starts
    <2>1. /\ boot = "running" /\ scanned /\ Cardinality(Place) = U_BOOT_BLKS
          /\ cmd' = "write" /\ image' = {} /\ UNCHANGED <<bbtVars, blank, skipped, boot>>
        BY <1>1, Zenon DEF nand_write_starts, Prompt
    <2>2. Place' = Place /\ scanned' = scanned /\ factory' = factory
        BY <2>1, Zenon DEF bbtVars, flashVars, ramVars, Place, Writable, IsBad
    <2> QED
        BY <2>1, <2>2, Zenon DEF IInv, ImageInv, FlashTypeOK, ImageFits, WriteRuns, ImageBoots
<1>2. CASE nand_write_ends
    <2>1. /\ boot = "running" /\ scanned /\ image = {} /\ Cardinality(Place) = U_BOOT_BLKS
          /\ cmd' = "none" /\ boot' = boot /\ blank' = blank \ Place
        BY <1>2, Zenon DEF nand_write_ends, ImageInv, WriteRuns
    <2>2. factory' = factory /\ Settled' = Settled
        BY <1>2, Zenon DEF nand_write_ends, ElsewhereFails, bbtVars, flashVars, Settled
    <2>3. /\ image' \in SUBSET Blocks /\ skipped' \in BOOLEAN
          /\ skipped' \/ image' = {} \/ image' = Settled
        <3>1. CASE ElsewhereFails /\ UNCHANGED <<image, skipped>>
            BY <2>1, <3>1, Zenon DEF ImageInv, FlashTypeOK
        <3>2. CASE /\ image' = IF Place \subseteq blank THEN Place ELSE {}
                   /\ skipped' = \E b \in Blocks \ factory :
                                   /\ b >= U_BOOT_BLK /\ IsBad(b)
                                   /\ \E p \in Place : b < p
            <4>1. Place \in SUBSET Blocks
                BY Zenon DEF Place, FirstOf, Writable
            <4>2. CASE skipped'
                BY <3>2, <4>1, <4>2, Zenon
            <4>3. CASE ~skipped'
                <5>1. Place = Settled
                    BY <2>1, <3>2, <4>3, WritesSettled, Zenon DEF ImageInv
                <5> QED BY <3>2, <4>1, <4>3, <5>1, Zenon
            <4> QED BY <4>2, <4>3, Zenon
        <3> QED BY <1>2, <3>1, <3>2, Zenon DEF nand_write_ends
    <2> QED
        BY <2>1, <2>2, <2>3, Zenon
           DEF IInv, ImageInv, FlashTypeOK, ImageFits, WriteRuns, ImageBoots
<1> QED
    BY <1>1, <1>2, Zenon

(* Every step of the two programs, and every power cut.                    *)
LEMMA NextImage ==
    ASSUME Roomy, IInv, IInv', ImageInv, [FlashNext]_flashAllVars
    PROVE  ImageInv'
<1>1. FactoryKnown'
    BY FactoryStaysKnown, FlashStepIsBbtStep, Zenon DEF ImageInv
<1>2. CASE UNCHANGED flashAllVars
    <2>1. /\ UNCHANGED <<factory, scanned, bad, reserved>>
          /\ UNCHANGED <<image, blank, cmd, skipped, boot>>
        BY <1>2, Zenon DEF flashAllVars, bbtVars, flashVars, ramVars, imageVars
    <2>2. Settled' = Settled /\ Place' = Place
        BY <2>1, Zenon DEF Settled, Place, Writable, IsBad
    <2> QED
        BY <1>1, <2>1, <2>2, Zenon
           DEF IInv, ImageInv, FlashTypeOK, ImageFits, WriteRuns, ImageBoots
<1>3. CASE nand_boot
    BY <1>3, BootKeepsImage, Zenon
<1>4. ASSUME BbtNext PROVE factory' = factory
    BY <1>4, Zenon DEF BbtNext, BbtStep, nand_scan_bbt, write_bbt_refused, write_bbt_erase,
        write_bbt_erase_fails, write_bbt_program, write_bbt_program_fails, mark_bbt_region,
        nand_block_markbad, markbad_returns, PowerCut, ElsewhereFails, nand_erase, flashVars
<1>5. CASE Prompt /\ BbtStep /\ UNCHANGED <<imageVars, boot>>
    <2>1. factory' = factory /\ UNCHANGED <<image, blank, cmd, skipped, boot>>
        BY <1>4, <1>5, Zenon DEF BbtNext, imageVars
    <2>2. blank \in SUBSET (Blocks \ Region) /\ cmd = "none"
        BY <1>5, Zenon DEF ImageInv, FlashTypeOK, Prompt
    <2> QED BY <1>1, <1>5, <2>1, <2>2, PromptKeepsImage
<1>6. ASSUME NEW b \in Blocks, EraseBlock(b) PROVE ImageInv'
    <2>1. /\ Prompt /\ image' \in {image, {}} /\ UNCHANGED <<cmd, skipped, boot>>
          /\ cmd = "none"
        BY <1>6, Zenon DEF EraseBlock, Prompt
    <2>2. factory' = factory
        BY <1>6, Zenon DEF EraseBlock, nand_erase, ElsewhereFails, flashVars
    <2>3. blank' \in SUBSET (Blocks \ Region)
        <3>1. blank \in SUBSET (Blocks \ Region)
            BY Zenon DEF ImageInv, FlashTypeOK
        <3> QED BY <1>6, <3>1, Zenon DEF EraseBlock
    <2> QED BY <1>1, <2>1, <2>2, <2>3, PromptKeepsImage
<1>7. CASE nand_write_starts \/ nand_write_ends
    BY <1>1, <1>7, WriteKeepsImage, Zenon
<1>8. CASE Cut
    <2>1. /\ boot' = "off" /\ cmd' = "none" /\ image' = image /\ skipped' = skipped
          /\ blank' \in {blank, blank \ Place}
        BY <1>8, Zenon DEF Cut
    <2>2. factory' = factory /\ Settled' = Settled
        BY <1>4, <1>8, Zenon DEF Cut, BbtNext, bbtVars, flashVars, Settled
    <2> QED
        BY <1>1, <2>1, <2>2, Zenon
           DEF IInv, ImageInv, FlashTypeOK, ImageFits, WriteRuns, ImageBoots
<1> QED
    BY <1>2, <1>3, <1>5, <1>6, <1>7, <1>8, Zenon DEF FlashNext

(* The state of the flash and of the two programs keeps its types; the     *)
(* blocks known to be erased are never blocks of the table region, which   *)
(* nand erase skips.                                                       *)
THEOREM FlashTypeCorrect == FlashSpec => []FlashTypeOK
<1> DEFINE T == FlashTypeOK
<1>1. FlashInit => T
    <2>1. FlashInit => image \in SUBSET Blocks
        BY Zenon DEF FlashInit, nand_load, FirstOf, Loadable
    <2> QED BY <2>1, InitIInv, Zenon DEF FlashInit, FlashTypeOK, IInv
<1>2. IInv' /\ T /\ [FlashNext]_flashAllVars => T'
    <2> SUFFICES ASSUME IInv', T, [FlashNext]_flashAllVars PROVE T'
        OBVIOUS
    <2>0. /\ BbtTypeOK'
          /\ image \in SUBSET Blocks /\ blank \in SUBSET (Blocks \ Region)
          /\ cmd \in {"none", "write"} /\ boot \in {"off", "running", "dead"}
          /\ skipped \in BOOLEAN
        BY Zenon DEF IInv, FlashTypeOK
    <2>1. CASE UNCHANGED flashAllVars
        BY <2>0, <2>1, Zenon DEF flashAllVars, imageVars, FlashTypeOK
    <2>2. CASE nand_boot
        BY <2>0, <2>2, Zenon DEF nand_boot, imageVars, FlashTypeOK
    <2>3. CASE UNCHANGED <<imageVars, boot>>
        BY <2>0, <2>3, Zenon DEF imageVars, FlashTypeOK
    <2>4. ASSUME NEW b \in Blocks, EraseBlock(b) PROVE T'
        BY <2>0, <2>4, Zenon DEF EraseBlock, FlashTypeOK
    <2>5. CASE nand_write_starts
        BY <2>0, <2>5, Zenon DEF nand_write_starts, FlashTypeOK
    <2>6. CASE nand_write_ends
        <3>1. Place \in SUBSET Blocks
            BY Zenon DEF Place, FirstOf, Writable
        <3>2. blank' = blank \ Place /\ cmd' = "none" /\ boot' = boot
            BY <2>6, Zenon DEF nand_write_ends
        <3>3. image' \in {image, Place, {}} /\ skipped' \in BOOLEAN
            BY <2>0, <2>6, Zenon DEF nand_write_ends
        <3> QED BY <2>0, <3>1, <3>2, <3>3, Zenon DEF FlashTypeOK
    <2>7. CASE Cut
        BY <2>0, <2>7, Zenon DEF Cut, FlashTypeOK
    <2> QED
        BY <2>1, <2>2, <2>3, <2>4, <2>5, <2>6, <2>7, Zenon DEF FlashNext
<1> QED
    BY <1>1, <1>2, IInvHolds, PTL DEF FlashSpec

(* With room for the image below the tables, the first stage starts the    *)
(* image that the nand command has put into flash, after any history of    *)
(* marks, erasures, writes and power cuts: nand_load and                   *)
(* nand_write_skip_bad count the same blocks although the one asks the     *)
(* markers and the other the table.                                        *)
THEOREM ImageAlwaysBoots ==
    ASSUME Roomy
    PROVE  FlashSpec => []ImageBoots
<1>1. FlashInit => ImageInv
    BY InitImage, Zenon
<1>2. IInv /\ IInv' /\ ImageInv /\ [FlashNext]_flashAllVars => ImageInv'
    BY NextImage, Zenon
<1>3. ImageInv => ImageBoots
    BY Zenon DEF ImageInv
<1> QED
    BY <1>1, <1>2, <1>3, IInvHolds, PTL DEF FlashSpec
=============================================================================
