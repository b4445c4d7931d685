------------------------------ MODULE NandBbtInv -------------------------------
(***************************************************************************)
(* The invariant of the bad block table; it holds at power-on of a new     *)
(* device and of one in service, and the scan and the writing of the tables*)
(* keep it.                                                                *)
(*                                                                         *)
(* None of the properties of NandBbt is inductive: what a power-on finds   *)
(* depends on where the last writes put the tables, on which of them was   *)
(* reached and on how far the two have drifted apart.  The invariant has   *)
(* one part for each: Flow (the steps of an operation), Placed (the blocks *)
(* of the two tables), Written (what a write leaves), Kept (the promises   *)
(* made), Spare (the other copy during a rewrite), Versioned (the drift).  *)
(***************************************************************************)
EXTENDS NandBbt, TLAPS, WellFoundedInduction

Tables == {b \in Region : table[b] # Blank}

(* What is left to write, and when the region is reserved.                 *)
Flow ==
    /\ ~scanned => op = "idle"
    /\ op = "idle" \/ ~ok => writeops = {}
    /\ writeops = {} => erased = NoPage
    /\ scanned /\ op # "scan" => reserved = Region
    /\ op = "mark" => block \in bad

(* td is in the first good block of the region, md in the second.          *)
Good == Region \ factory
First(b) == b \in Good /\ \A c \in Good : b <= c
Second(b) == b \in Good /\ ~First(b) /\ \A c \in Good : First(c) \/ b <= c
Home(d, b) == IF d = "td" THEN First(b) ELSE Second(b)

Placed ==
    /\ \A b \in Tables : /\ Home(table[b].descr, b)
                         /\ table[b].bad \cap Region = factory \cap Region
    /\ scanned => bad \cap Region = factory \cap Region
    /\ \A d \in Descr : pages[d] # NoPage => Home(d, pages[d])
    /\ writeops = {"md"} => pages["td"] # NoPage
    /\ erased # NoPage => Home(Writing, erased) /\ table[erased] = Blank

(* A table that need not be written (any more) is the one in memory.       *)
Written ==
    scanned /\ ok => \A d \in Descr \ writeops :
                       pages[d] # NoPage /\ table[pages[d]] = NewTable(d)

(* The blocks marked with success are in every table, but for those that   *)
(* were forgotten when power failed without one.                           *)
Kept ==
    /\ \A b \in Tables : acked \ forgotten \subseteq table[b].bad
    /\ scanned => acked \ forgotten \subseteq bad
    /\ ~scanned /\ Tables = {} => acked \subseteq forgotten
    /\ forgotten \subseteq acked /\ (forgotten # {} => failures > 0)

(* While td is to be rewritten the promises are in md.                     *)
Spare ==
    failures = 0 /\ acked # {} =>
        /\ ok /\ Tables # {}
        /\ \E t \in Region : First(t)
        /\ \E m \in Region : Second(m)
        /\ scanned /\ "td" \in writeops => \E b \in Region : Holds("md", b)

(* How many updates w is behind v.                                         *)
Dist(v, w) == IF v >= w THEN v - w ELSE v - w + VERSIONS

(* A table is behind by at most the failures, and by one update more while *)
(* one is under way; md is never ahead of td.                              *)
Drift == IF op # "idle" /\ ok THEN failures + 1 ELSE failures

Versioned ==
    /\ version["td"] = version["md"]
    /\ scanned => \A b \in Tables :
         /\ Dist(version["td"], table[b].version) <= Drift
         /\ table[b].bad \subseteq bad
         /\ table[b].version = version["td"] => table[b].bad = bad
    /\ \A t, m \in Region : Holds("td", t) /\ Holds("md", m) =>
         /\ Dist(table[t].version, table[m].version) <= failures + 1
         /\ table[t].version = table[m].version => table[t].bad = table[m].bad
         /\ table[m].bad \subseteq table[t].bad

IInv == BbtTypeOK /\ Flow /\ Placed /\ Written /\ Kept /\ Spare /\ Versioned

-------------------------------------------------------------------------------
(* Facts about blocks and versions.                                        *)

(* A non-empty set of natural numbers has a least element.                 *)
LEMMA LeastExists ==
    ASSUME NEW S \in SUBSET Nat, S # {}
    PROVE  \E x \in S : \A y \in S : x <= y
<1>1. PICK x \in S : \A y \in S : ~(<<y, x>> \in OpToRel(<, Nat))
    BY WFMin, NatLessThanWellFounded, Zenon
<1>2. \A y \in S : ~(y < x)
    <2>1. \A y \in S : <<y, x>> \in Nat \X Nat
        OBVIOUS
    <2>2. \A y \in S : y < x => <<y, x>> \in {ss \in Nat \X Nat : ss[1] < ss[2]}
        BY <2>1, Zenon
    <2> QED
        BY <1>1, <2>2, Zenon DEF OpToRel
<1> QED
    BY <1>2

(* The blocks of the region are numbers and none is NoPage.                *)
LEMMA RegionFacts == Region \subseteq Blocks /\ Region \subseteq Nat /\ NoPage \notin Region
    BY RegionAssumption DEF Region, Blocks, NoPage

(* A table has one home, and the two have different ones.                  *)
LEMMA HomeUnique ==
    ASSUME NEW d \in Descr, NEW e \in Descr, NEW b, NEW c,
           Home(d, b), Home(e, c)
    PROVE  b \in Good /\ (b = c <=> d = e)
<1>1. b \in Good /\ c \in Good /\ b \in Nat /\ c \in Nat
    BY RegionFacts, Zenon DEF Home, First, Second, Good
<1>2. First(b) /\ First(c) => b = c
    BY <1>1 DEF First
<1>3. Second(b) /\ Second(c) => b = c
    BY <1>1 DEF Second
<1>4. First(b) /\ Second(c) => b # c
    BY Zenon DEF Second
<1>5. Second(b) /\ First(c) => b # c
    BY Zenon DEF Second
<1> QED
    BY <1>1, <1>2, <1>3, <1>4, <1>5, Zenon DEF Home, Descr

(* A block of the region holds a table of one kind or none.                *)
LEMMA TableFacts ==
    ASSUME BbtTypeOK, NEW b \in Region
    PROVE  /\ table[b] # Blank <=> table[b].descr \in Descr
           /\ table[b] # Blank => /\ table[b] \in Table
                                  /\ table[b].version \in Versions
                                  /\ table[b].bad \in SUBSET Blocks
<1>1. table[b] \in Table \cup {Blank}
    BY Zenon DEF BbtTypeOK
<1>2. CASE table[b] = Blank
    BY <1>2 DEF Blank, Descr
<1>3. CASE table[b] \in Table
    BY <1>3 DEF Table, Blank, Descr
<1> QED
    BY <1>1, <1>2, <1>3, Zenon

(* Versions are numbers, and the next one is again a version.              *)
LEMMA VersionFacts ==
    /\ Versions \subseteq Nat /\ 1 \in Versions
    /\ \A v \in Versions : v < VERSIONS /\ Bump(v) \in Versions
    BY VersionAssumption DEF Versions, Bump

(* The distance between versions, and what an update adds to it.           *)
LEMMA DistFacts ==
    ASSUME NEW v \in Versions, NEW w \in Versions
    PROVE  /\ Dist(v, v) = 0 /\ Dist(v, w) \in Nat
           /\ Dist(v, w) = 0 <=> v = w
           /\ Dist(v, w) <= MaxFails + 1 => Dist(Bump(v), w) = Dist(v, w) + 1
    BY VersionAssumption DEF Versions, Bump, Dist

-------------------------------------------------------------------------------
(* A new device and one in service satisfy the invariant.                  *)
LEMMA InitIInv == BbtInit => IInv
<1> SUFFICES ASSUME BbtInit PROVE IInv
    OBVIOUS
<1> USE DEF BbtInit, RamInit
<1>1. factory \in SUBSET Blocks
    BY RegionAssumption, Zenon
<1>2. 0 \in Blocks /\ 0 \in Versions /\ 0 \in 0 .. MaxFails
    BY RegionAssumption, VersionAssumption DEF Blocks, Versions
<1>3. CASE NewDevice
    <2>1. BbtTypeOK
        BY <1>1, <1>2, <1>3, Zenon DEF BbtTypeOK, NewDevice
    <2>2. \A b \in Region : table[b] = Blank
        BY <1>3, Zenon DEF NewDevice
    <2>3. \A d \in Descr, b \in Region : ~Holds(d, b)
        BY <2>2 DEF Holds, Blank, Descr
    <2> QED
        BY <2>1, <2>2, <2>3, Zenon DEF IInv, Flow, Placed, Written, Kept, Spare,
                                Versioned, Tables, Descr
<1>4. CASE InService
    <2>1. PICK t \in Good, m \in Good, v \in Versions :
            /\ \A b \in Good : t <= b /\ (b # t => m <= b)
            /\ t # m
            /\ table = [b \in Region |->
                  IF b = t THEN [descr |-> "td", version |-> v, bad |-> factory]
                  ELSE IF b = m
                  THEN [descr |-> "md", version |-> v, bad |-> factory]
                  ELSE Blank]
        BY <1>4, Zenon DEF InService, Good
    <2>2. t \in Region /\ m \in Region /\ t \in Nat /\ m \in Nat
        BY RegionFacts, Zenon DEF Good
    <2>3. /\ table[t] = [descr |-> "td", version |-> v, bad |-> factory]
          /\ table[m] = [descr |-> "md", version |-> v, bad |-> factory]
          /\ \A b \in Region \ {t, m} : table[b] = Blank
        BY <2>1, <2>2, Zenon
    <2>4. BbtTypeOK
        <3>1. table \in [Region -> Table \cup {Blank}]
            BY <1>1, <2>1, <2>2, Zenon DEF Table, Descr
        <3> QED
            BY <1>1, <1>2, <3>1, Zenon DEF BbtTypeOK
    <2>5. First(t) /\ Second(m)
        BY <2>1, <2>2 DEF First, Second
    <2>6. Tables = {t, m}
        <3>1. table[t] # Blank /\ table[m] # Blank
            BY <2>2, <2>3, <2>4, TableFacts DEF Descr
        <3> QED
            BY <2>2, <2>3, <3>1, Zenon DEF Tables
    <2>7. \A b \in Region : /\ Holds("td", b) <=> b = t
                            /\ Holds("md", b) <=> b = m
        BY <2>1, <2>2, <2>3, Zenon DEF Holds, Blank
    <2>8. Placed
        BY <2>3, <2>5, <2>6 DEF Placed, Home, Descr
    <2>9. Versioned
        BY <2>3, <2>7, VersionFacts DEF Versioned, Dist, Descr
    <2> QED
        BY <2>4, <2>8, <2>9, Zenon DEF IInv, Flow, Written, Kept, Spare
<1> QED
    BY <1>3, <1>4, Zenon

-------------------------------------------------------------------------------
(* The scan.                                                               *)

(* search_bbt finds the table wherever it is.                              *)
LEMMA SearchFinds ==
    ASSUME IInv, NEW d \in Descr
    PROVE  \/ search_bbt(d) = NoPage /\ \A b \in Region : ~Holds(d, b)
           \/ /\ search_bbt(d) \in Region /\ search_bbt(d) \in Tables
              /\ search_bbt(d) # NoPage
              /\ Home(d, search_bbt(d)) /\ table[search_bbt(d)].descr = d
              /\ \A b \in Region : Holds(d, b) => b = search_bbt(d)
<1>1. \A b \in Region : Holds(d, b) => b \in Tables /\ Home(d, b)
    BY TableFacts, Zenon DEF IInv, Placed, Tables, Holds
<1>2. CASE \E b \in Region : Holds(d, b)
    <2>1. PICK p \in Region : Holds(d, p)
        BY <1>2, Zenon
    <2>2. \A b \in Region : Holds(d, b) => b = p
        BY <1>1, <2>1, HomeUnique, Zenon
    <2>3. p <= p
        BY RegionFacts
    <2>4. search_bbt(d) = p
        BY <2>1, <2>2, <2>3, Zenon DEF search_bbt
    <2> QED
        BY <1>1, <2>1, <2>2, <2>4, RegionFacts, Zenon DEF Holds
<1>3. CASE ~ \E b \in Region : Holds(d, b)
    BY <1>3, Zenon DEF search_bbt
<1> QED
    BY <1>2, <1>3, Zenon

(* An older copy is recognised as long as the drift is bounded.            *)
LEMMA NewerSeen ==
    ASSUME NEW v \in Versions, NEW w \in Versions, v # w,
           NEW n \in 0 .. MaxFails, Dist(v, w) <= n + 1
    PROVE  Newer(v, w)
    BY VersionFacts, VersionAssumption DEF Newer, Dist

(* What check_create decides: to create both tables, or to read one that   *)
(* is as new as the other and to write those that differ from it.          *)
LEMMA CheckCreateReads ==
    ASSUME IInv, ~scanned, nand_scan_bbt
    PROVE  \/ /\ \A d \in Descr : pages'[d] = NoPage
              /\ Tables = {}
              /\ bad' = factory /\ writeops' = Descr
              /\ version' = [d \in Descr |-> 1]
           \/ \E r \in Descr :
              /\ pages'[r] # NoPage
              /\ bad' = table[pages'[r]].bad
              /\ version' = [d \in Descr |-> table[pages'[r]].version]
              /\ \/ r = "td" /\ writeops' \in {{}, {"md"}}
                 \/ r = "md" /\ writeops' = {"td"} /\ pages'["td"] = NoPage
              /\ writeops' = {} => /\ pages'["md"] # NoPage
                                   /\ table[pages'["md"]].version = table[pages'[r]].version
<1> DEFINE t == search_bbt("td")
           m == search_bbt("md")
           found == [d \in Descr |-> search_bbt(d)]
           check == check_create(t, m)
<1>1. found["td"] = t /\ found["md"] = m
    BY Zenon DEF Descr
<1>2. /\ pages' = found /\ pages'["td"] = t /\ pages'["md"] = m
      /\ writeops' = check.writeops
      /\ check.rd = "none" => bad' = factory /\ version' = [d \in Descr |-> 1]
      /\ check.rd # "none" =>
           /\ bad' = table[found[check.rd]].bad
           /\ version' = [d \in Descr |-> table[found[check.rd]].version]
    BY <1>1 DEF nand_scan_bbt
<1> HIDE DEF found, check, t, m
<1>3. "td" \in Descr /\ "md" \in Descr /\ Descr = {"td", "md"}
    BY Zenon DEF Descr
<1>4. CASE t = NoPage /\ m = NoPage
    <2>1. check = [rd |-> "none", writeops |-> Descr]
        BY <1>4, Zenon DEF check, check_create, Plan
    <2>2. check.rd = "none" /\ check.writeops = Descr
        BY <2>1, Zenon
    <2>3. Tables = {}
        <3>1. \A b \in Region : ~Holds("td", b) /\ ~Holds("md", b)
            BY <1>3, <1>4, SearchFinds, RegionFacts, Zenon DEF t, m
        <3> QED
            BY <1>3, <3>1, TableFacts, Zenon DEF IInv, Tables, Holds
    <2> QED
        BY <1>2, <1>3, <1>4, <2>2, <2>3, Zenon
<1>5. CASE t = NoPage /\ m # NoPage
    <2>1. check = [rd |-> "md", writeops |-> {"td"}]
        BY <1>5, Zenon DEF check, check_create, Plan
    <2>2. check.rd = "md" /\ check.writeops = {"td"}
        BY <2>1, Zenon
    <2> QED
        BY <1>1, <1>2, <1>3, <1>5, <2>2, Zenon
<1>6. CASE t # NoPage /\ m = NoPage
    <2>1. check = [rd |-> "td", writeops |-> {"md"}]
        BY <1>6, Zenon DEF check, check_create, Plan
    <2>2. check.rd = "td" /\ check.writeops = {"md"}
        BY <2>1, Zenon
    <2> QED
        BY <1>1, <1>2, <1>3, <1>6, <2>2, Zenon
<1>7. CASE t # NoPage /\ m # NoPage
    <2>1. /\ t \in Region /\ m \in Region /\ Holds("td", t) /\ Holds("md", m)
          /\ table[t].version \in Versions /\ table[m].version \in Versions
        BY <1>3, <1>7, SearchFinds, TableFacts, Zenon DEF Holds, IInv, Tables, t, m
    <2>2. CASE table[t].version = table[m].version
        <3>1. check = [rd |-> "td", writeops |-> {}]
            BY <1>7, <2>2, Zenon DEF check, check_create, Plan
        <3>2. check.rd = "td" /\ check.writeops = {}
            BY <3>1, Zenon
        <3> QED
            BY <1>1, <1>2, <1>3, <1>7, <2>2, <3>2, Zenon
    <2>3. CASE table[t].version # table[m].version
        <3>1. Newer(table[t].version, table[m].version)
            BY <2>1, <2>3, NewerSeen, Zenon DEF IInv, Versioned, BbtTypeOK
        <3>2. check = [rd |-> "td", writeops |-> {"md"}]
            BY <1>7, <2>3, <3>1, Zenon DEF check, check_create, Plan
        <3>3. check.rd = "td" /\ check.writeops = {"md"}
            BY <3>2, Zenon
        <3> QED
            BY <1>1, <1>2, <1>3, <1>7, <3>3, Zenon
    <2> QED
        BY <2>2, <2>3, Zenon
<1> QED
    BY <1>4, <1>5, <1>6, <1>7, Zenon

(* After nand_scan_bbt has read the tables, or has found none, memory is   *)
(* as new as flash and the copies that are behind are to be written.       *)
LEMMA ScanKeepsIInv ==
    ASSUME IInv, nand_scan_bbt
    PROVE  IInv'
<1>1. /\ ~scanned /\ scanned' = TRUE /\ op' = "scan" /\ ok' = TRUE
      /\ factory' = factory /\ table' = table /\ reserved' = reserved
      /\ block' = block /\ erased' = erased /\ failures' = failures
      /\ acked' = acked /\ forgotten' = forgotten
      /\ pages' = [d \in Descr |-> search_bbt(d)]
    BY Zenon DEF nand_scan_bbt, flashVars, marks
<1>2. erased = NoPage /\ Descr = {"td", "md"}
    BY <1>1, Zenon DEF IInv, Flow, Descr
<1>3. /\ \A d \in Descr : pages'[d] # NoPage =>
           /\ pages'[d] \in Region /\ pages'[d] \in Tables
           /\ Home(d, pages'[d]) /\ table[pages'[d]].descr = d
      /\ \A d \in Descr, b \in Region : Holds(d, b) => b = pages'[d]
    BY <1>1, SearchFinds, Zenon
<1>4. pages' \in [Descr -> Region \cup {NoPage}]
    BY <1>1, <1>3, Zenon
<1>5. /\ Tables' = Tables /\ \A b, d : (Holds(d, b))' = Holds(d, b)
      /\ \A b, d : (Home(d, b))' = Home(d, b)
    BY <1>1, Zenon DEF Tables, Holds, Home, First, Second, Good
<1>6. Flow'
    BY <1>1, <1>2, Zenon DEF Flow
<1>7. CASE /\ \A d \in Descr : pages'[d] = NoPage
           /\ Tables = {}
           /\ bad' = factory /\ writeops' = Descr
           /\ version' = [d \in Descr |-> 1]
    <2>1. BbtTypeOK'
        BY <1>1, <1>4, <1>7, VersionFacts, Zenon DEF IInv, BbtTypeOK
    <2>2. Placed'
        BY <1>1, <1>2, <1>5, <1>7 DEF Placed
    <2>3. Written' /\ Kept'
        BY <1>1, <1>5, <1>7, Zenon DEF IInv, Written, Kept
    <2>6. Spare'
        BY <1>1, <1>7, Zenon DEF IInv, Spare
    <2>4. \A b \in Region : ~Holds("td", b)
        BY <1>2, <1>7, TableFacts, Zenon DEF IInv, Tables, Holds
    <2>5. Versioned'
        BY <1>1, <1>2, <1>5, <1>7, <2>4, Zenon DEF Versioned
    <2> QED
        BY <1>6, <2>1, <2>2, <2>3, <2>5, <2>6, Zenon DEF IInv
<1>8. ASSUME NEW r \in Descr,
             pages'[r] # NoPage,
             bad' = table[pages'[r]].bad,
             version' = [d \in Descr |-> table[pages'[r]].version],
             \/ r = "td" /\ writeops' \in {{}, {"md"}}
             \/ r = "md" /\ writeops' = {"td"} /\ pages'["td"] = NoPage,
             writeops' = {} =>
               /\ pages'["md"] # NoPage
               /\ table[pages'["md"]].version = table[pages'[r]].version
      PROVE  IInv'
    <2> DEFINE p == pages'[r]
    <2>1. /\ p \in Region /\ p \in Tables /\ table[p] \in Table /\ table[p].descr = r
          /\ table[p].version \in Versions /\ table[p].bad \in SUBSET Blocks
        BY <1>3, <1>8, TableFacts, Zenon DEF IInv, Tables
    <2>2. BbtTypeOK'
        <3>1. bad' \in SUBSET Blocks /\ version' \in [Descr -> Versions]
            BY <1>8, <2>1, Zenon
        <3>2. writeops' \in SUBSET Descr
            BY <1>2, <1>8, Zenon
        <3> QED
            BY <1>1, <1>4, <1>8, <3>1, <3>2, Zenon DEF IInv, BbtTypeOK
    <2>3. Placed'
        <3>1. bad' \cap Region = factory \cap Region
            BY <1>8, <2>1, Zenon DEF IInv, Placed
        <3>2. (\A b \in Tables : /\ Home(table[b].descr, b)
                                /\ table[b].bad \cap Region = factory \cap Region)'
            BY <1>1, <1>5, Zenon DEF IInv, Placed
        <3>3. writeops' = {"md"} => pages'["td"] # NoPage
            BY <1>8, Zenon
        <3> QED
            BY <1>1, <1>2, <1>3, <1>5, <3>1, <3>2, <3>3, Zenon DEF Placed
    <2>4. \A b \in Tables : /\ b \in Region /\ table[b].descr \in Descr
                            /\ b = pages'[table[b].descr]
        BY <1>3, TableFacts, Zenon DEF IInv, Tables, Holds
    <2>5. Written'
        <3>1. SUFFICES ASSUME NEW d \in Descr \ writeops'
              PROVE pages'[d] # NoPage
                    /\ table[pages'[d]] = [descr |-> d, version |-> version'[d], bad |-> bad']
            BY <1>1, Zenon DEF Written, NewTable
        <3>2. CASE d = r
            BY <1>8, <2>1, <3>2, Zenon DEF Table
        <3>3. CASE d # r
            <4>1. r = "td" /\ d = "md" /\ writeops' = {}
                BY <1>2, <1>8, <3>1, <3>3
            <4>2. pages'["md"] # NoPage
                BY <1>8, <4>1, Zenon
            <4>3. pages'["md"] \in Region /\ table[pages'["md"]].descr = "md"
                BY <1>2, <1>3, <4>2, Zenon
            <4>4. /\ table[pages'["md"]] \in Table
                  /\ table[pages'["md"]].version = table[p].version
                BY <1>2, <1>8, <4>1, <4>2, <4>3, TableFacts, Zenon DEF IInv
            <4>5. table[pages'["md"]].bad = table[p].bad
                BY <2>1, <4>1, <4>3, <4>4, Zenon DEF IInv, Versioned, Holds
            <4> QED
                BY <1>8, <4>1, <4>2, <4>3, <4>4, <4>5, Zenon DEF Table
        <3> QED
            BY <3>2, <3>3, Zenon
    <2>6. Kept'
        BY <1>1, <1>5, <1>8, <2>1, Zenon DEF IInv, Kept
    <2>7. Spare'
        <3>1. "td" \in writeops' => \E b \in Region : Holds("md", b)
            BY <1>8, <2>1, Zenon DEF Holds
        <3> QED
            BY <1>1, <1>5, <1>8, <3>1, Zenon DEF IInv, Spare, Home, First, Second, Good
    <2>8. Versioned'
        <3>1. version'["td"] = table[p].version /\ version'["md"] = table[p].version
            BY <1>2, <1>8, Zenon
        <3>2. ASSUME NEW b \in Tables
              PROVE  /\ Dist(table[p].version, table[b].version) <= failures + 1
                     /\ table[b].bad \subseteq table[p].bad
                     /\ table[b].version = table[p].version => table[b].bad = table[p].bad
                     /\ r = "md" => b = p
            <4>1. CASE b = p
                <5>1. Dist(table[p].version, table[p].version) = 0
                    BY <2>1, DistFacts, Zenon
                <5>2. failures \in Nat
                    BY VersionAssumption DEF IInv, BbtTypeOK
                <5> QED
                    BY <4>1, <5>1, <5>2
            <4>2. CASE b # p
                <5>1. r = "td" /\ table[b].descr = "md"
                    BY <1>2, <1>8, <2>4, <4>2, RegionFacts
                <5> QED
                    BY <2>1, <2>4, <4>2, <5>1, Zenon DEF IInv, Versioned, Holds
            <4> QED
                BY <4>1, <4>2, Zenon
        <3>4. Drift' = failures + 1
            BY <1>1, Zenon DEF Drift
        <3>5. (\A b \in Tables :
                 /\ Dist(version["td"], table[b].version) <= Drift
                 /\ table[b].bad \subseteq bad
                 /\ table[b].version = version["td"] => table[b].bad = bad)'
            BY <1>1, <1>5, <1>8, <3>1, <3>2, <3>4 DEF Dist
        <3> QED
            BY <1>1, <1>5, <3>1, <3>5, Zenon DEF IInv, Versioned, Dist
    <2> QED
        BY <1>6, <2>2, <2>3, <2>5, <2>6, <2>7, <2>8, Zenon DEF IInv
<1> QED
    BY <1>1, <1>7, <1>8, CheckCreateReads, Zenon

-----------------------------------------------------------------------------
(* Writing the tables: the steps of write_bbt.                             *)

(* The table that is written next, and the state it is written in.         *)
LEMMA WritingFacts ==
    ASSUME IInv, writeops # {}
    PROVE  /\ scanned /\ ok /\ op # "idle" /\ op \in {"scan", "mark"}
           /\ Writing \in writeops /\ Writing \in Descr
           /\ "td" \in Descr /\ "md" \in Descr /\ Descr = {"td", "md"}
           /\ Writing = "md" => writeops = {"md"}
           /\ Good = Region \ bad
    BY Zenon DEF IInv, BbtTypeOK, Flow, Placed, Writing, Descr, Good

(* write_bbt picks the home of the table; it finds none only when there is *)
(* no good block left for it.                                              *)
LEMMA PageHome ==
    ASSUME IInv, writeops # {}
    PROVE  \/ Home(Writing, PageFor(Writing))
           \/ /\ PageFor(Writing) = NoPage
              /\ \A b : ~Home(Writing, b)
              /\ Writing = "td" => Good = {}
<1> DEFINE d == Writing
           C == Candidates(d)
<1>0. d \in Descr /\ Good = Region \ bad /\ Good \subseteq Nat
    BY WritingFacts, RegionFacts, Zenon DEF Good
<1>1. CASE pages[d] # NoPage
    BY <1>0, <1>1, Zenon DEF PageFor, IInv, Placed
<1>2. CASE pages[d] = NoPage
    <2>1. C = {b \in Good : b # pages[Other(d)]}
        BY <1>0, Zenon DEF Candidates
    <2>2. ASSUME NEW b \in C, \A c \in C : b <= c PROVE Home(d, b)
        <3>1. CASE d = "td"
            <4>1. pages[Other(d)] # NoPage => Second(pages[Other(d)])
                BY <3>1, Zenon DEF Other, IInv, Placed, Home, Descr
            <4>2. pages[Other(d)] = NoPage => C = Good
                BY <2>1, RegionFacts, Zenon DEF Good
            <4>3. CASE pages[Other(d)] = NoPage
                BY <2>2, <3>1, <4>2, <4>3, Zenon DEF Home, First
            <4>4. CASE pages[Other(d)] # NoPage
                <5>1. PICK c \in Good : c < pages[Other(d)]
                    BY <1>0, <4>1, <4>4 DEF Second, First
                <5>2. c \in C /\ b \in Nat /\ pages[Other(d)] \in Nat
                    BY <1>0, <2>1, <2>2, <4>1, <4>4, <5>1 DEF Second
                <5>3. b <= c /\ b <= pages[Other(d)]
                    BY <1>0, <2>2, <5>1, <5>2
                <5>4. \A e \in Good : b <= e
                    BY <2>1, <2>2, <5>3, Zenon
                <5> QED
                    BY <2>1, <2>2, <3>1, <5>4, Zenon DEF Home, First
            <4> QED
                BY <4>3, <4>4, Zenon
        <3>2. CASE d = "md"
            <4>1. Other(d) = "td" /\ First(pages["td"])
                BY <3>2, WritingFacts, Zenon DEF Other, IInv, Placed, Home
            <4>2. ~First(b)
                BY <1>0, <2>1, <2>2, <4>1 DEF First
            <4>3. \A c \in Good : First(c) \/ b <= c
                BY <2>1, <2>2, <4>1, Zenon
            <4> QED
                BY <2>1, <2>2, <3>2, <4>2, <4>3, Zenon DEF Home, Second
        <3> QED
            BY <1>0, <3>1, <3>2, Zenon DEF Descr
    <2>3. CASE C = {}
        <3>1. PageFor(d) = NoPage
            BY <1>2, <2>3, Zenon DEF PageFor
        <3>2. CASE d = "td"
            <4>1. pages[Other(d)] # NoPage => Second(pages[Other(d)])
                BY <3>2, Zenon DEF Other, IInv, Placed, Home, Descr
            <4>2. Good = {}
                <5>1. SUFFICES ASSUME NEW b \in Good PROVE FALSE
                    OBVIOUS
                <5>2. b = pages[Other(d)] /\ Second(b)
                    BY <2>1, <2>3, <4>1, RegionFacts, Zenon DEF Good
                <5>3. PICK c \in Good : c < b
                    BY <1>0, <5>2 DEF Second, First
                <5> QED
                    BY <1>0, <2>1, <2>3, <5>2, <5>3
            <4> QED
                BY <3>1, <3>2, <4>2, Zenon DEF Home, First
        <3>3. CASE d = "md"
            <4>1. Other(d) = "td" /\ First(pages["td"])
                BY <3>3, WritingFacts, Zenon DEF Other, IInv, Placed, Home
            <4>2. \A b : ~Second(b)
                BY <2>1, <2>3, <4>1, Zenon DEF Second
            <4> QED
                BY <3>1, <3>3, <4>2, Zenon DEF Home
        <3> QED
            BY <1>0, <3>2, <3>3, Zenon DEF Descr
    <2>4. CASE C # {}
        <3>1. \E b \in C : \A c \in C : b <= c
            <4>1. C \in SUBSET Nat
                BY <1>0, <2>1, Zenon
            <4> HIDE DEF C
            <4> QED
                BY <2>4, <4>1, LeastExists, Zenon
        <3>2. PageFor(d) = CHOOSE b \in C : \A c \in C : b <= c
            BY <1>2, <2>4, Zenon DEF PageFor
        <3>3. PageFor(d) \in C /\ \A c \in C : PageFor(d) <= c
            BY <3>1, <3>2, Zenon
        <3> QED
            BY <2>2, <3>3, Zenon
    <2> QED
        BY <2>3, <2>4, Zenon
<1> QED
    BY <1>1, <1>2, Zenon

(* Memory other than the steps of the writing itself.                      *)
RamSame == /\ scanned' = scanned /\ bad' = bad /\ reserved' = reserved
           /\ version' = version /\ op' = op /\ block' = block
           /\ factory' = factory /\ acked' = acked /\ forgotten' = forgotten

(* Without a home for it the table is not in flash either: the update that *)
(* is given up leaves no table behind.                                     *)
LEMMA RefusedKeepsIInv ==
    ASSUME IInv, write_bbt_refused
    PROVE  IInv'
<1>1. /\ RamSame /\ table' = table /\ pages' = pages /\ failures' = failures
      /\ ok' = FALSE /\ writeops' = {} /\ erased' = NoPage /\ writeops # {}
      /\ PageFor(Writing) \in bad \cup {NoPage}
    BY Zenon DEF write_bbt_refused, GiveUp, flashVars, RamSame, marks
<1>2. /\ scanned /\ ok /\ op # "idle" /\ Writing \in Descr /\ Descr = {"td", "md"}
      /\ Writing = "md" => writeops = {"md"}
    BY <1>1, WritingFacts, Zenon
<1>3. /\ \A b : ~Home(Writing, b)
      /\ Writing = "td" => Good = {}
    BY <1>1, <1>2, PageHome, WritingFacts, RegionFacts, HomeUnique DEF Good
<1>4. /\ Tables' = Tables /\ \A b, d : (Holds(d, b))' = Holds(d, b)
      /\ \A b, d : (Home(d, b))' = Home(d, b)
    BY <1>1, Zenon DEF Tables, Holds, Home, First, Second, Good, RamSame
<1>5. \A b \in Tables : Writing = "md" /\ b = pages["td"] /\ table[b] = NewTable("td")
    <2>1. SUFFICES ASSUME NEW b \in Tables
          PROVE Writing = "md" /\ b = pages["td"] /\ table[b] = NewTable("td")
        OBVIOUS
    <2>2. table[b].descr \in Descr /\ Home(table[b].descr, b)
        BY TableFacts, Zenon DEF IInv, Placed, Tables
    <2>3. Writing = "md" /\ table[b].descr = "td"
        BY <1>2, <1>3, <2>2, Zenon DEF Home, First, Second
    <2>4. pages["td"] # NoPage /\ table[pages["td"]] = NewTable("td")
        BY <1>2, <2>3, Zenon DEF IInv, Written
    <2>5. Home("td", pages["td"])
        BY <1>2, <2>4, Zenon DEF IInv, Placed
    <2> QED
        BY <1>2, <2>2, <2>3, <2>4, <2>5, HomeUnique
<1>6. BbtTypeOK' /\ Flow'
    BY <1>1, <1>2, Zenon DEF IInv, BbtTypeOK, Flow, RamSame
<1>7. Placed'
    BY <1>1, <1>4, Zenon DEF IInv, Placed, RamSame
<1>8. Written' /\ Kept'
    BY <1>1, <1>2, <1>4, Zenon DEF IInv, Written, Kept, RamSame
<1>9. Spare'
    <2>1. ~(failures = 0 /\ acked # {})
        <3>1. (\E t \in Region : First(t)) /\ (\E m \in Region : Second(m)) => FALSE
            BY <1>2, <1>3, Zenon DEF Home, First
        <3> QED
            BY <3>1, Zenon DEF IInv, Spare
    <2> QED
        BY <1>1, <2>1, Zenon DEF Spare, RamSame
<1>10. Versioned'
    <2>1. Drift' = failures /\ failures \in Nat /\ version["td"] \in Versions
        BY <1>1, <1>2, VersionAssumption DEF Drift, IInv, BbtTypeOK
    <2>2. \A b \in Tables : Dist(version["td"], table[b].version) <= failures
        BY <1>5, <2>1, DistFacts DEF NewTable
    <2>3. (\A b \in Tables :
             /\ Dist(version["td"], table[b].version) <= Drift
             /\ table[b].bad \subseteq bad
             /\ table[b].version = version["td"] => table[b].bad = bad)'
        BY <1>1, <1>2, <1>4, <2>1, <2>2, Zenon DEF IInv, Versioned, RamSame, Dist
    <2> QED
        BY <1>1, <1>4, <2>3, Zenon DEF IInv, Versioned, RamSame, Dist
<1> QED
    BY <1>6, <1>7, <1>8, <1>9, <1>10, Zenon DEF IInv

(* Erasing the block of one table, with or without success.                *)
LEMMA EraseKeepsIInv ==
    ASSUME IInv, write_bbt_erase \/ write_bbt_erase_fails
    PROVE  IInv'
<1> DEFINE p == PageFor(Writing)
<1>1. /\ RamSame /\ pages' = pages /\ writeops # {} /\ erased = NoPage
      /\ p \notin bad \cup {NoPage}
      /\ table' \in {table, [table EXCEPT ![p] = Blank]}
      /\ \/ /\ ok' = ok /\ writeops' = writeops /\ erased' = p /\ failures' = failures
            /\ table' = [table EXCEPT ![p] = Blank]
         \/ /\ ok' = FALSE /\ writeops' = {} /\ erased' = NoPage
            /\ failures < MaxFails /\ failures' = failures + 1
    BY Zenon DEF write_bbt_erase, write_bbt_erase_fails, GiveUp, Erasable, Fails, RamSame, marks
<1>2. /\ scanned /\ ok /\ op # "idle" /\ Writing \in Descr /\ Descr = {"td", "md"}
      /\ Writing = "md" => writeops = {"md"}
      /\ Writing \in writeops
    BY <1>1, WritingFacts, Zenon
<1>3. Home(Writing, p) /\ p \in Region
    BY <1>1, <1>2, PageHome, HomeUnique, Zenon DEF Good
<1> HIDE DEF p
<1>4. /\ table' \in [Region -> Table \cup {Blank}]
      /\ \A b \in Region \ {p} : table'[b] = table[b]
      /\ table'[p] = Blank \/ table' = table
      /\ erased' = p => table'[p] = Blank
    BY <1>1, <1>3, RegionFacts, Zenon DEF IInv, BbtTypeOK
<1>5. /\ \A b \in Tables' : b \in Tables /\ table'[b] = table[b]
      /\ \A b \in Tables : b # p => b \in Tables'
    BY <1>4, Zenon DEF Tables
<1>6. \A b, d : (Home(d, b))' = Home(d, b)
    BY <1>1, Zenon DEF Home, First, Second, Good, RamSame
<1>7. \A d \in Descr, b \in Region : (Holds(d, b))' => Holds(d, b) /\ table'[b] = table[b]
    BY <1>2, <1>4 DEF Holds, Blank
<1>8. failures \in Nat /\ failures' \in {failures, failures + 1}
    BY <1>1, VersionAssumption DEF IInv, BbtTypeOK
<1>9. BbtTypeOK' /\ Flow'
    <2>1. failures' \in 0 .. MaxFails
        BY <1>1, <1>8, VersionAssumption DEF IInv, BbtTypeOK
    <2>2. BbtTypeOK'
        BY <1>1, <1>3, <1>4, <2>1, Zenon DEF IInv, BbtTypeOK, RamSame
    <2> QED
        BY <1>1, <1>2, <2>2, Zenon DEF IInv, Flow, RamSame
<1>10. Placed'
    <2>1. erased' # NoPage => Writing' = Writing /\ erased' = p
        BY <1>1, Zenon DEF Writing
    <2> QED
        BY <1>1, <1>2, <1>3, <1>4, <1>5, <1>6, <2>1, Zenon DEF IInv, Placed, RamSame
<1>11. Written'
    <2>1. SUFFICES ASSUME ok', NEW d \in Descr \ writeops
          PROVE pages[d] # NoPage /\ table'[pages[d]] = NewTable(d)
        BY <1>1, <1>2, Zenon DEF Written, RamSame, NewTable
    <2>2. pages[d] # NoPage /\ table[pages[d]] = NewTable(d) /\ Home(d, pages[d])
        BY <1>2, Zenon DEF IInv, Written, Placed
    <2>3. pages[d] # p /\ pages[d] \in Region
        BY <1>2, <1>3, <2>2, HomeUnique DEF Good
    <2> QED
        BY <1>4, <2>2, <2>3, Zenon
<1>12. Kept'
    <2>1. failures > 0 => failures' > 0
        BY <1>8
    <2> QED
        BY <1>1, <1>2, <1>5, <2>1, Zenon DEF IInv, Kept, RamSame
<1>13. Spare'
    <2>1. CASE failures' # 0
        BY <2>1, Zenon DEF Spare
    <2>2. CASE failures' = 0
        <3>1. failures = 0 /\ ok' = ok /\ writeops' = writeops
            BY <1>1, <1>8, <2>2
        <3>2. SUFFICES ASSUME acked # {}
              PROVE /\ Tables' # {}
                    /\ "td" \in writeops => (\E b \in Region : Holds("md", b))'
            BY <1>1, <1>6, <3>1, Zenon DEF IInv, Spare, RamSame, Home, First, Second, Good
        <3>3. CASE Writing = "td"
            <4>1. PICK m \in Region : Holds("md", m)
                BY <1>2, <3>1, <3>2, <3>3, Zenon DEF IInv, Spare
            <4>2. m \in Tables /\ Home("md", m)
                BY <1>2, <4>1, TableFacts, Zenon DEF IInv, Placed, Tables, Holds
            <4>3. m # p
                BY <1>2, <1>3, <3>3, <4>2, HomeUnique
            <4> QED
                BY <1>4, <1>5, <4>1, <4>2, <4>3, Zenon DEF Holds
        <3>4. CASE Writing = "md"
            <4>1. /\ pages["td"] # NoPage /\ table[pages["td"]] = NewTable("td")
                  /\ Home("td", pages["td"])
                BY <1>2, <3>4, Zenon DEF IInv, Written, Placed
            <4>2. pages["td"] # p /\ pages["td"] \in Region
                BY <1>2, <1>3, <3>4, <4>1, HomeUnique DEF Good
            <4>3. table[pages["td"]].descr = "td"
                BY <4>1 DEF NewTable
            <4>4. pages["td"] \in Tables
                BY <1>2, <4>2, <4>3, TableFacts, Zenon DEF IInv, Tables
            <4> QED
                BY <1>2, <1>5, <3>4, <4>2, <4>4, Zenon
        <3> QED
            BY <1>2, <3>3, <3>4, Zenon
    <2> QED
        BY <2>1, <2>2, Zenon
<1>14. Versioned'
    <2>1. /\ Drift = failures + 1 /\ Drift' = failures + 1
        BY <1>1, <1>2, Zenon DEF Drift, RamSame
    <2>2. (\A b \in Tables :
             /\ Dist(version["td"], table[b].version) <= Drift
             /\ table[b].bad \subseteq bad
             /\ table[b].version = version["td"] => table[b].bad = bad)'
        BY <1>1, <1>2, <1>5, <2>1, Zenon DEF IInv, Versioned, RamSame, Dist
    <2>3. ASSUME NEW t \in Region, NEW m \in Region, (Holds("td", t) /\ Holds("md", m))'
          PROVE  (/\ Dist(table[t].version, table[m].version) <= failures + 1
                  /\ table[t].version = table[m].version => table[t].bad = table[m].bad
                  /\ table[m].bad \subseteq table[t].bad)'
        <3>1. /\ Holds("td", t) /\ Holds("md", m)
              /\ table'[t] = table[t] /\ table'[m] = table[m]
            BY <1>2, <1>7, <2>3, Zenon
        <3>2. /\ table[t].version \in Versions /\ table[m].version \in Versions
            BY <1>2, <3>1, TableFacts, Zenon DEF IInv, Holds
        <3>3. Dist(table[t].version, table[m].version) \in Nat
            BY <3>2, DistFacts, Zenon
        <3>4. Dist(table[t].version, table[m].version) <= failures' + 1
            BY <1>8, <3>1, <3>3 DEF IInv, Versioned
        <3> QED
            BY <3>1, <3>4, Zenon DEF IInv, Versioned, Dist
    <2> QED
        BY <1>1, <2>2, <2>3, Zenon DEF IInv, Versioned, RamSame
<1> QED
    BY <1>9, <1>10, <1>11, <1>12, <1>13, <1>14, Zenon DEF IInv

(* Programming the erased block, with or without success.                  *)
LEMMA ProgramKeepsIInv ==
    ASSUME IInv, write_bbt_program \/ write_bbt_program_fails
    PROVE  IInv'
<1> DEFINE w == Writing
           new == [table EXCEPT ![erased] = NewTable(w)]
<1>1. /\ RamSame /\ erased # NoPage /\ erased' = NoPage
      /\ table' \in {table, new}
      /\ \/ /\ ok' = ok /\ writeops' = writeops \ {w} /\ failures' = failures
            /\ table' = new /\ pages' = [pages EXCEPT ![w] = erased]
         \/ /\ ok' = FALSE /\ writeops' = {} /\ pages' = pages
            /\ failures < MaxFails /\ failures' = failures + 1
    BY Zenon DEF write_bbt_program, write_bbt_program_fails, GiveUp, Fails, RamSame,
                  marks
<1>2. writeops # {}
    BY <1>1, Zenon DEF IInv, Flow
<1>3. /\ scanned /\ ok /\ op # "idle" /\ w \in Descr /\ Descr = {"td", "md"}
      /\ w = "md" => writeops = {"md"}
      /\ w \in writeops
    BY <1>2, WritingFacts, Zenon
<1>4. Home(w, erased) /\ table[erased] = Blank /\ erased \in Region
    BY <1>1, <1>3, HomeUnique DEF IInv, Placed, Good
<1> HIDE DEF w
<1>5. /\ NewTable(w) \in Table /\ NewTable(w).descr = w /\ NewTable(w).bad = bad
      /\ NewTable(w).version = version["td"] /\ version["td"] \in Versions
    BY <1>3, Zenon DEF NewTable, Table, IInv, BbtTypeOK, Versioned
<1>6. /\ table' \in [Region -> Table \cup {Blank}]
      /\ \A b \in Region \ {erased} : table'[b] = table[b]
      /\ table'[erased] = NewTable(w) \/ table' = table
      /\ ok' => table'[erased] = NewTable(w)
    BY <1>1, <1>3, <1>4, <1>5, Zenon DEF IInv, BbtTypeOK
<1>7. /\ \A b \in Tables' : \/ b \in Tables /\ table'[b] = table[b]
                            \/ b = erased /\ table'[b] = NewTable(w)
      /\ \A b \in Tables : b \in Tables' /\ b # erased
    BY <1>4, <1>6, Zenon DEF Tables
<1>8. \A b, d : (Home(d, b))' = Home(d, b)
    BY <1>1, Zenon DEF Home, First, Second, Good, RamSame
<1>9. \A d \in Descr, b \in Region :
        (Holds(d, b))' => \/ Holds(d, b) /\ table'[b] = table[b] /\ b \in Tables /\ b # erased
                          \/ b = erased /\ d = w /\ table'[b] = NewTable(w)
    <2>1. SUFFICES ASSUME NEW d \in Descr, NEW b \in Region, table'[b].descr = d
          PROVE \/ table[b].descr = d /\ table'[b] = table[b] /\ b \in Tables /\ b # erased
                \/ b = erased /\ d = w /\ table'[b] = NewTable(w)
        BY Zenon DEF Holds
    <2>2. CASE b = erased
        BY <1>3, <1>4, <1>5, <1>6, <2>1, <2>2 DEF Blank
    <2>3. CASE b # erased
        BY <1>6, <2>1, <2>3, TableFacts, Zenon DEF IInv, Tables
    <2> QED
        BY <2>2, <2>3, Zenon
<1>10. failures \in Nat /\ failures' \in {failures, failures + 1}
    BY <1>1, VersionAssumption DEF IInv, BbtTypeOK
<1>11. BbtTypeOK' /\ Flow'
    <2>1. failures' \in 0 .. MaxFails
        BY <1>1, <1>10, VersionAssumption DEF IInv, BbtTypeOK
    <2>2. pages' \in [Descr -> Region \cup {NoPage}] /\ writeops' \in SUBSET Descr
        <3>1. pages \in [Descr -> Region \cup {NoPage}] /\ writeops \in SUBSET Descr
            BY Zenon DEF IInv, BbtTypeOK
        <3>2. [pages EXCEPT ![w] = erased] \in [Descr -> Region \cup {NoPage}]
            BY <1>4, <3>1, Zenon
        <3> QED
            BY <1>1, <3>1, <3>2, Zenon
    <2>3. BbtTypeOK'
        BY <1>1, <1>3, <1>6, <2>1, <2>2, Zenon DEF IInv, BbtTypeOK, RamSame
    <2> QED
        BY <1>1, <1>3, <2>3, Zenon DEF IInv, Flow, RamSame
<1>12. Placed'
    <2>1. (\A b \in Tables : /\ Home(table[b].descr, b)
                             /\ table[b].bad \cap Region = factory \cap Region)'
        <3>1. SUFFICES ASSUME NEW b \in Tables'
              PROVE /\ Home(table'[b].descr, b)
                    /\ table'[b].bad \cap Region = factory \cap Region
            BY <1>1, <1>8, Zenon DEF RamSame
        <3>2. CASE b \in Tables /\ table'[b] = table[b]
            BY <3>2, Zenon DEF IInv, Placed
        <3>3. CASE b = erased /\ table'[b] = NewTable(w)
            BY <1>3, <1>4, <1>5, <3>3, Zenon DEF IInv, Placed
        <3> QED
            BY <1>7, <3>2, <3>3, Zenon
    <2>2. \A d \in Descr : pages'[d] # NoPage => Home(d, pages'[d])
        BY <1>1, <1>3, <1>4, Zenon DEF IInv, Placed, BbtTypeOK
    <2>3. writeops' = {"md"} => pages'["td"] # NoPage
        BY <1>1, <1>3, <1>4, Zenon DEF IInv, Placed, BbtTypeOK
    <2> QED
        BY <1>1, <1>8, <2>1, <2>2, <2>3, Zenon DEF IInv, Placed, RamSame
<1>13. Written'
    <2>1. SUFFICES ASSUME ok', NEW d \in Descr \ writeops'
          PROVE pages'[d] # NoPage /\ table'[pages'[d]] = NewTable(d)
        BY <1>1, <1>3, Zenon DEF Written, RamSame, NewTable
    <2>2. pages' = [pages EXCEPT ![w] = erased] /\ writeops' = writeops \ {w}
        BY <1>1, <2>1, Zenon
    <2>3. CASE d = w
        BY <1>1, <1>3, <1>6, <2>1, <2>2, <2>3, Zenon DEF IInv, BbtTypeOK
    <2>4. CASE d # w
        <3>1. pages[d] # NoPage /\ table[pages[d]] = NewTable(d) /\ Home(d, pages[d])
            BY <1>3, <2>1, <2>2, <2>4, Zenon DEF IInv, Written, Placed
        <3>2. pages[d] # erased /\ pages[d] \in Region
            BY <1>3, <1>4, <2>4, <3>1, HomeUnique DEF Good
        <3> QED
            BY <1>6, <2>2, <2>4, <3>1, <3>2, Zenon DEF IInv, BbtTypeOK
    <2> QED
        BY <2>3, <2>4, Zenon
<1>14. Kept'
    <2>1. failures > 0 => failures' > 0
        BY <1>10
    <2> QED
        BY <1>1, <1>3, <1>5, <1>7, <2>1, Zenon DEF IInv, Kept, RamSame
<1>15. Spare'
    <2>1. CASE failures' # 0
        BY <2>1, Zenon DEF Spare
    <2>2. CASE failures' = 0
        <3>1. failures = 0 /\ ok' = ok /\ writeops' = writeops \ {w}
            BY <1>1, <1>10, <2>2
        <3>2. "td" \notin writeops'
            BY <1>3, <3>1, Zenon
        <3>3. SUFFICES ASSUME acked # {} PROVE Tables' # {}
            BY <1>1, <1>8, <3>1, <3>2, Zenon DEF IInv, Spare, RamSame, Home, First, Second, Good
        <3> QED
            BY <1>7, <3>1, <3>3, Zenon DEF IInv, Spare
    <2> QED
        BY <2>1, <2>2, Zenon
<1>16. Versioned'
    <2>1. Drift = failures + 1 /\ Drift' = failures + 1
        BY <1>1, <1>3, Zenon DEF Drift, RamSame
    <2>2. Dist(version["td"], version["td"]) = 0
        BY <1>5, DistFacts, Zenon
    <2>3. (\A b \in Tables :
             /\ Dist(version["td"], table[b].version) <= Drift
             /\ table[b].bad \subseteq bad
             /\ table[b].version = version["td"] => table[b].bad = bad)'
        <3>1. ASSUME NEW b \in Tables'
              PROVE  /\ Dist(version["td"], table'[b].version) <= failures + 1
                     /\ table'[b].bad \subseteq bad
                     /\ table'[b].version = version["td"] => table'[b].bad = bad
            <4>1. CASE b \in Tables /\ table'[b] = table[b]
                BY <1>3, <2>1, <4>1, Zenon DEF IInv, Versioned
            <4>2. CASE b = erased /\ table'[b] = NewTable(w)
                BY <1>5, <1>10, <2>2, <4>2
            <4> QED
                BY <1>7, <4>1, <4>2, Zenon
        <3> QED
            BY <1>1, <2>1, <3>1, Zenon DEF RamSame, Dist
    <2>4. ASSUME NEW t \in Region, NEW m \in Region, (Holds("td", t) /\ Holds("md", m))'
          PROVE  /\ Dist(table'[t].version, table'[m].version) <= failures' + 1
                 /\ table'[t].version = table'[m].version => table'[t].bad = table'[m].bad
                 /\ table'[m].bad \subseteq table'[t].bad
        <3>1. CASE Holds("td", t) /\ Holds("md", m) /\ table'[t] = table[t] /\ table'[m] = table[m]
            <4>1. table[t].version \in Versions /\ table[m].version \in Versions
                BY <1>3, <3>1, TableFacts, Zenon DEF IInv, Holds
            <4>2. Dist(table[t].version, table[m].version) \in Nat
                BY <4>1, DistFacts, Zenon
            <4> QED
                BY <1>10, <3>1, <4>2 DEF IInv, Versioned
        <3>2. CASE t = erased /\ w = "td" /\ table'[t] = NewTable(w) /\ table'[m] = table[m]
                   /\ m \in Tables
            <4>1. table[m].version \in Versions
                BY <3>2, TableFacts, Zenon DEF IInv, Tables
            <4>2. Dist(version["td"], table[m].version) \in Nat
                BY <1>5, <4>1, DistFacts, Zenon
            <4> QED
                BY <1>3, <1>5, <1>10, <2>1, <3>2, <4>2 DEF IInv, Versioned
        <3>3. CASE m = erased /\ w = "md" /\ table'[m] = NewTable(w) /\ table'[t] = table[t]
                   /\ t \in Tables /\ Holds("td", t)
            <4>1. /\ pages["td"] # NoPage /\ table[pages["td"]] = NewTable("td")
                  /\ Home("td", pages["td"])
                BY <1>3, <3>3, Zenon DEF IInv, Written, Placed
            <4>2. t = pages["td"]
                BY <1>3, <3>3, <4>1, HomeUnique DEF IInv, Placed, Holds
            <4>3. table[t].version = version["td"] /\ table[t].bad = bad
                BY <4>1, <4>2 DEF NewTable
            <4> QED
                BY <1>5, <1>10, <2>2, <3>3, <4>3
        <3> QED
            BY <1>3, <1>9, <2>4, <3>1, <3>2, <3>3, Zenon
    <2> QED
        BY <1>1, <2>3, <2>4 DEF IInv, Versioned, RamSame, Dist
<1> QED
    BY <1>11, <1>12, <1>13, <1>14, <1>15, <1>16, Zenon DEF IInv

===============================================================================
