--------------------------- MODULE TftpImageProofs ---------------------------
(***************************************************************************)
(* Proofs about the image that a TFTP download leaves in memory, for every *)
(* file whose blocks have numbers of their own.                            *)
(***************************************************************************)
EXTENDS TftpProofs

-----------------------------------------------------------------------------
(* The image.                                                              *)

\* A file whose blocks have numbers of their own.
NoWrap == \A blk \in BlkSizes : Blocks(blk) < SEQUENCE_SIZE

\* The first n blocks are in memory.
Covered(n) == 0 .. Smaller(n * TftpBlkSize, FileLen) - 1 \subseteq DOMAIN mem

Image ==
    /\ StoredInPlace
    /\ TftpBlockWrapOffset = 0
    /\ NetBootFileXferSize \in 0 .. FileLen
    /\ Live =>
         /\ \A p \in net : p.type = "ACK" /\ p.src = TftpOurPort => Covered(p.block)
         /\ TftpState # "SEND_RRQ" => Covered(srv[TftpRemotePort].cur - 1)
    /\ Running /\ net_state \in {"CONTINUE", "SUCCESS"} /\ Listening =>
         /\ Covered(TftpBlock)
         /\ TftpState = "DATA" => Covered(TftpLastBlock)
    /\ (Running /\ net_state = "SUCCESS") \/ ret = "ok" =>
         /\ Offsets \subseteq DOMAIN mem
         /\ NetBootFileXferSize = FileLen

-----------------------------------------------------------------------------
(* Blocks of the file and places in memory.                                *)

\* Multiplication by a natural number keeps the order.
LEMMA TimesMonotone ==
    ASSUME NEW a \in Int, NEW b \in Int, NEW c \in Nat, a <= b
    PROVE  a * c <= b * c
  <1> DEFINE d == b - a
  <1>1. d \in Nat /\ b = a + d
    OBVIOUS
  <1> HIDE DEF d
  <1>2. d * c >= 0
    BY <1>1
  <1>3. (a + d) * c = a * c + d * c
    BY <1>1
  <1> QED BY <1>1, <1>2, <1>3

\* Block n starts within the file and only the last one ends past it.
LEMMA BlockPlace ==
    ASSUME NEW blk \in BlkSizes, NEW n \in 1 .. Blocks(blk)
    PROVE  /\ blk \in Nat /\ blk > 0
           /\ (n - 1) * blk \in 0 .. FileLen
           /\ n * blk = (n - 1) * blk + blk
  <1>1. blk \in Nat /\ blk > 0 /\ FileLen \in Nat
    BY Constants, Zenon DEF BlkSizes
  <1> DEFINE q == FileLen \div blk
  <1>2. q \in Nat /\ q * blk <= FileLen /\ n \in Nat /\ n >= 1 /\ n - 1 <= q
    BY <1>1 DEF Blocks
  <1> HIDE DEF q
  <1>3. (n - 1) * blk <= q * blk
    BY <1>1, <1>2, TimesMonotone
  <1>4. (n - 1) * blk >= 0 /\ (n - 1) * blk \in Int
    BY <1>1, <1>2
  <1>5. n * blk = (n - 1) * blk + blk
    BY <1>1, <1>2
  <1> QED BY <1>1, <1>2, <1>3, <1>4, <1>5

\* Without a wrap a block number is the number of the block.
LEMMA BlockNumber ==
    ASSUME NoWrap, NEW blk \in BlkSizes, NEW n \in 0 .. Blocks(blk)
    PROVE  n % SEQUENCE_SIZE = n
  BY BlocksType, Constants DEF NoWrap

\* With some blocks in memory, fewer blocks are in memory too.
LEMMA CoveredFewer ==
    ASSUME TftpBlkSize \in Nat, NEW m \in Int, NEW n \in Int, m <= n, Covered(n)
    PROVE  Covered(m)
  <1>1. m * TftpBlkSize <= n * TftpBlkSize
    BY TimesMonotone, Zenon
  <1>2. m * TftpBlkSize \in Int /\ n * TftpBlkSize \in Int /\ FileLen \in Nat
    BY Constants
  <1> DEFINE x == m * TftpBlkSize
             y == n * TftpBlkSize
  <1> HIDE DEF x, y
  <1>3. \A o \in 0 .. Smaller(x, FileLen) - 1 : o \in 0 .. Smaller(y, FileLen) - 1
    BY <1>1, <1>2 DEF Smaller, x, y
  <1> QED BY <1>3, Zenon DEF Covered, x, y

\* No block at all is always in memory.
LEMMA CoveredNone ==
    ASSUME TftpBlkSize \in Nat, NEW n \in Int, n <= 0
    PROVE  Covered(n)
  <1>1. n * TftpBlkSize <= 0 * TftpBlkSize
    BY TimesMonotone
  <1>2. n * TftpBlkSize \in Int /\ 0 * TftpBlkSize = 0 /\ FileLen \in Nat
    BY Constants
  <1> DEFINE x == n * TftpBlkSize
  <1> HIDE DEF x
  <1>3. 0 .. Smaller(x, FileLen) - 1 = {}
    BY <1>1, <1>2 DEF Smaller, x
  <1> QED BY <1>3, Zenon DEF Covered, x

\* The block size of the client is one of the two.
LEMMA BlkSizeType ==
    ASSUME Protocol
    PROVE  TftpBlkSize \in BlkSizes /\ TftpBlkSize \in Nat /\ TftpBlkSize > 0
  BY Constants, Zenon DEF Protocol, Types, TypeOK, BlkSizes

-----------------------------------------------------------------------------
(* The invariant of the image.                                             *)

Serving == Running /\ net_state \in {"CONTINUE", "SUCCESS"} /\ Listening
Done    == (Running /\ net_state = "SUCCESS") \/ ret = "ok"

\* A step that keeps the image and what the client knows of it.
LEMMA ImageFrame ==
    ASSUME Image, UNCHANGED <<mem, NetBootFileXferSize, TftpState, TftpBlock,
                              TftpLastBlock, TftpBlockWrapOffset, TftpBlkSize,
                              TftpRemotePort, TftpOurPort>>,
           Live' => Live, Serving' => Serving, Done' => Done,
           Live' => \A p \in net' : p.type = "ACK" /\ p.src = TftpOurPort =>
                                      Covered(p.block),
           Live' => (TftpState # "SEND_RRQ" => Covered(srv'[TftpRemotePort].cur - 1))
    PROVE  Image'
  BY Zenon DEF Image, StoredInPlace, Covered, Serving, Done

\* Steps of the loop.
LEMMA ControlImage ==
    ASSUME Protocol, Image, Control \/ ArpReceive, UNCHANGED srv
    PROVE  Image'
  <1>0. Types /\ Timers /\ Unheard
    BY Zenon DEF Protocol
  <1>1. UNCHANGED <<tftpVars, attempt, srv, imageVars>>
    BY Zenon DEF Control, NetLoopEnter, NetLoopNoPrereq, RxNothing, ArpTimeoutCheck,
           Switch, CtrlC, Tick, RunVars, Return, ArpReceive
  <1>2. \A p \in net' : p.type = "ACK" => p \in net
    <2>1. CASE Control
      BY <2>1, Zenon DEF Control, NetLoopEnter, NetLoopNoPrereq, RxNothing,
                  ArpTimeoutCheck, Switch, CtrlC, Tick, RunVars, Return
    <2>2. CASE ArpReceive
      BY <1>0, <2>2 DEF ArpReceive, Unheard, Request
    <2> QED BY <2>1, <2>2, Zenon
  <1>3. (Live' => Live) /\ (Serving' => Serving) /\ (Done' => Done)
    <2>1. CASE NetLoopEnter \/ NetLoopNoPrereq
      BY <1>0, <2>1, Zenon
         DEF NetLoopEnter, NetLoopNoPrereq, Live, Serving, Done, Running, Timers
    <2>2. CASE RxNothing
      BY <2>2, Zenon
         DEF RxNothing, loopVars, timerVars, Live, Serving, Done, Running, Listening
    <2>3. CASE ArpTimeoutCheck
      BY <1>0, <2>3, Zenon DEF ArpTimeoutCheck, NetStartAgain, NetSetTimeout, loopVars,
                   timerVars, Live, Serving, Done, Running, Listening, Types, TypeOK
    <2>4. CASE Switch
      BY <1>0, <2>4, Zenon DEF Switch, Return, net_cleanup_loop, NetSetTimeout, loopVars,
                   timerVars, Live, Serving, Done, Running, Listening, Timers
    <2>5. CASE CtrlC
      BY <2>5, Zenon DEF CtrlC, Return, Live, Serving, Done, Running
    <2>6. CASE Tick
      BY <2>6, Zenon DEF Tick, loopVars, Live, Serving, Done, Running, Listening
    <2>7. CASE ArpReceive
      BY <2>7, Zenon DEF ArpReceive, loopVars, timerVars, Live, Serving, Done, Running,
                  Listening
    <2> QED BY <2>1, <2>2, <2>3, <2>4, <2>5, <2>6, <2>7, Zenon DEF Control
  <1>4. Live' => /\ \A p \in net' : p.type = "ACK" /\ p.src = TftpOurPort =>
                                      Covered(p.block)
                 /\ TftpState # "SEND_RRQ" => Covered(srv'[TftpRemotePort].cur - 1)
    BY <1>1, <1>2, <1>3, Zenon DEF Image
  <1> QED BY <1>1, <1>3, <1>4, ImageFrame, Zenon DEF tftpVars, imageVars

\* A new transfer starts with an empty memory.
LEMMA NetLoopStartImage ==
    ASSUME Protocol, Image, NetLoopStart, UNCHANGED srv
    PROVE  Image'
  <1>0. Types /\ Timers /\ PacketsOK /\ attempt \in Nat
    BY DEF Protocol, Types
  <1>1. /\ TftpState' = "SEND_RRQ" /\ TftpOurPort' = attempt + 1 /\ TftpBlock' = 0
        /\ UNCHANGED <<net, ret, TftpBlockWrapOffset>> /\ pc = "start"
        /\ mem' = [o \in {} |-> 0] /\ NetBootFileXferSize' = 0
        /\ net_state' = "CONTINUE" /\ TftpBlkSize' = BLOCK_SIZE
    BY Zenon DEF NetLoopStart, TftpStart, NetSendUDPPacket
  <1>2. ret' # "ok"
    BY <1>0, <1>1, Zenon DEF Timers
  <1>3. \A p \in net' : p.type = "ACK" => p.src # TftpOurPort'
    BY <1>0, <1>1 DEF PacketsOK, PacketOK
  <1>4. Covered(TftpBlock)'
    <2>1. 0 * BLOCK_SIZE = 0 /\ FileLen \in Nat
      BY Constants
    <2> QED BY <1>1, <2>1 DEF Covered, Smaller
  <1>5. StoredInPlace' /\ NetBootFileXferSize' \in 0 .. FileLen
    BY <1>1, Constants DEF StoredInPlace
  <1>6. TftpBlockWrapOffset' = 0
    BY <1>1, Zenon DEF Image
  <1> QED BY <1>1, <1>2, <1>3, <1>4, <1>5, <1>6, Zenon DEF Image

\* A timeout acknowledges the last block again, or starts over.
LEMMA TimerCheckImage ==
    ASSUME Protocol, Image, TimerCheck, UNCHANGED srv
    PROVE  Image'
  <1>0. Types /\ Timers /\ Unheard
    BY Zenon DEF Protocol
  <1>1. /\ pc = "time" /\ pc' = "switch" /\ UNCHANGED <<ret, attempt>>
        /\ UNCHANGED imageVars
    BY Zenon DEF TimerCheck, RunVars
  <1>2. UNCHANGED <<TftpState, TftpBlock, TftpLastBlock, TftpBlockWrapOffset,
                    TftpBlkSize, TftpRemotePort, TftpOurPort>>
    BY Zenon DEF TimerCheck, TftpTimeout, RunVars, tftpVars
  <1>3. ret' # "ok" /\ Running /\ Running'
    BY <1>0, <1>1, Zenon DEF Timers, Running
  <1>4. /\ net_state' \in {net_state, "RESTART", "FAIL"}
        /\ udp_handler' \in {udp_handler, "dummy"}
        /\ timeHandler' = "TftpTimeout" => timeHandler = "TftpTimeout"
    BY <1>0, Zenon DEF TimerCheck, TftpTimeout, startAgainTimeout, NetStartAgain, loopVars,
                timerVars, NetSetTimeout, Types, TypeOK
  <1>5. (Live' => Live) /\ (Serving' => Serving) /\ (Done' => Done)
    BY <1>1, <1>3, <1>4, Zenon DEF Live, Serving, Done, Listening, Running
  <1>6. Live' => \A p \in net' : p.type = "ACK" /\ p.src = TftpOurPort =>
                                   Covered(p.block)
    <2>1. CASE net' = net
      BY <1>5, <2>1, Zenon DEF Image
    <2>2. CASE /\ timeHandler = "TftpTimeout" /\ UNCHANGED loopVars
               /\ TftpSend(TftpState, TftpRemotePort, TftpBlock)
      <3> SUFFICES ASSUME Live', NEW p \in net', p.type = "ACK", p.src = TftpOurPort
                   PROVE  Covered(p.block)
        OBVIOUS
      <3>1. CASE p \in net
        BY <1>5, <3>1, Zenon DEF Image
      <3>2. CASE p \notin net
        <4>1. p = Ack(TftpOurPort, TftpRemotePort, TftpBlock)
          BY <2>2, <3>2 DEF TftpSend, NetSendUDPPacket, Request
        <4>2. Serving
          BY <1>0, <1>1, <1>3, <1>5, <2>2, Zenon
             DEF Serving, Running, Live, Timers, Listening, Deaf, loopVars
        <4> QED BY <4>1, <4>2 DEF Image, Serving, Ack
      <3> QED BY <3>1, <3>2, Zenon
    <2> QED BY <2>1, <2>2, Zenon DEF TimerCheck, TftpTimeout, RunVars
  <1>7. Live' => (TftpState # "SEND_RRQ" => Covered(srv'[TftpRemotePort].cur - 1))
    BY <1>5, Zenon DEF Image
  <1> QED BY <1>1, <1>2, <1>5, <1>6, <1>7, ImageFrame, Zenon DEF imageVars

\* While a packet is being received the transfer is served.
LEMMA ReceivedServing ==
    ASSUME Protocol, NEW p \in net, p.type \in {"OACK", "DATA", "ERROR"}, Receive(p)
    PROVE  Live /\ Serving
  BY Received, Zenon DEF Live, Serving, Running

\* An option acknowledgement repeats the last acknowledgement.
LEMMA OackImage ==
    ASSUME Protocol, Image, NEW p \in net, TftpOack(p), UNCHANGED srv
    PROVE  Image'
  <1>0. Types /\ Timers /\ Unheard /\ Session /\ ServersOK
    BY Zenon DEF Protocol
  <1>1. p.type = "OACK" /\ Receive(p)
    BY Zenon DEF TftpOack
  <1>2. /\ PacketOK(p) /\ net_state = "CONTINUE" /\ pc = "rx" /\ pc' = "arp"
        /\ ret # "ok" /\ UNCHANGED ret
        /\ ether = TRUE /\ p.src \in Servers /\ TftpOurPort # 0
        /\ srv[p.src].client = TftpOurPort
        /\ TftpState # "SEND_RRQ" => p.src = TftpRemotePort
        /\ TftpState # "SEND_RRQ" => p.blksize = TftpBlkSize
    BY <1>1, Received, Zenon
  <1>3. /\ TftpState' = "OACK" /\ TftpRemotePort' = p.src /\ TftpBlkSize' = p.blksize
        /\ net' = net \cup {Ack(TftpOurPort, p.src, TftpBlock)}
        /\ UNCHANGED <<TftpBlock, TftpBlockWrapOffset, TftpOurPort, imageVars, net_state>>
    BY <1>1, <1>2, Zenon DEF TftpOack, TftpSend, NetSendUDPPacket, loopVars
  <1>4. p.blksize = BlkSizeOption /\ p.blksize \in Nat
    BY <1>1, <1>2, Constants, Zenon DEF PacketOK
  <1>5. Live /\ Serving
    BY <1>1, ReceivedServing, Zenon
  <1>6. srv[p.src].cur \in Nat
    BY <1>0, <1>2, Zenon DEF ServersOK, ServerOK
  <1>7. /\ Covered(TftpBlock)' /\ Covered(srv[p.src].cur - 1)'
        /\ \A q \in net : q.type = "ACK" /\ q.src = TftpOurPort => Covered(q.block)'
    <2>1. CASE TftpState = "SEND_RRQ"
      <3>1. TftpBlock = 0 /\ srv[p.src].cur <= 1
            /\ \A q \in net : q.type = "ACK" => q.src # TftpOurPort
        <4>1. p.src \in Servers \ {TftpRemotePort}
          BY <1>0, <1>2, <2>1, Constants, Zenon DEF Session
        <4>2. srv[p.src].cur > 0 => srv[p.src].cur = 1
          BY <1>0, <1>2, <4>1, Zenon DEF Session
        <4>3. srv[p.src].cur <= 1
          BY <1>6, <4>2
        <4> QED BY <1>0, <2>1, <4>3, Zenon DEF Session
      <3>2. \A n \in Int : n <= 0 => Covered(n)'
        <4> SUFFICES ASSUME NEW n \in Int, n <= 0
                     PROVE  0 .. Smaller(n * BlkSizeOption, FileLen) - 1 = {}
          BY <1>3, <1>4, Zenon DEF Covered
        <4>1. n * BlkSizeOption <= 0 * BlkSizeOption
          BY Constants, TimesMonotone
        <4>2. n * BlkSizeOption \in Int /\ 0 * BlkSizeOption = 0 /\ FileLen \in Nat
          BY Constants
        <4> DEFINE x == n * BlkSizeOption
        <4> HIDE DEF x
        <4>3. 0 .. Smaller(x, FileLen) - 1 = {}
          BY <4>1, <4>2 DEF Smaller, x
        <4> QED BY <4>3, Zenon DEF x
      <3>3. Covered(TftpBlock)'
        <4>1. TftpBlock' = 0
          BY <1>3, <3>1, Zenon
        <4> QED BY <3>2, <4>1
      <3>4. Covered(srv[p.src].cur - 1)'
        BY <1>6, <3>1, <3>2
      <3> QED BY <3>1, <3>3, <3>4, Zenon
    <2>2. CASE TftpState # "SEND_RRQ"
      <3>1. UNCHANGED <<TftpBlkSize, mem, TftpBlock>> /\ p.src = TftpRemotePort
        BY <1>2, <1>3, <2>2, Zenon DEF imageVars
      <3> QED BY <1>5, <2>2, <3>1, Zenon DEF Image, Covered, Serving
    <2> QED BY <2>1, <2>2, Zenon
  <1>8. \A q \in net' : q.type = "ACK" /\ q.src = TftpOurPort => Covered(q.block)'
    BY <1>3, <1>7 DEF Ack
  <1>9. StoredInPlace' /\ TftpBlockWrapOffset' = 0 /\ NetBootFileXferSize' \in 0 .. FileLen
    BY <1>3, Zenon DEF Image, StoredInPlace, imageVars
  <1>10. ~Done'
    BY <1>2, <1>3, Zenon DEF Done, Running
  <1> QED BY <1>3, <1>7, <1>8, <1>9, <1>10, Zenon DEF Image, Done

\* Without a wrap the number of a received block tells its place in the file.
LEMMA ReceivedBlock ==
    ASSUME NoWrap, Protocol, NEW p \in net, p.type = "DATA", Receive(p)
    PROVE  /\ p.block = p.idx /\ p.idx \in Nat /\ p.idx >= 1
           /\ p.from = (p.idx - 1) * TftpBlkSize /\ p.from \in 0 .. FileLen
           /\ p.idx * TftpBlkSize = p.from + TftpBlkSize
           /\ p.len = Smaller(TftpBlkSize, FileLen - p.from) /\ p.len \in Nat
           /\ srv[p.src].cur \in Nat /\ p.idx <= srv[p.src].cur
           /\ TftpState = "SEND_RRQ" => srv[p.src].cur = 1 /\ p.idx = 1
  <1>0. ServersOK /\ Session
    BY Zenon DEF Protocol
  <1>1. /\ PacketOK(p) /\ p.src \in Servers /\ srv[p.src].blk = TftpBlkSize
        /\ srv[p.src].client = TftpOurPort
        /\ TftpState = "SEND_RRQ" => p.idx = 1
    BY Received, Zenon
  <1>2. TftpBlkSize \in BlkSizes /\ TftpBlkSize \in Nat /\ TftpBlkSize > 0
    BY BlkSizeType, Zenon
  <1>3. /\ srv[p.src].cur \in Nat /\ srv[p.src].cur <= Blocks(TftpBlkSize)
        /\ p.idx \in 1 .. srv[p.src].cur
    BY <1>0, <1>1, <1>2, Zenon DEF ServersOK, ServerOK, PacketOK
  <1>4. p.idx \in 1 .. Blocks(TftpBlkSize) /\ p.idx \in 0 .. Blocks(TftpBlkSize)
    BY <1>2, <1>3, BlocksType
  <1>5. p.block = p.idx
    BY <1>1, <1>2, <1>4, BlockNumber, Zenon DEF PacketOK
  <1>6. /\ p.from = (p.idx - 1) * TftpBlkSize
        /\ p.len = Smaller(TftpBlkSize, FileLen - p.from)
    BY <1>1, Zenon DEF PacketOK
  <1>7. /\ p.from \in 0 .. FileLen
        /\ p.idx * TftpBlkSize = p.from + TftpBlkSize
    BY <1>2, <1>4, <1>6, BlockPlace, Zenon
  <1>8. p.len \in Nat
    BY <1>2, <1>6, <1>7, Constants DEF Smaller
  <1>9. ASSUME TftpState = "SEND_RRQ" PROVE srv[p.src].cur = 1
    <2>1. p.src \in Servers \ {TftpRemotePort} /\ srv[p.src].cur > 0
      BY <1>0, <1>1, <1>3, <1>9, Constants DEF Session
    <2> QED BY <1>0, <1>1, <2>1, Zenon DEF Session
  <1> QED BY <1>1, <1>3, <1>5, <1>6, <1>7, <1>8, <1>9

\* Blocks that are not stored leave the image alone.
LEMMA DataIgnoredImage ==
    ASSUME NoWrap, Protocol, Image, NEW p \in net,
           TftpDataNotFirst(p) \/ TftpDataDuplicate(p), UNCHANGED srv
    PROVE  Image'
  <1>0. Types /\ Timers /\ Unheard
    BY Zenon DEF Protocol
  <1>1. p.type = "DATA" /\ Receive(p)
    BY Zenon DEF TftpDataNotFirst, TftpDataDuplicate
  <1>2. /\ Listening /\ net_state = "CONTINUE" /\ pc' = "arp"
        /\ ret # "ok" /\ UNCHANGED ret
        /\ TftpState # "SEND_RRQ" => p.src = TftpRemotePort
    BY <1>1, Received, Zenon
  <1>3. /\ p.block = p.idx /\ p.idx \in Nat /\ p.idx >= 1
        /\ TftpState = "SEND_RRQ" => p.idx = 1
    BY <1>1, ReceivedBlock, Zenon
  <1>4. /\ TftpBlock' = p.block /\ UNCHANGED <<TftpBlkSize, TftpOurPort, imageVars, net>>
        /\ TftpState' = "DATA" /\ TftpRemotePort' = TftpRemotePort
        /\ TftpState # "SEND_RRQ" /\ TftpBlockWrapOffset' = 0
    BY <1>0, <1>2, <1>3, SMTT(30)
      DEF TftpDataNotFirst, TftpDataDuplicate, FirstBlock, Types, TypeOK, Image,
           new_transfer, WrappedOffset
  <1>5. Live /\ Serving
    BY <1>1, ReceivedServing, Zenon
  <1>6. /\ \A q \in net : q.type = "ACK" /\ q.src = TftpOurPort => Covered(q.block)'
        /\ Covered(srv[TftpRemotePort].cur - 1)'
    BY <1>4, <1>5, Zenon DEF Image, Covered, imageVars
  <1>7. StoredInPlace' /\ NetBootFileXferSize' \in 0 .. FileLen
    BY <1>4, Zenon DEF Image, StoredInPlace, imageVars
  <1>8. ~Done' /\ (Serving' => Covered(TftpBlock)' /\ Covered(TftpLastBlock)')
    <2>1. CASE TftpDataNotFirst(p)
      <3>1. NetStartAgain("TftpTimeout")
        BY <1>2, <2>1, Zenon DEF TftpDataNotFirst, Listening
      <3>2. net_state' \in {"FAIL", "RESTART"} \/ (Deaf' /\ UNCHANGED net_state)
        BY <1>0, <3>1, StartAgain, Zenon
      <3> QED BY <1>2, <3>2, Zenon DEF Serving, Done, Listening, Deaf
    <2>2. CASE TftpDataDuplicate(p)
      <3>1. /\ TftpState = "DATA" /\ p.block = TftpLastBlock /\ UNCHANGED TftpLastBlock
            /\ UNCHANGED net_state
        BY <1>0, <2>2, Zenon DEF TftpDataDuplicate, FirstBlock, Types, TypeOK, loopVars
      <3>2. Covered(TftpLastBlock)
        BY <1>5, <3>1, Zenon DEF Image, Serving
      <3> QED BY <1>2, <1>4, <3>1, <3>2, Zenon DEF Done, Covered, imageVars
    <2> QED BY <2>1, <2>2, Zenon
  <1> QED BY <1>4, <1>6, <1>7, <1>8, Zenon DEF Image, Done, Serving

\* store_block() puts block n of the file at its place.
LEMMA StoreBlock ==
    ASSUME NoWrap, Protocol, Image, NEW p \in net, p.type = "DATA", Receive(p),
           store_block(p.block - 1, 0, p), UNCHANGED TftpBlkSize, Covered(p.idx - 1)
    PROVE  /\ StoredInPlace' /\ DOMAIN mem \subseteq DOMAIN mem'
           /\ Covered(p.idx)'
           /\ NetBootFileXferSize' \in 0 .. FileLen
           /\ LastBlock(p) => /\ Offsets \subseteq DOMAIN mem'
                              /\ NetBootFileXferSize' = FileLen
  <1>1. /\ p.block = p.idx /\ p.idx \in Nat /\ p.idx >= 1
        /\ p.from = (p.idx - 1) * TftpBlkSize /\ p.from \in 0 .. FileLen
        /\ p.idx * TftpBlkSize = p.from + TftpBlkSize
        /\ p.len = Smaller(TftpBlkSize, FileLen - p.from) /\ p.len \in Nat
    BY ReceivedBlock, Zenon
  <1>2. TftpBlkSize \in Nat /\ TftpBlkSize > 0 /\ FileLen \in Nat
    BY BlkSizeType, Constants, Zenon
  <1> DEFINE range == p.from .. p.from + p.len - 1
  <1>3. (p.block - 1) * TftpBlkSize + 0 = p.from
    BY <1>1, <1>2
  <1>4. /\ mem' = [o \in DOMAIN mem \cup range |->
                       IF o \in range THEN p.from + (o - p.from) ELSE mem[o]]
        /\ NetBootFileXferSize' = IF NetBootFileXferSize < p.from + p.len
                                  THEN p.from + p.len ELSE NetBootFileXferSize
    BY <1>3, Zenon DEF store_block
  <1>5. p.from + p.len <= FileLen /\ p.from + p.len \in Nat
    BY <1>1, <1>2 DEF Smaller
  <1>6. DOMAIN mem' = DOMAIN mem \cup range
    BY <1>4, Zenon
  <1>7. StoredInPlace'
    <2> SUFFICES ASSUME NEW o \in DOMAIN mem' PROVE o \in Offsets /\ mem'[o] = o
      BY Zenon DEF StoredInPlace
    <2>1. CASE o \in range
      BY <1>1, <1>2, <1>4, <1>5, <2>1 DEF Offsets
    <2>2. CASE o \notin range
      BY <1>4, <1>6, <2>2, Zenon DEF Image, StoredInPlace
    <2> QED BY <2>1, <2>2, Zenon
  <1>8. NetBootFileXferSize \in 0 .. FileLen
    BY Zenon DEF Image
  <1>9. NetBootFileXferSize' \in 0 .. FileLen
    BY <1>2, <1>4, <1>5, <1>8
  <1>10. \A o \in 0 .. Smaller(p.from + TftpBlkSize, FileLen) - 1 : o \in DOMAIN mem'
    <2> SUFFICES ASSUME NEW o \in 0 .. Smaller(p.from + TftpBlkSize, FileLen) - 1
                 PROVE  o \in DOMAIN mem'
      OBVIOUS
    <2>1. CASE o < p.from
      <3>1. Smaller((p.idx - 1) * TftpBlkSize, FileLen) = p.from
        BY <1>1, <1>2 DEF Smaller
      <3>2. 0 .. p.from - 1 \subseteq DOMAIN mem
        BY <3>1, Zenon DEF Covered
      <3>3. o \in 0 .. p.from - 1
        BY <1>1, <1>2, <2>1 DEF Smaller
      <3> QED BY <1>6, <3>2, <3>3, Zenon
    <2>2. CASE ~(o < p.from)
      <3>1. o \in range
        BY <1>1, <1>2, <2>2 DEF Smaller
      <3> QED BY <1>6, <3>1, Zenon
    <2> QED BY <2>1, <2>2, Zenon
  <1>11. Covered(p.idx)'
    BY <1>1, <1>10, Zenon DEF Covered
  <1>12. ASSUME LastBlock(p)
         PROVE  /\ Offsets \subseteq DOMAIN mem'
                /\ NetBootFileXferSize' = FileLen
    <2>1. p.len = FileLen - p.from /\ FileLen < p.from + TftpBlkSize
      BY <1>1, <1>2, <1>12 DEF LastBlock, Smaller
    <2>2. Smaller(p.from + TftpBlkSize, FileLen) = FileLen
      BY <1>1, <1>2, <2>1 DEF Smaller
    <2>3. NetBootFileXferSize' = FileLen
      BY <1>1, <1>2, <1>4, <1>8, <2>1
    <2> QED BY <1>10, <2>2, <2>3, Zenon DEF Offsets
  <1> QED BY <1>6, <1>7, <1>9, <1>11, <1>12, Zenon

\* A block is stored before it is acknowledged.
LEMMA DataStoreImage ==
    ASSUME NoWrap, Protocol, Image, NEW p \in net, TftpDataStore(p), UNCHANGED srv
    PROVE  Image'
  <1>0. Types /\ Timers /\ Unheard /\ Session
    BY Zenon DEF Protocol
  <1>1. p.type = "DATA" /\ Receive(p)
    BY Zenon DEF TftpDataStore
  <1>2. /\ Listening /\ net_state = "CONTINUE" /\ pc' = "arp" /\ ether = TRUE
        /\ ret # "ok" /\ UNCHANGED ret
        /\ TftpState # "SEND_RRQ" => p.src = TftpRemotePort
    BY <1>1, Received, Zenon
  <1>3. /\ p.block = p.idx /\ p.idx \in Nat /\ p.idx >= 1
        /\ srv[p.src].cur \in Nat /\ p.idx <= srv[p.src].cur
        /\ TftpState = "SEND_RRQ" => srv[p.src].cur = 1 /\ p.idx = 1
    BY <1>1, ReceivedBlock
  <1>4. /\ TftpBlock' = p.block /\ TftpLastBlock' = p.block /\ TftpState' = "DATA"
        /\ UNCHANGED <<TftpBlkSize, TftpOurPort>>
        /\ TftpRemotePort' = p.src /\ TftpBlockWrapOffset' = 0
        /\ store_block(p.block - 1, 0, p)
        /\ net_state' = IF LastBlock(p) THEN "SUCCESS" ELSE net_state
    BY <1>0, <1>2, <1>3, SMTT(30) DEF TftpDataStore, FirstBlock, Types, TypeOK, Image,
                            WrappedOffset
  <1>5. net' = net \cup {Ack(TftpOurPort, p.src, p.block)}
    BY <1>2, <1>4, Zenon DEF TftpDataStore, TftpSend, NetSendUDPPacket
  <1>6. TftpBlkSize \in Nat
    BY BlkSizeType, Zenon
  <1>7. Live /\ Serving
    BY <1>1, ReceivedServing, Zenon
  <1>8. Covered(srv[p.src].cur - 1)
    <2>1. CASE TftpState = "SEND_RRQ"
      BY <1>3, <1>6, <2>1, CoveredNone
    <2>2. CASE TftpState # "SEND_RRQ"
      BY <1>2, <1>7, <2>2, Zenon DEF Image
    <2> QED BY <2>1, <2>2, Zenon
  <1>9. Covered(p.idx - 1)
    BY <1>3, <1>6, <1>8, CoveredFewer
  <1>10. /\ StoredInPlace' /\ DOMAIN mem \subseteq DOMAIN mem'
         /\ Covered(p.idx)'
         /\ NetBootFileXferSize' \in 0 .. FileLen
         /\ LastBlock(p) => /\ Offsets \subseteq DOMAIN mem'
                            /\ NetBootFileXferSize' = FileLen
    BY <1>1, <1>4, <1>9, StoreBlock, Zenon
  <1>11. /\ Covered(srv[p.src].cur - 1)'
         /\ \A q \in net : q.type = "ACK" /\ q.src = TftpOurPort => Covered(q.block)'
    BY <1>4, <1>7, <1>8, <1>10, Zenon DEF Image, Covered
  <1>12. \A q \in net' : q.type = "ACK" /\ q.src = TftpOurPort => Covered(q.block)'
    BY <1>3, <1>5, <1>10, <1>11 DEF Ack
  <1>13. Covered(TftpBlock)' /\ Covered(TftpLastBlock)'
    BY <1>3, <1>4, <1>10, Zenon
  <1>14. Done' => LastBlock(p)
    BY <1>2, <1>4, Zenon DEF Done
  <1> QED BY <1>4, <1>10, <1>11, <1>12, <1>13, <1>14, Zenon DEF Image, Done

\* A refusal ends the attempt.
LEMMA ErrorImage ==
    ASSUME Protocol, Image, NEW p \in net, TftpError(p), UNCHANGED srv
    PROVE  Image'
  <1>0. Types
    BY Zenon DEF Protocol
  <1>1. p.type = "ERROR" /\ Receive(p)
    BY Zenon DEF TftpError
  <1>2. Listening /\ net_state = "CONTINUE" /\ ret # "ok" /\ UNCHANGED ret
    BY <1>1, Received, Zenon
  <1>3. UNCHANGED <<tftpVars, imageVars, net>>
    BY Zenon DEF TftpError
  <1>4. Live /\ Serving
    BY <1>1, ReceivedServing, Zenon
  <1>5. net_state' \in {"FAIL", "RESTART", "CONTINUE"}
    BY <1>2, Zenon DEF TftpError, NetStartAgain
  <1>6. ~Done'
    BY <1>2, <1>5, Zenon DEF Done
  <1> QED BY <1>3, <1>4, <1>6, ImageFrame, Zenon DEF Image, tftpVars, imageVars

\* The steps of the server.
LEMMA ServerImage ==
    ASSUME NoWrap, Protocol, Image, NEW t \in Servers,
           ServerAccept(t) \/ ServerAdvance(t)
    PROVE  Image'
  <1>0. /\ ServersOK /\ PacketsOK /\ Session
        /\ TftpOurPort = attempt /\ attempt \in Nat
    BY DEF Protocol, Types
  <1>1. UNCHANGED clientVars
    BY Zenon DEF ServerAccept, ServerAdvance
  <1>2. /\ UNCHANGED <<mem, NetBootFileXferSize, TftpState, TftpBlock, TftpLastBlock,
                       TftpBlockWrapOffset, TftpBlkSize, TftpRemotePort, TftpOurPort>>
        /\ UNCHANGED <<pc, ret, net_state, udp_handler, timeHandler>>
    BY <1>1, Zenon DEF clientVars, tftpVars, imageVars, timerVars, loopVars, ctrlVars
  <1>3. (Live' => Live) /\ (Serving' => Serving) /\ (Done' => Done)
    BY <1>2, Zenon DEF Live, Serving, Done, Running, Listening
  <1>4. \A q \in net' : q.type = "ACK" => q \in net
    BY DEF ServerAccept, ServerAdvance, Oack, Data, Error
  <1>5. ASSUME Live', TftpState # "SEND_RRQ"
        PROVE  Covered(srv'[TftpRemotePort].cur - 1)
    <2> DEFINE r == TftpRemotePort
    <2>1. /\ r \in Servers /\ srv[r].client = TftpOurPort /\ TftpOurPort # 0
          /\ srv[r].blk = TftpBlkSize /\ Covered(srv[r].cur - 1) /\ Live
          /\ TftpBlkSize \in BlkSizes
      BY <1>0, <1>3, <1>5, BlkSizeType, Zenon DEF Session, Image
    <2>2. CASE t # r \/ ServerAccept(t)
      <3>1. t # r
        BY <2>1, <2>2 DEF ServerAccept, Unused
      <3>2. srv'[r] = srv[r]
        BY <1>0, <2>1, <3>1, Zenon DEF ServersOK, ServerAccept, ServerAdvance
      <3> QED BY <2>1, <3>2, Zenon
    <2>3. CASE t = r /\ ServerAdvance(t)
      <3> DEFINE a == Ack(srv[r].client, r, srv[r].cur % SEQUENCE_SIZE)
      <3>1. /\ a \in net /\ srv[r].cur < Blocks(TftpBlkSize)
            /\ srv' = [srv EXCEPT ![r].cur = srv[r].cur + 1]
        BY <2>1, <2>3, Zenon DEF ServerAdvance
      <3>2. srv[r].cur \in Nat
        BY <1>0, <2>1, Zenon DEF ServersOK, ServerOK
      <3>3. srv'[r].cur = srv[r].cur + 1
        BY <1>0, <2>1, <3>1, Zenon DEF ServersOK
      <3>4. a.type = "ACK" /\ a.src = TftpOurPort /\ a.block = srv[r].cur % SEQUENCE_SIZE
        BY <2>1 DEF Ack
      <3>5. srv[r].cur % SEQUENCE_SIZE = srv[r].cur
        <4>1. srv[r].cur \in 0 .. Blocks(TftpBlkSize)
          BY <2>1, <3>1, <3>2, BlocksType
        <4> QED BY <2>1, <4>1, BlockNumber, Zenon
      <3>6. Covered(srv[r].cur)
        BY <2>1, <3>1, <3>4, <3>5, Zenon DEF Image
      <3>7. srv'[r].cur - 1 = srv[r].cur
        BY <3>2, <3>3
      <3> QED BY <3>6, <3>7, Zenon
    <2> QED BY <2>2, <2>3, Zenon
  <1>6. Live' => \A q \in net' : q.type = "ACK" /\ q.src = TftpOurPort =>
                                   Covered(q.block)
    BY <1>3, <1>4, Zenon DEF Image
  <1> QED BY <1>2, <1>3, <1>5, <1>6, ImageFrame, Zenon

\* Nothing is in memory before the first transfer.
LEMMA InitImage == Init => Image
  <1> SUFFICES ASSUME Init PROVE Image
    OBVIOUS
  <1>1. StoredInPlace /\ TftpBlockWrapOffset = 0 /\ NetBootFileXferSize \in 0 .. FileLen
    BY Constants DEF Init, StoredInPlace
  <1> QED BY <1>1, Zenon DEF Init, Image, Live, Running

\* One step keeps the invariant of the image.
LEMMA NextImage ==
    ASSUME NoWrap
    PROVE  Protocol /\ Image /\ [Next]_vars => Image'
  <1> SUFFICES ASSUME Protocol, Image, [Next]_vars PROVE Image'
    OBVIOUS
  <1>1. CASE UNCHANGED vars
    <2>1. (Live' => Live) /\ (Serving' => Serving) /\ (Done' => Done)
      BY <1>1, Zenon DEF vars, Live, Serving, Done, Running, Listening
    <2> QED BY <1>1, <2>1, ImageFrame, Zenon DEF vars, Image
  <1>2. CASE Client /\ UNCHANGED srv
    <2>1. ASSUME NEW p \in net, TftpHandler(p) PROVE Image'
      BY <1>2, <2>1, OackImage, DataIgnoredImage, DataStoreImage, ErrorImage, Zenon
         DEF TftpHandler
    <2> QED
      BY <1>2, <2>1, ControlImage, NetLoopStartImage, TimerCheckImage, Zenon
         DEF Client, LoopStep, Control
  <1>3. CASE \E t \in Servers : ServerAccept(t) \/ ServerAdvance(t)
    BY <1>3, ServerImage, Zenon
  <1> QED BY <1>1, <1>2, <1>3, Zenon DEF Next

\* Both invariants hold in every state of every download without a wrap.
LEMMA AlwaysImage ==
    ASSUME NoWrap
    PROVE  Spec => [](Protocol /\ Image)
  BY InitProtocol, NextProtocol, InitImage, NextImage, PTL DEF Spec

(***************************************************************************)
(* store_block() writes every byte of a file at its own place, whatever    *)
(* is lost, delayed, reordered or repeated, for every file whose blocks    *)
(* have numbers of their own, every number of transfers and either block   *)
(* size.                                                                   *)
(***************************************************************************)
THEOREM BytesInPlace ==
    ASSUME NoWrap
    PROVE  Spec => []StoredInPlace
  <1>1. Image => StoredInPlace
    BY Zenon DEF Image
  <1> QED BY <1>1, AlwaysImage, PTL

(***************************************************************************)
(* When NetLoop returns success the whole file is in memory and its length *)
(* is reported, for every such file.                                       *)
(***************************************************************************)
THEOREM SuccessMeansComplete ==
    ASSUME NoWrap
    PROVE  Spec => []ImageComplete
  <1>1. Image => ImageComplete
    BY Zenon DEF Image, ImageComplete
  <1> QED BY <1>1, AlwaysImage, PTL

(***************************************************************************)
(* The client acknowledges nothing it has not stored: the server is never  *)
(* more than one block ahead of the image, for every such file.            *)
(***************************************************************************)
THEOREM NeverAhead ==
    ASSUME NoWrap
    PROVE  Spec => []ServerNotAhead
  <1>1. Protocol /\ Image => ServerNotAhead
    <2> SUFFICES ASSUME Protocol, Image, Live, NEW t \in Servers,
                        srv[t].client = TftpOurPort, srv[t].cur > 1
                 PROVE  0 .. (srv[t].cur - 1) * srv[t].blk - 1 \subseteq DOMAIN mem
      BY Zenon DEF ServerNotAhead
    <2>1. ServersOK /\ Session
      BY Zenon DEF Protocol
    <2>2. /\ srv[t].cur \in Nat /\ srv[t].blk \in BlkSizes
          /\ srv[t].cur <= Blocks(srv[t].blk)
      BY <2>1 DEF ServersOK, ServerOK
    <2>3. t = TftpRemotePort
      BY <2>1, <2>2 DEF Session
    <2>4. TftpState # "SEND_RRQ" /\ srv[t].blk = TftpBlkSize
      BY <2>1, <2>3, Constants, Zenon DEF Session
    <2>5. Covered(srv[t].cur - 1)
      BY <2>3, <2>4, Zenon DEF Image
    <2>6. (srv[t].cur - 1) * srv[t].blk \in 0 .. FileLen
      <3>1. srv[t].cur \in 1 .. Blocks(srv[t].blk)
        BY <2>2, BlocksType
      <3> QED BY <2>2, <3>1, BlockPlace, Zenon
    <2>7. Smaller((srv[t].cur - 1) * srv[t].blk, FileLen) = (srv[t].cur - 1) * srv[t].blk
      <3> DEFINE x == (srv[t].cur - 1) * srv[t].blk
      <3> HIDE DEF x
      <3>1. Smaller(x, FileLen) = x
        BY <2>6, Constants DEF Smaller, x
      <3> QED BY <3>1, Zenon DEF x
    <2> QED BY <2>4, <2>5, <2>7, Zenon DEF Covered
  <1> QED BY <1>1, AlwaysImage, PTL
=============================================================================
