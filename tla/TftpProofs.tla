----------------------------- MODULE TftpProofs -----------------------------
(***************************************************************************)
(* Proofs about the TFTP download for every file, block size, number of    *)
(* timeouts and number of transfers.                                       *)
(***************************************************************************)
EXTENDS TftpTransfer, TLAPS

-----------------------------------------------------------------------------
(* Types, timers and packets.                                              *)

Running == pc \in {"rx", "arp", "time", "switch"}

Types ==
    /\ TypeOK
    /\ attempt \in 0 .. MaxAttempts /\ TftpOurPort = attempt
    /\ NetTryCount \in Nat /\ timeLeft \in Nat /\ arpLeft \in Nat
    /\ ether \in BOOLEAN /\ arpWait \in BOOLEAN
    /\ ret \in {"none", "ok", "fail"}

\* While the loop runs a transfer either listens and has TftpTimeout armed,
\* or is deaf and waits to start again.
Listening == udp_handler = "TftpHandler" /\ timeHandler = "TftpTimeout"
Deaf      == udp_handler = "dummy" /\ timeHandler = "startAgainTimeout"

Timers ==
    /\ pc \in {"rx", "arp", "time"} => Listening \/ Deaf
    /\ pc = "switch" /\ net_state \in {"CONTINUE", "SUCCESS"} => Listening \/ Deaf
    /\ timeHandler = "TftpTimeout" => TftpTimeoutCount <= TIMEOUT_COUNT
    /\ pc = "rx" => net_state = "CONTINUE"
    /\ ret = "ok" => pc = "idle"
    /\ udp_handler = "TftpHandler" => TftpOurPort # 0
    /\ pc \in {"arp", "time"} /\ net_state = "SUCCESS" =>
           ether /\ Listening /\ timeLeft > 0

\* Until the server's ethernet address is known nothing has been sent from
\* the port of this transfer, so nobody has answered.
Unheard ==
    /\ arpWait => ~ether /\ txPacket = Request(TftpOurPort) /\ TftpOurPort # 0
    /\ ~ether => /\ TftpState = "SEND_RRQ"
                 /\ \A p \in net : p.type = "RRQ" => p.src # TftpOurPort
                 /\ \A t \in Servers : srv[t].client # 0 => srv[t].client # TftpOurPort

BlkSizes == {BLOCK_SIZE, BlkSizeOption}

\* A server transfer stays within the file.
ServerOK(s) ==
    /\ s.client \in 0 .. attempt /\ s.cur \in Nat
    /\ s.blk = 0 => s.cur = 0
    /\ s.blk # 0 => s.blk \in BlkSizes /\ s.client # 0 /\ s.cur <= Blocks(s.blk)

ServersOK ==
    /\ srv \in [Servers -> [client : Nat, blk : Nat, cur : Nat]]
    /\ \A t \in Servers : ServerOK(srv[t])

\* Every packet is one its sender could have sent.
PacketOK(p) ==
    /\ p.type \in {"RRQ", "ACK", "OACK", "DATA", "ERROR"}
    /\ p.type \in {"RRQ", "ACK"} => p.src \in 1 .. attempt
    /\ p.type \in {"OACK", "DATA", "ERROR"} =>
           p.src \in Servers /\ p.dst = srv[p.src].client /\ p.dst # 0
    /\ p.type = "OACK" => /\ p.blksize = BlkSizeOption
                          /\ srv[p.src].blk = BlkSizeOption
    /\ p.type = "DATA" =>
           /\ srv[p.src].blk # 0 /\ p.idx \in 1 .. srv[p.src].cur
           /\ p.block = p.idx % SEQUENCE_SIZE
           /\ p.from = (p.idx - 1) * srv[p.src].blk
           /\ p.len = Smaller(srv[p.src].blk, FileLen - p.from)

PacketsOK == \A p \in net : PacketOK(p)

\* The client takes one transfer only and acknowledges nobody else, in the
\* block size of that transfer.
Session ==
    /\ TftpState = "SEND_RRQ" =>
         /\ TftpBlkSize = BLOCK_SIZE /\ TftpBlock = 0 /\ TftpRemotePort = 0
         /\ \A p \in net : p.type = "ACK" => p.src # TftpOurPort
    /\ TftpState # "SEND_RRQ" =>
         /\ TftpRemotePort \in Servers /\ TftpOurPort # 0
         /\ srv[TftpRemotePort].client = TftpOurPort
         /\ srv[TftpRemotePort].blk = TftpBlkSize
         /\ \A p \in net : p.type = "ACK" /\ p.src = TftpOurPort =>
                               p.dst = TftpRemotePort
    /\ \A t \in Servers \ {TftpRemotePort} :
         srv[t].client = TftpOurPort /\ srv[t].cur > 0 =>
             srv[t].cur = 1 /\ srv[t].blk = BLOCK_SIZE

Protocol == Types /\ Timers /\ Unheard /\ ServersOK /\ PacketsOK /\ Session

-----------------------------------------------------------------------------
(* Steps that leave the transfer and the network alone.                    *)

\* The constants are numbers, and a request is counted at least once.
LEMMA Constants ==
    /\ SEQUENCE_SIZE \in Nat /\ SEQUENCE_SIZE > 1
    /\ BLOCK_SIZE \in Nat /\ BLOCK_SIZE > 0
    /\ BlkSizeOption \in Nat /\ BlkSizeOption > 0
    /\ TIMEOUT_COUNT \in Nat
    /\ ARP_TIMEOUT_COUNT \in Nat /\ ARP_TIMEOUT_COUNT > 0
    /\ TftpTicks \in Nat /\ TftpTicks > 0
    /\ RetryCnt \in Nat /\ MaxAttempts \in Nat /\ FileLen \in Nat
    /\ Servers \subseteq Nat /\ 0 \notin Servers
  BY SequenceAssumption, BlockAssumption, CountAssumption, FileAssumption,
     ServerAssumption

\* What a step of the loop that moves no data keeps.
LEMMA LoopFrame ==
    ASSUME Protocol, UNCHANGED <<tftpVars, net, attempt, srv>>
    PROVE  ServersOK' /\ PacketsOK' /\ Session'
  <1>1. ServersOK'
    BY Zenon DEF Protocol, ServersOK, ServerOK
  <1>2. PacketsOK'
    BY Zenon DEF Protocol, PacketsOK, PacketOK
  <1>3. Session'
    BY Zenon DEF Protocol, Session, tftpVars
  <1> QED BY <1>1, <1>2, <1>3, Zenon

\* NetStartAgain() gives up, or arms the timer of a new attempt.
LEMMA StartAgain ==
    ASSUME Types, NEW pending \in {"none", "TftpTimeout", "startAgainTimeout"},
           NetStartAgain(pending)
    PROVE  /\ net_state' \in {"CONTINUE", "RESTART", "SUCCESS", "FAIL"}
           /\ NetTryCount' \in Nat /\ timeLeft' \in Nat
           /\ timeHandler' \in {"none", "TftpTimeout", "startAgainTimeout"}
           /\ udp_handler' \in {"dummy", "TftpHandler"}
           /\ \/ /\ net_state' \in {"FAIL", "RESTART"}
                 /\ timeHandler' = pending /\ UNCHANGED <<udp_handler, timeLeft>>
              \/ Deaf' /\ UNCHANGED net_state /\ timeLeft' = 2 /\ EthRotate
           /\ EthRotate => net_state' \in {net_state, "FAIL"}
  BY DEF Types, TypeOK, NetStartAgain, NetSetTimeout, StartAgainTicks, Deaf

\* A step of NetLoop that neither receives nor sends.
Control == \/ NetLoopEnter \/ NetLoopNoPrereq \/ RxNothing \/ ArpTimeoutCheck
           \/ Switch \/ CtrlC \/ Tick

\* The loop's own steps keep the protocol's invariant.
LEMMA ControlProtocol ==
    ASSUME Protocol, Control, UNCHANGED srv
    PROVE  Protocol'
  <1>0. Types /\ Timers /\ Unheard
    BY Zenon DEF Protocol
  <1>1. UNCHANGED <<tftpVars, net, attempt, srv>>
    BY Zenon DEF Control, NetLoopEnter, NetLoopNoPrereq, RxNothing, ArpTimeoutCheck,
           Switch, CtrlC, Tick, RunVars, Return
  <1> SUFFICES Types' /\ Timers' /\ Unheard'
    BY <1>1, LoopFrame, Zenon DEF Protocol
  <1>2. CASE NetLoopEnter
    BY <1>0, <1>1, <1>2
       DEF Types, TypeOK, Timers, Unheard, Listening, Deaf, NetLoopEnter,
           timerVars, RunVars, tftpVars, arpVars
  <1>3. CASE NetLoopNoPrereq
    BY <1>0, <1>1, <1>3
       DEF Types, TypeOK, Timers, Unheard, Listening, Deaf, NetLoopNoPrereq,
           timerVars, RunVars, tftpVars, arpVars
  <1>4. CASE RxNothing
    BY <1>0, <1>1, <1>4, Zenon
       DEF Types, TypeOK, Timers, Unheard, Listening, Deaf, RxNothing,
           timerVars, loopVars, RunVars, tftpVars, arpVars
  <1>5. CASE ArpTimeoutCheck
    <2>1. UNCHANGED <<ether, arpWait, txPacket, ret>> /\ pc = "arp" /\ pc' = "time"
      BY <1>5, Zenon DEF ArpTimeoutCheck
    <2>2. Unheard'
      BY <1>0, <1>1, <2>1, Zenon DEF Unheard, tftpVars
    <2>3. CASE UNCHANGED <<loopVars, timerVars>>
      BY <1>0, <1>1, <1>5, <2>1, <2>2, <2>3, Constants
         DEF Types, TypeOK, Timers, Listening, Deaf, ArpTimeoutCheck,
             timerVars, loopVars, tftpVars, NetStartAgain
    <2>4. CASE arpTry' = 0 /\ NetStartAgain(timeHandler) /\ UNCHANGED arpLeft /\ arpWait
      <3>1. timeHandler \in {"none", "TftpTimeout", "startAgainTimeout"}
        BY <1>0, Zenon DEF Types, TypeOK
      <3>2. Types'
        BY <1>0, <1>1, <2>1, <2>4, <3>1, StartAgain, Constants
           DEF Types, TypeOK, tftpVars
      <3>3. Timers'
        BY <1>0, <1>1, <2>1, <2>4, <3>1, StartAgain, Zenon
           DEF Timers, Unheard, Listening, Deaf, tftpVars
      <3> QED BY <2>2, <3>2, <3>3, Zenon
    <2> QED BY <1>5, <2>3, <2>4, Zenon DEF ArpTimeoutCheck, ArpDue
  <1>6. CASE Switch
    <2>1. UNCHANGED arpVars
      BY <1>6, Zenon DEF Switch, RunVars
    <2>2. Types' /\ Unheard'
      BY <1>0, <1>1, <1>6, <2>1
         DEF Types, TypeOK, Unheard, Switch, Return, net_cleanup_loop,
             NetSetTimeout, timerVars, loopVars, RunVars, tftpVars, arpVars
    <2>3. Timers'
      BY <1>0, <1>1, <1>6, <2>1, Zenon
         DEF Timers, Listening, Deaf, Switch, Return, net_cleanup_loop,
             NetSetTimeout, timerVars, loopVars, RunVars, tftpVars, arpVars
    <2> QED BY <2>2, <2>3, Zenon
  <1>7. CASE CtrlC
    BY <1>0, <1>1, <1>7, Zenon
      DEF Types, TypeOK, Timers, Unheard, Listening, Deaf, CtrlC, Return,
           net_cleanup_loop, NetSetTimeout, tftpVars
  <1>8. CASE Tick
    <2>1. timeLeft' \in Nat /\ arpLeft' \in Nat
      BY <1>0, <1>8 DEF Types, Tick, ArpDue, TimerDue
    <2> QED
      BY <1>0, <1>1, <1>8, <2>1, Zenon
         DEF Types, TypeOK, Timers, Unheard, Listening, Deaf, Tick, loopVars,
             tftpVars
  <1> QED BY <1>2, <1>3, <1>4, <1>5, <1>6, <1>7, <1>8, Zenon DEF Control

-----------------------------------------------------------------------------
(* Steps that send.                                                        *)

\* A packet a client may send: a request, or an acknowledgement to the server
\* of the transfer it is in.
ClientPacket(p) ==
    \/ p = Request(TftpOurPort)
    \/ /\ TftpState # "SEND_RRQ"
       /\ \E b \in 0 .. SEQUENCE_SIZE - 1 : p = Ack(TftpOurPort, TftpRemotePort, b)

\* Such a packet keeps the invariants about packets.
LEMMA SentPacket ==
    ASSUME ServersOK, PacketsOK, Session, TftpOurPort = attempt, attempt \in Nat,
           TftpOurPort # 0, NEW p, ClientPacket(p), net' = net \cup {p},
           UNCHANGED <<TftpState, TftpBlock, TftpBlkSize, TftpRemotePort,
                       TftpOurPort, attempt, srv>>
    PROVE  ServersOK' /\ PacketsOK' /\ Session'
  <1>1. /\ p.type \in {"RRQ", "ACK"} /\ p.src = TftpOurPort
        /\ p.type = "ACK" => TftpState # "SEND_RRQ" /\ p.dst = TftpRemotePort
    BY DEF ClientPacket, Request, Ack
  <1>2. ServersOK'
    BY Zenon DEF ServersOK, ServerOK
  <1>3. PacketsOK'
    <2>1. PacketOK(p)'
      BY <1>1 DEF PacketOK
    <2> QED BY <2>1, Zenon DEF PacketsOK, PacketOK
  <1>4. Session'
    BY <1>1, Zenon DEF Session
  <1> QED BY <1>2, <1>3, <1>4, Zenon

\* The ARP reply lets the parked request out.
LEMMA ArpReceiveProtocol ==
    ASSUME Protocol, ArpReceive, UNCHANGED srv
    PROVE  Protocol'
  <1>0. /\ Types /\ Timers /\ Unheard /\ ServersOK /\ PacketsOK /\ Session
        /\ TftpOurPort = attempt /\ attempt \in Nat
    BY DEF Protocol, Types
  <1>1. /\ txPacket = Request(TftpOurPort) /\ TftpOurPort # 0
        /\ net' = net \cup {txPacket} /\ UNCHANGED <<tftpVars, attempt>>
    BY <1>0, Zenon DEF ArpReceive, Unheard
  <1>2. ServersOK' /\ PacketsOK' /\ Session'
    BY <1>0, <1>1, SentPacket, Zenon DEF ClientPacket, tftpVars
  <1>3. Types' /\ Unheard'
    BY <1>0, <1>1, Zenon DEF Types, TypeOK, Unheard, ArpReceive, tftpVars, loopVars,
                      timerVars
  <1>4. Timers'
    BY <1>0, <1>1, Zenon DEF Timers, Unheard, Listening, Deaf, ArpReceive, tftpVars,
                      loopVars, timerVars
  <1> QED BY <1>2, <1>3, <1>4, Zenon DEF Protocol

\* A new transfer has a port nobody has used.
LEMMA NetLoopStartProtocol ==
    ASSUME Protocol, NetLoopStart, UNCHANGED srv
    PROVE  Protocol'
  <1>0. /\ Types /\ Timers /\ Unheard /\ ServersOK /\ PacketsOK /\ Session
        /\ attempt \in Nat
    BY DEF Protocol, Types
  <1>1. /\ TftpState' = "SEND_RRQ" /\ TftpRemotePort' = 0
        /\ TftpOurPort' = attempt + 1 /\ attempt' = attempt + 1
        /\ TftpBlock' = 0 /\ TftpBlkSize' = BLOCK_SIZE /\ TftpTimeoutCount' = 0
        /\ UNCHANGED <<net, TftpLastBlock, ret, NetTryCount>>
        /\ ether' = FALSE /\ arpWait' = TRUE /\ arpTry' = 1 /\ arpLeft' = 1
        /\ txPacket' = Request(attempt + 1)
        /\ timeHandler' = "TftpTimeout" /\ timeLeft' = TftpTicks
        /\ udp_handler' = "TftpHandler"
        /\ net_state' = "CONTINUE" /\ pc = "start" /\ pc' = "rx"
        /\ attempt < MaxAttempts
    BY Zenon DEF NetLoopStart, TftpStart, NetSetTimeout, NetSendUDPPacket
  <1>2. Types'
    <2>1. TypeOK'
      BY <1>0, <1>1, Constants DEF Types, TypeOK
    <2>2. ether' \in BOOLEAN /\ arpWait' \in BOOLEAN
      BY <1>1, Zenon
    <2>3. /\ attempt' \in 0 .. MaxAttempts /\ TftpOurPort' = attempt'
          /\ NetTryCount' \in Nat /\ timeLeft' \in Nat /\ arpLeft' \in Nat
      BY <1>0, <1>1, Constants DEF Types
    <2> QED BY <1>0, <1>1, <2>1, <2>2, <2>3, Zenon DEF Types
  <1>3. Timers'
    BY <1>0, <1>1, Constants DEF Timers, Listening, Deaf
  <1>4. ServersOK'
    BY <1>0, <1>1 DEF ServersOK, ServerOK
  <1>5. PacketsOK'
    BY <1>0, <1>1 DEF PacketsOK, PacketOK
  <1>6. \A p \in net : p.type \in {"RRQ", "ACK"} => p.src # attempt + 1
    BY <1>0 DEF PacketsOK, PacketOK
  <1>7. \A t \in Servers : srv[t].client # attempt + 1
    BY <1>0 DEF ServersOK, ServerOK
  <1>8. Unheard' /\ Session'
    BY <1>0, <1>1, <1>6, <1>7 DEF Unheard, Session
  <1> QED BY <1>2, <1>3, <1>4, <1>5, <1>8, Zenon DEF Protocol

\* The timer of the loop: nothing, a repeated packet, or a new attempt.
LEMMA TimerCheckProtocol ==
    ASSUME Protocol, TimerCheck, UNCHANGED srv
    PROVE  Protocol'
  <1>0. /\ Types /\ Timers /\ Unheard /\ ServersOK /\ PacketsOK /\ Session
        /\ TftpOurPort = attempt /\ attempt \in Nat
    BY DEF Protocol, Types
  <1>1. pc = "time" /\ pc' = "switch" /\ UNCHANGED <<ret, attempt>>
    BY Zenon DEF TimerCheck
  <1>2. CASE UNCHANGED <<loopVars, timerVars, RunVars>>
    <2>1. Types' /\ Timers' /\ Unheard'
      BY <1>0, <1>1, <1>2
         DEF Types, TypeOK, Timers, Unheard, Listening, Deaf, loopVars,
             timerVars, RunVars, tftpVars, arpVars
    <2> QED BY <1>1, <1>2, <2>1, LoopFrame, Zenon DEF Protocol, RunVars
  <1>3. CASE TimerDue /\ timeHandler = "TftpTimeout" /\ TftpTimeout
    <2>1. /\ TftpTimeoutCount' = TftpTimeoutCount + 1
          /\ TftpTimeoutCount <= TIMEOUT_COUNT /\ TftpTimeoutCount \in Nat
          /\ timeLeft = 0 /\ Listening
      BY <1>0, <1>1, <1>3, Constants
         DEF Types, TypeOK, Timers, Listening, Deaf, TimerDue, TftpTimeout
    <2>2. UNCHANGED <<TftpState, TftpBlock, TftpLastBlock, TftpBlockWrapOffset,
                      TftpBlkSize, TftpRemotePort, TftpOurPort>>
      BY <1>3, Zenon DEF TftpTimeout
    <2>3. CASE NetStartAgain("none") /\ UNCHANGED <<arpVars, net>>
      <3>1. Types' /\ Unheard'
        BY <1>0, <1>1, <2>1, <2>2, <2>3, StartAgain, Constants
           DEF Types, TypeOK, Unheard, arpVars
      <3>2. Timers'
        BY <1>0, <1>1, <2>1, <2>2, <2>3, StartAgain, Zenon
           DEF Timers, Listening, Deaf, arpVars
      <3>3. ServersOK' /\ PacketsOK'
        BY <1>0, <1>1, <2>3, Zenon DEF ServersOK, ServerOK, PacketsOK, PacketOK
      <3>4. Session'
        BY <1>0, <2>2, <2>3, Zenon DEF Session
      <3> QED BY <3>1, <3>2, <3>3, <3>4, Zenon DEF Protocol
    <2>4. CASE /\ ~TooMany(TftpTimeoutCount')
               /\ NetSetTimeout(TftpTicks, "TftpTimeout")
               /\ TftpSend(TftpState, TftpRemotePort, TftpBlock)
               /\ UNCHANGED loopVars
      <3>1. /\ timeHandler' = "TftpTimeout" /\ timeLeft' = TftpTicks
            /\ TftpTimeoutCount' <= TIMEOUT_COUNT
        BY <2>1, <2>4, Constants DEF NetSetTimeout, TooMany
      <3>2. TftpOurPort # 0
        BY <1>0, <2>1, Zenon DEF Timers, Listening
      <3>3. UNCHANGED <<net_state, NetTryCount, udp_handler>>
        BY <2>4, Zenon DEF loopVars
      <3> DEFINE p == IF TftpState = "SEND_RRQ" THEN Request(TftpOurPort)
                      ELSE Ack(TftpOurPort, TftpRemotePort, TftpBlock)
      <3>4. /\ ether' = ether
            /\ IF ether
               THEN net' = net \cup {p} /\ UNCHANGED <<arpWait, arpTry, arpLeft, txPacket>>
               ELSE /\ arpWait' = TRUE /\ arpTry' = 1 /\ arpLeft' = 1
                    /\ txPacket' = p
                    /\ UNCHANGED net
        BY <2>4, Zenon DEF TftpSend, NetSendUDPPacket
      <3>5. ClientPacket(p)
        BY <1>0, Zenon DEF ClientPacket, Types, TypeOK
      <3>6. ~ether => p = Request(TftpOurPort)
        BY <1>0, Zenon DEF Unheard
      <3>7. p.type = "RRQ" \/ p.type = "ACK"
        BY Zenon DEF Request, Ack
      <3> HIDE DEF p
      <3>8. ServersOK' /\ PacketsOK' /\ Session'
        <4>1. CASE ether
          BY <1>0, <1>1, <2>2, <3>2, <3>4, <3>5, <4>1, SentPacket, Zenon
        <4>2. CASE ~ether
          <5>1. ServersOK' /\ PacketsOK'
            BY <1>0, <1>1, <3>4, <4>2 DEF ServersOK, ServerOK, PacketsOK, PacketOK
          <5>2. Session'
            BY <1>0, <1>1, <2>2, <3>4, <4>2, Zenon DEF Session
          <5> QED BY <5>1, <5>2, Zenon
        <4> QED BY <4>1, <4>2, Zenon
      <3>9. Types'
        <4>1. TypeOK'
          BY <1>0, <1>1, <2>1, <2>2, <3>1, <3>3, <3>4, Constants DEF Types, TypeOK
        <4>2. ether' \in BOOLEAN /\ arpWait' \in BOOLEAN
          BY <1>0, <3>4, Zenon DEF Types
        <4>3. timeLeft' \in Nat /\ arpLeft' \in Nat
          BY <1>0, <3>1, <3>4, Constants DEF Types
        <4> QED BY <1>0, <1>1, <2>2, <3>3, <4>1, <4>2, <4>3, Zenon DEF Types
      <3>10. Timers'
        BY <1>0, <1>1, <2>1, <2>2, <3>1, <3>3, <3>4, Constants, Zenon
           DEF Timers, Listening, Deaf
      <3>11. Unheard'
        BY <1>0, <2>2, <3>2, <3>4, <3>6, Zenon DEF Unheard
      <3> QED BY <3>8, <3>9, <3>10, <3>11, Zenon DEF Protocol
    <2> QED BY <1>3, <2>3, <2>4, Zenon DEF TftpTimeout
  <1>4. CASE /\ TimerDue /\ timeHandler = "startAgainTimeout"
             /\ startAgainTimeout /\ timeHandler' = "none"
             /\ UNCHANGED <<timeLeft, NetTryCount, udp_handler, RunVars>>
    <2>1. Types' /\ Timers' /\ Unheard'
      BY <1>0, <1>1, <1>4, Zenon
         DEF Types, TypeOK, Timers, Unheard, Listening, Deaf,
             startAgainTimeout, RunVars, tftpVars, arpVars
    <2> QED BY <1>1, <1>4, <2>1, LoopFrame, Zenon DEF Protocol, RunVars
  <1> QED BY <1>2, <1>3, <1>4, Zenon DEF TimerCheck

-----------------------------------------------------------------------------
(* Packets received.                                                       *)

\* What is known of a packet that TftpHandler() takes.
LEMMA Received ==
    ASSUME Protocol, NEW p \in net, p.type \in {"OACK", "DATA", "ERROR"}, Receive(p)
    PROVE  /\ PacketOK(p)
           /\ Listening /\ net_state = "CONTINUE"
           /\ pc = "rx" /\ pc' = "arp" /\ UNCHANGED <<ret, attempt>>
           /\ ether = TRUE /\ arpWait = FALSE /\ ret # "ok"
           /\ p.src \in Servers /\ p.dst = TftpOurPort /\ TftpOurPort # 0
           /\ srv[p.src].client = TftpOurPort
           /\ TftpState # "SEND_RRQ" => p.src = TftpRemotePort
           /\ p.type = "OACK" /\ TftpState # "SEND_RRQ" => p.blksize = TftpBlkSize
           /\ p.type = "DATA" => /\ srv[p.src].blk = TftpBlkSize
                                 /\ TftpState = "SEND_RRQ" => p.idx = 1
                                 /\ p.block \in 0 .. SEQUENCE_SIZE - 1
                                 /\ p.idx \in Nat
  <1>0. Types /\ Timers /\ Unheard /\ ServersOK /\ PacketsOK /\ Session
    BY Zenon DEF Protocol
  <1>1. PacketOK(p)
    BY <1>0, Zenon DEF PacketsOK
  <1>2. /\ pc = "rx" /\ pc' = "arp" /\ UNCHANGED <<ret, attempt>>
        /\ udp_handler = "TftpHandler" /\ p.dst = TftpOurPort
        /\ TftpState # "SEND_RRQ" => p.src = TftpRemotePort
    BY Zenon DEF Receive, Accepted
  <1>3. Listening /\ net_state = "CONTINUE" /\ TftpOurPort # 0 /\ ret # "ok"
    BY <1>0, <1>2, Zenon DEF Timers, Listening, Deaf
  <1>4. p.src \in Servers /\ srv[p.src].client = TftpOurPort
    BY <1>1, <1>2, Zenon DEF PacketOK
  <1>5. ether = TRUE /\ arpWait = FALSE
    BY <1>0, <1>3, <1>4, Zenon DEF Unheard, Types
  <1>6. p.type = "OACK" /\ TftpState # "SEND_RRQ" => p.blksize = TftpBlkSize
    BY <1>0, <1>1, <1>2, Zenon DEF PacketOK, Session
  <1>7. ASSUME p.type = "DATA"
        PROVE  /\ srv[p.src].blk = TftpBlkSize
               /\ TftpState = "SEND_RRQ" => p.idx = 1
               /\ p.block \in 0 .. SEQUENCE_SIZE - 1
               /\ p.idx \in Nat
    <2>1. /\ srv[p.src].cur \in Nat /\ p.idx \in 1 .. srv[p.src].cur
          /\ p.block = p.idx % SEQUENCE_SIZE
      BY <1>0, <1>1, <1>4, <1>7, Zenon DEF PacketOK, ServersOK, ServerOK
    <2>2. p.block \in 0 .. SEQUENCE_SIZE - 1
      BY <2>1, Constants
    <2>3. CASE TftpState = "SEND_RRQ"
      <3>1. p.src \in Servers \ {TftpRemotePort}
        BY <1>0, <1>4, <2>3, Constants, Zenon DEF Session
      <3>2. srv[p.src].cur = 1 /\ srv[p.src].blk = BLOCK_SIZE
        BY <1>0, <1>4, <2>1, <3>1 DEF Session
      <3> QED BY <1>0, <2>1, <2>2, <2>3, <3>2 DEF Session
    <2>4. CASE TftpState # "SEND_RRQ"
      BY <1>0, <1>2, <2>1, <2>2, <2>4 DEF Session
    <2> QED BY <2>3, <2>4, Zenon
  <1> QED BY <1>1, <1>2, <1>3, <1>4, <1>5, <1>6, <1>7, Zenon

\* The parts of the invariant that receiving and acknowledging disturbs: the
\* transfer is now with p.src, in the block size of that transfer.
LEMMA ReceivedFrame ==
    ASSUME Protocol, NEW p \in net, p.type \in {"OACK", "DATA"}, Receive(p),
           TftpState' \in {"OACK", "DATA"}, TftpRemotePort' = p.src,
           TftpBlkSize' = srv[p.src].blk, UNCHANGED <<TftpOurPort, srv>>,
           \/ net' = net
           \/ \E b \in 0 .. SEQUENCE_SIZE - 1 :
                net' = net \cup {Ack(TftpOurPort, p.src, b)}
    PROVE  ServersOK' /\ PacketsOK' /\ Session'
  <1>0. /\ Types /\ ServersOK /\ PacketsOK /\ Session
        /\ TftpOurPort = attempt /\ attempt \in Nat
    BY DEF Protocol, Types
  <1>1. /\ p.src \in Servers /\ TftpOurPort # 0 /\ UNCHANGED attempt
        /\ srv[p.src].client = TftpOurPort
        /\ TftpState # "SEND_RRQ" => p.src = TftpRemotePort
    BY Received, Zenon
  <1>2. ServersOK'
    BY <1>0, <1>1, Zenon DEF ServersOK, ServerOK
  <1>3. \A q \in net' \ net :
          q.type = "ACK" /\ q.src = TftpOurPort /\ q.dst = p.src
    BY DEF Ack
  <1>4. PacketsOK'
    <2> SUFFICES ASSUME NEW q \in net' PROVE PacketOK(q)'
      BY Zenon DEF PacketsOK
    <2>1. CASE q \in net
      BY <1>0, <1>1, <2>1, Zenon DEF PacketsOK, PacketOK
    <2>2. CASE q \notin net
      BY <1>0, <1>1, <1>3, <2>2 DEF PacketOK
    <2> QED BY <2>1, <2>2, Zenon
  <1>5. \A q \in net' : q.type = "ACK" /\ q.src = TftpOurPort => q.dst = p.src
    BY <1>0, <1>1, <1>3, Zenon DEF Session
  <1>6. \A t \in Servers \ {p.src} :
          srv[t].client = TftpOurPort /\ srv[t].cur > 0 =>
              srv[t].cur = 1 /\ srv[t].blk = BLOCK_SIZE
    BY <1>0, <1>1, Constants, Zenon DEF Session
  <1> QED BY <1>1, <1>2, <1>4, <1>5, <1>6, Zenon DEF Session

\* An option acknowledgement.
LEMMA OackProtocol ==
    ASSUME Protocol, NEW p \in net, TftpOack(p), UNCHANGED srv
    PROVE  Protocol'
  <1>0. Types /\ Timers /\ Unheard
    BY Zenon DEF Protocol
  <1>1. p.type = "OACK" /\ Receive(p)
    BY Zenon DEF TftpOack
  <1>2. /\ PacketOK(p) /\ Listening /\ net_state = "CONTINUE"
        /\ pc = "rx" /\ pc' = "arp" /\ UNCHANGED <<ret, attempt>>
        /\ ether = TRUE /\ arpWait = FALSE /\ p.src \in Servers /\ TftpOurPort # 0
    BY <1>1, Received, Zenon
  <1>3. /\ TftpState' = "OACK" /\ TftpRemotePort' = p.src /\ TftpBlkSize' = p.blksize
        /\ p.blksize = BlkSizeOption /\ srv[p.src].blk = BlkSizeOption
        /\ UNCHANGED <<TftpBlock, TftpLastBlock, TftpBlockWrapOffset, TftpOurPort,
                       TftpTimeoutCount, timerVars, loopVars>>
    BY <1>1, <1>2, Zenon DEF TftpOack, PacketOK
  <1>4. /\ ether' = TRUE /\ net' = net \cup {Ack(TftpOurPort, p.src, TftpBlock)}
        /\ UNCHANGED <<arpWait, arpTry, arpLeft, txPacket>>
    BY <1>2, Zenon DEF TftpOack, TftpSend, NetSendUDPPacket
  <1>5. TftpBlock \in 0 .. SEQUENCE_SIZE - 1
    BY <1>0, Zenon DEF Types, TypeOK
  <1>6. ServersOK' /\ PacketsOK' /\ Session'
    BY <1>1, <1>3, <1>4, <1>5, ReceivedFrame, Zenon
  <1>7. Types'
    BY <1>0, <1>2, <1>3, <1>4, Zenon DEF Types, TypeOK, timerVars, loopVars
  <1>8. Timers' /\ Unheard'
    BY <1>0, <1>2, <1>3, <1>4, Zenon DEF Timers, Unheard, Listening, Deaf, timerVars,
                                  loopVars
  <1> QED BY <1>6, <1>7, <1>8, Zenon DEF Protocol

\* A first data packet that is not block 1, and the block stored last.
LEMMA DataIgnoredProtocol ==
    ASSUME Protocol, NEW p \in net, TftpDataNotFirst(p) \/ TftpDataDuplicate(p),
           UNCHANGED srv
    PROVE  Protocol'
  <1>0. Types /\ Timers /\ Unheard
    BY Zenon DEF Protocol
  <1>1. p.type = "DATA" /\ Receive(p)
    BY Zenon DEF TftpDataNotFirst, TftpDataDuplicate
  <1>2. /\ Listening /\ net_state = "CONTINUE"
        /\ pc = "rx" /\ pc' = "arp" /\ UNCHANGED <<ret, attempt>>
        /\ ether = TRUE /\ arpWait = FALSE /\ p.src \in Servers /\ TftpOurPort # 0
        /\ srv[p.src].blk = TftpBlkSize /\ p.block \in 0 .. SEQUENCE_SIZE - 1
        /\ TftpState # "SEND_RRQ" => p.src = TftpRemotePort
    BY <1>1, Received, Zenon
  <1>3. /\ TftpBlock' = p.block /\ TftpTimeoutCount' = WrappedCount(p.block)
        /\ UNCHANGED <<TftpBlkSize, TftpOurPort, imageVars, arpVars, net>>
        /\ TftpState' = "DATA" /\ TftpRemotePort' = p.src
    BY <1>0, <1>2, Zenon DEF TftpDataNotFirst, TftpDataDuplicate, FirstBlock, Types, TypeOK
  <1>4. ServersOK' /\ PacketsOK' /\ Session'
    BY <1>1, <1>2, <1>3, ReceivedFrame, Zenon
  <1>5. /\ TftpTimeoutCount' \in 0 .. TIMEOUT_COUNT + 1
        /\ TftpTimeoutCount' <= TIMEOUT_COUNT
        /\ TftpLastBlock' \in 0 .. SEQUENCE_SIZE - 1
    BY <1>0, <1>2, <1>3, Constants
       DEF Types, TypeOK, Timers, Listening, WrappedCount, new_transfer,
           TftpDataNotFirst, TftpDataDuplicate
  <1>6. UNCHANGED <<ether, arpWait, arpTry, arpLeft, txPacket>>
    BY <1>3, Zenon DEF arpVars
  <1>7. Unheard'
    BY <1>2, <1>6, Zenon DEF Unheard
  <1>8. CASE TftpDataNotFirst(p)
    <2>1. NetStartAgain("TftpTimeout")
      BY <1>2, <1>8, Zenon DEF TftpDataNotFirst, Listening
    <2>2. Types'
      BY <1>0, <1>2, <1>3, <1>5, <1>6, <2>1, StartAgain, Zenon DEF Types, TypeOK
    <2>3. Timers'
      BY <1>0, <1>2, <1>3, <1>5, <1>6, <2>1, StartAgain, Zenon DEF Timers, Listening, Deaf
    <2> QED BY <1>4, <1>7, <2>2, <2>3, Zenon DEF Protocol
  <1>9. CASE TftpDataDuplicate(p)
    <2>1. UNCHANGED <<timerVars, loopVars>>
      BY <1>9, Zenon DEF TftpDataDuplicate
    <2>2. Types'
      BY <1>0, <1>2, <1>3, <1>5, <1>6, <2>1, Zenon DEF Types, TypeOK, timerVars, loopVars
    <2>3. Timers'
      BY <1>0, <1>2, <1>3, <1>5, <1>6, <2>1, Zenon
         DEF Timers, Listening, Deaf, timerVars, loopVars
    <2> QED BY <1>4, <1>7, <2>2, <2>3, Zenon DEF Protocol
  <1> QED BY <1>8, <1>9, Zenon

\* A block is stored and acknowledged.
LEMMA DataStoreProtocol ==
    ASSUME Protocol, NEW p \in net, TftpDataStore(p), UNCHANGED srv
    PROVE  Protocol'
  <1>0. Types /\ Timers /\ Unheard
    BY Zenon DEF Protocol
  <1>1. p.type = "DATA" /\ Receive(p)
    BY Zenon DEF TftpDataStore
  <1>2. /\ Listening /\ net_state = "CONTINUE"
        /\ pc = "rx" /\ pc' = "arp" /\ UNCHANGED <<ret, attempt>>
        /\ ether = TRUE /\ arpWait = FALSE /\ p.src \in Servers /\ TftpOurPort # 0
        /\ srv[p.src].blk = TftpBlkSize /\ p.block \in 0 .. SEQUENCE_SIZE - 1
        /\ TftpState # "SEND_RRQ" => p.src = TftpRemotePort
    BY <1>1, Received, Zenon
  <1>3. /\ TftpBlock' = p.block /\ TftpTimeoutCount' = WrappedCount(p.block)
        /\ UNCHANGED <<TftpBlkSize, TftpOurPort, NetTryCount, udp_handler>>
        /\ TftpState' = "DATA" /\ TftpLastBlock' = p.block
        /\ TftpRemotePort' = p.src
        /\ timeHandler' = "TftpTimeout" /\ timeLeft' = TftpTicks
        /\ net_state' \in {net_state, "SUCCESS"}
    BY <1>0, <1>2, Zenon DEF TftpDataStore, FirstBlock, NetSetTimeout, Types, TypeOK
  <1>4. /\ ether' = TRUE /\ net' = net \cup {Ack(TftpOurPort, p.src, p.block)}
        /\ UNCHANGED <<arpWait, arpTry, arpLeft, txPacket>>
    BY <1>2, <1>3, Zenon DEF TftpDataStore, TftpSend, NetSendUDPPacket
  <1>5. ServersOK' /\ PacketsOK' /\ Session'
    BY <1>1, <1>2, <1>3, <1>4, ReceivedFrame, Zenon
  <1>6. /\ TftpTimeoutCount' \in 0 .. TIMEOUT_COUNT + 1
        /\ TftpTimeoutCount' <= TIMEOUT_COUNT
    BY <1>0, <1>2, <1>3, Constants DEF Types, TypeOK, Timers, Listening, WrappedCount
  <1>7. Types'
    BY <1>0, <1>2, <1>3, <1>4, <1>6, Constants, Zenon DEF Types, TypeOK
  <1>8. Timers' /\ Unheard'
    BY <1>0, <1>2, <1>3, <1>4, <1>6, Constants, Zenon DEF Timers, Unheard, Listening, Deaf
  <1> QED BY <1>5, <1>7, <1>8, Zenon DEF Protocol

\* The server refuses.
LEMMA ErrorProtocol ==
    ASSUME Protocol, NEW p \in net, TftpError(p), UNCHANGED srv
    PROVE  Protocol'
  <1>0. Types /\ Timers /\ Unheard
    BY Zenon DEF Protocol
  <1>1. p.type = "ERROR" /\ Receive(p)
    BY Zenon DEF TftpError
  <1>2. /\ Listening /\ net_state = "CONTINUE"
        /\ pc = "rx" /\ pc' = "arp" /\ UNCHANGED <<ret, attempt>>
        /\ ether = TRUE /\ arpWait = FALSE
    BY <1>1, Received, Zenon
  <1>3. UNCHANGED <<tftpVars, arpVars, net>>
    BY Zenon DEF TftpError
  <1>4. ServersOK' /\ PacketsOK' /\ Session'
    BY <1>2, <1>3, LoopFrame, Zenon
  <1>5. Unheard'
    BY <1>2, <1>3, Zenon DEF Unheard, arpVars
  <1>6. CASE net_state' = "FAIL" /\ UNCHANGED <<NetTryCount, udp_handler, timerVars>>
    BY <1>0, <1>2, <1>3, <1>4, <1>5, <1>6, Zenon
       DEF Protocol, Types, TypeOK, Timers, Listening, Deaf, timerVars, tftpVars,
           arpVars
  <1>7. CASE NetStartAgain(timeHandler)
    <2>1. NetStartAgain("TftpTimeout")
      BY <1>2, <1>7, Zenon DEF Listening
    <2>2. Types'
      BY <1>0, <1>2, <1>3, <2>1, StartAgain, Zenon DEF Types, TypeOK, tftpVars, arpVars
    <2>3. Timers'
      BY <1>0, <1>2, <1>3, <2>1, StartAgain, Zenon
         DEF Timers, Listening, Deaf, tftpVars, arpVars
    <2> QED BY <1>4, <1>5, <2>2, <2>3, Zenon DEF Protocol
  <1> QED BY <1>6, <1>7, Zenon DEF TftpError

-----------------------------------------------------------------------------
(* The server.                                                             *)

\* A file has at least one block, maybe an empty one.
LEMMA BlocksType ==
    ASSUME NEW blk \in BlkSizes
    PROVE  Blocks(blk) \in Nat /\ Blocks(blk) >= 1
  BY Constants DEF BlkSizes, Blocks

\* The steps of the server do not touch the client.
LEMMA ServerFrame ==
    ASSUME Types, Timers, UNCHANGED clientVars
    PROVE  Types' /\ Timers'
  BY DEF clientVars, tftpVars, imageVars, timerVars, loopVars, arpVars, ctrlVars,
         Types, TypeOK, Timers, Listening, Deaf

\* A request is answered on an unused port.
LEMMA ServerAcceptProtocol ==
    ASSUME Protocol, NEW t \in Servers, ServerAccept(t)
    PROVE  Protocol'
  <1>0. /\ Types /\ Timers /\ Unheard /\ ServersOK /\ PacketsOK /\ Session
        /\ TftpOurPort = attempt /\ attempt \in Nat
    BY DEF Protocol, Types
  <1>1. UNCHANGED clientVars /\ srv[t] = Unused
    BY Zenon DEF ServerAccept
  <1>2. UNCHANGED <<TftpState, TftpBlkSize, TftpBlock, TftpRemotePort, TftpOurPort,
                    attempt, ether, arpWait, txPacket>>
    BY <1>1, Zenon DEF clientVars, tftpVars, arpVars, ctrlVars
  <1>3. PICK q \in net :
          /\ q.type = "RRQ"
          /\ \/ /\ srv' = [srv EXCEPT ![t] = [client |-> q.src, cur |-> 0,
                                              blk |-> BlkSizeOption]]
                /\ net' = net \cup {Oack(t, q.src)}
             \/ /\ srv' = [srv EXCEPT ![t] = [client |-> q.src, cur |-> 1,
                                              blk |-> BLOCK_SIZE]]
                /\ net' = net \cup {Data(t, q.src, BLOCK_SIZE, 1)}
             \/ \E code \in Errors :
                  /\ srv' = [srv EXCEPT ![t].client = q.src]
                  /\ net' = net \cup {Error(t, q.src, code)}
    BY Zenon DEF ServerAccept
  <1>4. q.src \in 1 .. attempt /\ (~ether => q.src # TftpOurPort)
    BY <1>0, <1>3, Zenon DEF PacketsOK, PacketOK, Unheard
  <1>5. srv[t].client = 0 /\ srv[t].blk = 0 /\ srv[t].cur = 0
    BY <1>1 DEF Unused
  <1>6. /\ srv' \in [Servers -> [client : Nat, blk : Nat, cur : Nat]]
        /\ \A u \in Servers \ {t} : srv'[u] = srv[u]
        /\ srv'[t].client = q.src
        /\ \/ srv'[t].blk = BlkSizeOption /\ srv'[t].cur = 0
              /\ net' = net \cup {Oack(t, q.src)}
           \/ srv'[t].blk = BLOCK_SIZE /\ srv'[t].cur = 1
              /\ net' = net \cup {Data(t, q.src, BLOCK_SIZE, 1)}
           \/ srv'[t].blk = 0 /\ srv'[t].cur = 0
              /\ \E code \in Errors : net' = net \cup {Error(t, q.src, code)}
    BY <1>0, <1>3, <1>4, <1>5, Constants DEF ServersOK
  <1>7. ServersOK'
    <2>1. ServerOK(srv[t])'
      BY <1>2, <1>4, <1>6, BlocksType, Constants DEF ServerOK, BlkSizes
    <2>2. \A u \in Servers \ {t} : ServerOK(srv[u])'
      BY <1>0, <1>2, <1>6, Zenon DEF ServersOK, ServerOK
    <2> QED BY <1>6, <2>1, <2>2, Zenon DEF ServersOK
  <1>8. PacketsOK'
    <2> SUFFICES ASSUME NEW r \in net' PROVE PacketOK(r)'
      BY Zenon DEF PacketsOK
    <2>1. CASE r \in net
      <3>1. PacketOK(r)
        BY <1>0, <2>1, Zenon DEF PacketsOK
      <3>2. r.type \in {"OACK", "DATA", "ERROR"} => srv'[r.src] = srv[r.src]
        BY <1>5, <1>6, <3>1, Zenon DEF PacketOK
      <3> QED BY <1>2, <3>1, <3>2, Zenon DEF PacketOK
    <2>2. CASE r = Oack(t, q.src) /\ srv'[t].blk = BlkSizeOption
      BY <1>4, <1>6, <2>2, <1>0 DEF PacketOK, Oack
    <2>3. CASE r = Data(t, q.src, BLOCK_SIZE, 1) /\ srv'[t].blk = BLOCK_SIZE
               /\ srv'[t].cur = 1
      BY <1>4, <1>6, <2>3, <1>0, Constants DEF PacketOK, Data
    <2>4. CASE \E code \in Errors : r = Error(t, q.src, code)
      BY <1>4, <1>6, <2>4, <1>0 DEF PacketOK, Error
    <2> QED BY <1>6, <2>1, <2>2, <2>3, <2>4, Zenon
  <1>9. \A r \in net' \ net : r.type \notin {"RRQ", "ACK"}
    BY <1>6 DEF Oack, Data, Error
  <1>10. Unheard'
    BY <1>0, <1>2, <1>4, <1>6, <1>9, Zenon DEF Unheard
  <1>11. Session'
    BY <1>0, <1>2, <1>4, <1>5, <1>6, <1>9, SMTT(30) DEF Session
  <1> QED BY <1>0, <1>1, <1>7, <1>8, <1>10, <1>11, ServerFrame, Zenon DEF Protocol

\* An acknowledgement brings the next block.
LEMMA ServerAdvanceProtocol ==
    ASSUME Protocol, NEW t \in Servers, ServerAdvance(t)
    PROVE  Protocol'
  <1>0. /\ Types /\ Timers /\ Unheard /\ ServersOK /\ PacketsOK /\ Session
        /\ TftpOurPort = attempt /\ attempt \in Nat
    BY DEF Protocol, Types
  <1> DEFINE s == srv[t]
             n == s.cur + 1
             a == Ack(s.client, t, s.cur % SEQUENCE_SIZE)
  <1>1. /\ UNCHANGED clientVars /\ s.blk # 0 /\ s.cur < Blocks(s.blk) /\ a \in net
        /\ srv' = [srv EXCEPT ![t].cur = n]
        /\ net' = {p \in net : ~Expired(p, t, n)} \cup {Data(t, s.client, s.blk, n)}
    BY Zenon DEF ServerAdvance
  <1>2. UNCHANGED <<TftpState, TftpBlkSize, TftpBlock, TftpRemotePort, TftpOurPort,
                    attempt, ether, arpWait, txPacket>>
    BY <1>1, Zenon DEF clientVars, tftpVars, arpVars, ctrlVars
  <1>3. /\ s.cur \in Nat /\ s.client \in 1 .. attempt /\ s.blk \in BlkSizes
        /\ s.client \in Nat /\ s.blk \in Nat
    BY <1>0, <1>1 DEF ServersOK, ServerOK
  <1>4. /\ srv' \in [Servers -> [client : Nat, blk : Nat, cur : Nat]]
        /\ \A u \in Servers \ {t} : srv'[u] = srv[u]
        /\ srv'[t].client = s.client /\ srv'[t].blk = s.blk /\ srv'[t].cur = n
    BY <1>0, <1>1, <1>3 DEF ServersOK
  <1>5. s.client = TftpOurPort => t = TftpRemotePort
    <2>1. a.type = "ACK" /\ a.src = s.client /\ a.dst = t
      BY Zenon DEF Ack
    <2> QED BY <1>0, <1>1, <2>1, Zenon DEF Session
  <1>6. ServersOK'
    <2>1. ServerOK(srv[t])'
      BY <1>1, <1>2, <1>3, <1>4, BlocksType DEF ServerOK
    <2>2. \A u \in Servers \ {t} : ServerOK(srv[u])'
      BY <1>0, <1>2, <1>4, Zenon DEF ServersOK, ServerOK
    <2> QED BY <1>4, <2>1, <2>2 DEF ServersOK
  <1>7. PacketsOK'
    <2> SUFFICES ASSUME NEW r \in net' PROVE PacketOK(r)'
      BY Zenon DEF PacketsOK
    <2>1. CASE r \in net
      <3>1. PacketOK(r)
        BY <1>0, <2>1, Zenon DEF PacketsOK
      <3>2. r.type \in {"OACK", "DATA", "ERROR"} =>
              /\ srv'[r.src].client = srv[r.src].client
              /\ srv'[r.src].blk = srv[r.src].blk
              /\ srv'[r.src].cur = srv[r.src].cur \/ srv'[r.src].cur = srv[r.src].cur + 1
              /\ srv[r.src].cur \in Nat
        BY <1>0, <1>3, <1>4, <3>1, Zenon DEF PacketOK, ServersOK, ServerOK
      <3> QED BY <1>2, <3>1, <3>2, SMTT(30) DEF PacketOK
    <2>2. CASE r = Data(t, s.client, s.blk, n)
      BY <1>0, <1>1, <1>2, <1>3, <1>4, <2>2 DEF PacketOK, Data
    <2> QED BY <1>1, <2>1, <2>2, Zenon
  <1>8. \A r \in net' : r.type \in {"RRQ", "ACK"} => r \in net
    BY <1>1 DEF Data
  <1>9. Unheard'
    BY <1>0, <1>2, <1>4, <1>8, Zenon DEF Unheard
  <1>10. Session'
    BY <1>0, <1>2, <1>4, <1>5, <1>8, Zenon DEF Session
  <1> QED BY <1>0, <1>1, <1>6, <1>7, <1>9, <1>10, ServerFrame, Zenon DEF Protocol

-----------------------------------------------------------------------------
(* The protocol's invariant.                                               *)

\* Before the first `tftp' nothing has been sent.
LEMMA InitProtocol == Init => Protocol
  <1> SUFFICES ASSUME Init PROVE Protocol
    OBVIOUS
  <1>1. Types
    <2>1. TypeOK
      BY Constants DEF Init, TypeOK
    <2>2. ether \in BOOLEAN /\ arpWait \in BOOLEAN
      BY Zenon DEF Init
    <2>3. /\ attempt \in 0 .. MaxAttempts /\ TftpOurPort = attempt
          /\ NetTryCount \in Nat /\ timeLeft \in Nat /\ arpLeft \in Nat
          /\ ret = "none"
      BY Constants DEF Init
    <2> QED BY <2>1, <2>2, <2>3, Zenon DEF Types
  <1>2. Timers
    BY Constants, Zenon DEF Init, Timers, Listening, Deaf
  <1>3. Unheard
    BY Zenon DEF Init, Unheard, Unused
  <1>4. ServersOK /\ PacketsOK
    BY DEF Init, ServersOK, ServerOK, Unused, PacketsOK
  <1>5. Session
    BY DEF Init, Session, Unused
  <1> QED BY <1>1, <1>2, <1>3, <1>4, <1>5, Zenon DEF Protocol

\* Every step of the loop, the server and the network keeps it.
LEMMA NextProtocol == Protocol /\ [Next]_vars => Protocol'
  <1> SUFFICES ASSUME Protocol, [Next]_vars PROVE Protocol'
    OBVIOUS
  <1>1. CASE UNCHANGED vars
    <2>1. UNCHANGED <<clientVars, net, srv>>
      BY <1>1, Zenon DEF vars, clientVars, tftpVars, imageVars, timerVars, loopVars,
                  arpVars, ctrlVars
    <2>2. ServersOK' /\ PacketsOK' /\ Session'
      BY <2>1, LoopFrame, Zenon DEF clientVars, ctrlVars
    <2>3. Unheard'
      BY <1>1, Zenon DEF Protocol, Unheard, vars
    <2> QED BY <2>1, <2>2, <2>3, ServerFrame, Zenon DEF Protocol
  <1>2. CASE Client /\ UNCHANGED srv
    <2>1. ASSUME NEW p \in net, TftpHandler(p) PROVE Protocol'
      BY <1>2, <2>1, OackProtocol, DataIgnoredProtocol, DataStoreProtocol,
         ErrorProtocol, Zenon DEF TftpHandler
    <2> QED
      BY <1>2, <2>1, ControlProtocol, ArpReceiveProtocol, NetLoopStartProtocol,
         TimerCheckProtocol, Zenon DEF Client, LoopStep, Control
  <1>3. CASE \E t \in Servers : ServerAccept(t) \/ ServerAdvance(t)
    BY <1>3, ServerAcceptProtocol, ServerAdvanceProtocol, Zenon
  <1> QED BY <1>1, <1>2, <1>3, Zenon DEF Next

\* The invariant holds in every state.
LEMMA AlwaysProtocol == Spec => []Protocol
  BY InitProtocol, NextProtocol, PTL DEF Spec

(***************************************************************************)
(* The counters, ports, timers and handlers of the download keep their     *)
(* types; in particular the timeout count never passes the limit by more   *)
(* than one and a request is never counted past ARP_TIMEOUT_COUNT.         *)
(***************************************************************************)
THEOREM TypeCorrect == Spec => []TypeOK
  <1>1. Protocol => TypeOK
    BY Zenon DEF Protocol, Types
  <1> QED BY <1>1, AlwaysProtocol, PTL

-----------------------------------------------------------------------------
(* The outcome of a transfer.                                              *)

\* How many ticks until the ARP request is given up.
ArpPatience == arpLeft + ARP_TIMEOUT_COUNT - 1 - arpTry

\* The board's values: `ethrotate' is not "no", and the requests of one ARP
\* exchange last longer than TftpTimeout and the pause of startAgainTimeout
\* together (5 requests, a timeout of one tick and a pause of two).
ArpOutlasts == EthRotate /\ ARP_TIMEOUT_COUNT >= TftpTicks + 4

\* Then ARP is never the one that gives up: each timer that restarts it comes
\* first.
Patient ==
    /\ pc \in {"arp", "time"} /\ net_state = "FAIL" => Listening
    /\ (pc \in {"rx", "arp", "time"} \/ (pc = "switch" /\ net_state = "CONTINUE"))
         /\ arpWait =>
             /\ timeHandler = "TftpTimeout" => ArpPatience >= timeLeft + 3
             /\ timeHandler = "startAgainTimeout" => ArpPatience >= timeLeft + 1

\* The terms of ArpPatience are integers.
LEMMA PatienceTypes ==
    ASSUME Protocol
    PROVE  /\ arpLeft \in Nat /\ arpTry \in Nat /\ timeLeft \in Nat
           /\ ARP_TIMEOUT_COUNT \in Nat /\ ArpPatience \in Int
           /\ TftpTicks \in Nat /\ TftpTicks > 0
  BY Constants DEF Protocol, Types, TypeOK, ArpPatience

\* The ARP request is repeated, not given up.
LEMMA ArpNotGivenUp ==
    ASSUME Protocol, Patient, ArpTimeoutCheck
    PROVE  /\ UNCHANGED <<loopVars, timerVars, arpWait>> /\ ArpPatience' = ArpPatience
           /\ pc = "arp" /\ pc' = "time"
  <1>0. Timers /\ Types
    BY Zenon DEF Protocol
  <1>1. pc = "arp" /\ pc' = "time" /\ UNCHANGED arpWait
    BY Zenon DEF ArpTimeoutCheck
  <1>2. CASE ~ArpDue
    BY <1>1, <1>2, Zenon DEF ArpTimeoutCheck, ArpPatience
  <1>3. CASE ArpDue
    <2>1. arpWait /\ arpLeft = 0
      BY <1>3, Zenon DEF ArpDue
    <2>2. timeHandler \in {"TftpTimeout", "startAgainTimeout"}
      BY <1>0, <1>1, Zenon DEF Timers, Listening, Deaf
    <2>3. ArpPatience >= timeLeft + 1
      BY <1>1, <2>1, <2>2, PatienceTypes DEF Patient
    <2>4. arpTry + 1 < ARP_TIMEOUT_COUNT
      BY <2>1, <2>3, PatienceTypes DEF ArpPatience
    <2>5. /\ arpTry' = arpTry + 1 /\ arpLeft' = 1
          /\ UNCHANGED <<loopVars, timerVars>>
      BY <1>3, <2>4, PatienceTypes DEF ArpTimeoutCheck
    <2> QED BY <1>1, <2>1, <2>5, PatienceTypes DEF ArpPatience
  <1> QED BY <1>2, <1>3, Zenon

\* A timer leaves ARP enough time.
LEMMA TimerCheckPatient ==
    ASSUME ArpOutlasts, Protocol, Patient, TimerCheck
    PROVE  Patient' /\ (net_state \in {"SUCCESS", "FAIL"} => net_state' = net_state)
  <1>0. Types /\ Timers /\ Unheard
    BY Zenon DEF Protocol
  <1>1. pc = "time" /\ pc' = "switch"
    BY Zenon DEF TimerCheck
  <1>2. CASE UNCHANGED <<loopVars, timerVars, RunVars>>
    BY <1>1, <1>2, Zenon
       DEF Patient, ArpPatience, Listening, loopVars, timerVars, RunVars, arpVars
  <1>3. CASE TimerDue /\ timeHandler = "TftpTimeout" /\ TftpTimeout
    <2>1. timeLeft = 0 /\ net_state # "SUCCESS"
      BY <1>0, <1>1, <1>3 DEF TimerDue, Timers
    <2>2. CASE NetStartAgain("none") /\ UNCHANGED <<arpVars, net>>
      <3>1. \/ net_state' \in {"FAIL", "RESTART"}
            \/ Deaf' /\ UNCHANGED net_state /\ timeLeft' = 2
        BY <1>0, <2>2, StartAgain, Zenon
      <3>2. net_state' \in {net_state, "FAIL"}
        BY <1>0, <2>2, StartAgain, Zenon DEF ArpOutlasts
      <3>3. UNCHANGED <<arpWait, arpLeft, arpTry>>
        BY <2>2, Zenon DEF arpVars
      <3>4. arpWait => ArpPatience >= 3
        BY <1>1, <1>3, <2>1, PatienceTypes DEF Patient
      <3>5. arpWait' => ArpPatience' >= 3
        BY <3>3, <3>4, Zenon DEF ArpPatience
      <3>6. Patient'
        BY <1>1, <3>1, <3>5 DEF Patient, Deaf
      <3> QED BY <2>1, <3>2, <3>6, Zenon
    <2>3. CASE /\ NetSetTimeout(TftpTicks, "TftpTimeout")
               /\ TftpSend(TftpState, TftpRemotePort, TftpBlock)
               /\ UNCHANGED loopVars
      <3>1. timeHandler' = "TftpTimeout" /\ timeLeft' = TftpTicks /\ UNCHANGED net_state
        BY <2>3, Zenon DEF NetSetTimeout, loopVars
      <3>2. arpWait' => arpTry' = 1 /\ arpLeft' = 1
        BY <1>0, <2>3, Zenon DEF TftpSend, NetSendUDPPacket, Unheard
      <3>3. arpWait' => ArpPatience' >= timeLeft' + 3
        BY <3>1, <3>2, PatienceTypes DEF ArpPatience, ArpOutlasts
      <3> QED BY <1>1, <3>1, <3>3, Zenon DEF Patient
    <2> QED BY <1>3, <2>2, <2>3, Zenon DEF TftpTimeout
  <1>4. CASE TimerDue /\ timeHandler = "startAgainTimeout" /\ startAgainTimeout
    BY <1>0, <1>1, <1>4, Zenon DEF Patient, Timers, Listening, startAgainTimeout
  <1> QED BY <1>2, <1>3, <1>4, Zenon DEF TimerCheck

\* One step: ARP stays patient, and an outcome stays.
LEMMA NextPatient ==
    ASSUME ArpOutlasts
    PROVE  Protocol /\ Patient /\ [Next]_vars =>
             /\ Patient'
             /\ pc \in {"arp", "time"} /\ net_state \in {"SUCCESS", "FAIL"} =>
                  net_state' = net_state
  <1> SUFFICES ASSUME Protocol, Patient, [Next]_vars
               PROVE  /\ Patient'
                      /\ pc \in {"arp", "time"} /\ net_state \in {"SUCCESS", "FAIL"} =>
                           net_state' = net_state
    OBVIOUS
  <1>0. Types /\ Timers /\ Unheard
    BY Zenon DEF Protocol
  <1>1. CASE UNCHANGED vars \/ \E t \in Servers : ServerAccept(t) \/ ServerAdvance(t)
    <2>1. UNCHANGED <<pc, net_state, udp_handler, timeHandler, timeLeft, arpWait,
                      arpTry, arpLeft>>
      BY <1>1, Zenon DEF vars, ServerAccept, ServerAdvance, clientVars, timerVars, loopVars,
                  arpVars, ctrlVars
    <2> QED BY <2>1, Zenon DEF Patient, ArpPatience, Listening
  <1>2. CASE NetLoopEnter \/ NetLoopNoPrereq \/ CtrlC
    BY <1>2, Zenon DEF NetLoopEnter, NetLoopNoPrereq, CtrlC, Return, Patient
  <1>3. CASE NetLoopStart
    <2>1. /\ net_state' = "CONTINUE" /\ pc = "start" /\ pc' = "rx"
          /\ arpTry' = 1 /\ arpLeft' = 1
          /\ timeHandler' = "TftpTimeout" /\ timeLeft' = TftpTicks
      BY <1>3, Zenon DEF NetLoopStart, TftpStart, NetSetTimeout, NetSendUDPPacket
    <2>2. ArpPatience' >= timeLeft' + 3
      BY <2>1, PatienceTypes DEF ArpPatience, ArpOutlasts
    <2> QED BY <2>1, <2>2, Zenon DEF Patient
  <1>4. CASE ArpReceive
    BY <1>0, <1>4, Zenon DEF ArpReceive, Patient, Timers, loopVars
  <1>5. CASE RxNothing
    BY <1>0, <1>5, Zenon DEF RxNothing, Patient, ArpPatience, Timers, Listening, loopVars,
                      timerVars, RunVars, arpVars
  <1>6. CASE ArpTimeoutCheck
    BY <1>6, ArpNotGivenUp DEF Patient, Listening, loopVars, timerVars
  <1>7. CASE TimerCheck
    BY <1>7, TimerCheckPatient, Zenon
  <1>8. CASE Switch
    <2>1. pc = "switch" /\ UNCHANGED <<net_state, arpWait, ArpPatience>>
      BY <1>8, Zenon DEF Switch, Return, loopVars, RunVars, arpVars, ArpPatience
    <2>2. CASE net_state = "CONTINUE" /\ pc' = "rx" /\ UNCHANGED <<loopVars, timerVars>>
      BY <2>1, <2>2, Zenon DEF Patient, timerVars
    <2>3. CASE pc' \in {"start", "idle"}
      BY <2>1, <2>3, Zenon DEF Patient
    <2> QED BY <1>8, <2>1, <2>2, <2>3, Zenon DEF Switch, Return
  <1>9. CASE Tick
    <2>1. /\ pc = "rx" /\ pc' = "rx" /\ UNCHANGED <<net_state, arpWait, arpTry, timeHandler>>
          /\ net_state = "CONTINUE"
      BY <1>0, <1>9, Zenon DEF Tick, loopVars, Timers
    <2>2. timeHandler # "none"
      BY <1>0, <2>1, Zenon DEF Timers, Listening, Deaf
    <2>3. timeLeft' = timeLeft - 1 /\ (arpWait => arpLeft' = arpLeft - 1)
      BY <1>9, <2>2, Zenon DEF Tick
    <2>4. arpWait => ArpPatience' = ArpPatience - 1
      BY <2>1, <2>3, PatienceTypes DEF ArpPatience
    <2> QED BY <2>1, <2>3, <2>4, PatienceTypes DEF Patient
  <1>10. ASSUME NEW p \in net, TftpHandler(p)
         PROVE  /\ Patient' /\ pc = "rx"
    <2>1. p.type \in {"OACK", "DATA", "ERROR"} /\ Receive(p)
      BY <1>10, Zenon DEF TftpHandler, TftpOack, TftpDataNotFirst, TftpDataDuplicate,
                   TftpDataStore, TftpError
    <2>2. /\ Listening /\ net_state = "CONTINUE" /\ pc = "rx" /\ pc' = "arp"
          /\ ether = TRUE /\ arpWait = FALSE
      BY <2>1, Received, Zenon
    <2>3. arpWait' = FALSE
      BY <1>10, <2>2, Zenon
         DEF TftpHandler, TftpOack, TftpDataNotFirst, TftpDataDuplicate,
                         TftpDataStore, TftpError, TftpSend, NetSendUDPPacket, arpVars
    <2>4. net_state' = "FAIL" => Listening'
      BY <2>2, <1>10, Zenon
        DEF TftpHandler, TftpOack, TftpDataNotFirst, TftpDataDuplicate, TftpDataStore,
             TftpError, NetStartAgain, NetSetTimeout, Listening, loopVars, timerVars
    <2> QED BY <2>2, <2>3, <2>4, Zenon DEF Patient
  <1> QED
    BY <1>1, <1>2, <1>3, <1>4, <1>5, <1>6, <1>7, <1>8, <1>9, <1>10, Zenon
       DEF Next, Client, LoopStep

(***************************************************************************)
(* Once a handler has decided that a transfer succeeded or failed, no      *)
(* timer due in the same pass of NetLoop replaces the outcome, with the    *)
(* timeouts the board is built with.  Neither hypothesis can be dropped: a *)
(* `tftptimeout' of two ticks, or `ethrotate' set to "no", lets a late     *)
(* timer turn a failure into a restart.                                    *)
(***************************************************************************)
THEOREM OutcomeStays ==
    ASSUME ArpOutlasts
    PROVE  Spec => OutcomeFinal
  <1>1. Init => Patient
    BY Zenon DEF Init, Patient
  <1>2. Protocol /\ Patient /\ [Next]_vars =>
          Patient' /\ [(pc \in {"arp", "time"} /\ net_state \in {"SUCCESS", "FAIL"})
                         => (net_state' = net_state)]_vars
    BY NextPatient, Zenon
  <1> QED BY <1>1, <1>2, InitProtocol, NextProtocol, PTL DEF Spec, OutcomeFinal
=============================================================================
