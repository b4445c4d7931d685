----------------------------- MODULE TftpClient -----------------------------
(***************************************************************************)
(* The TFTP download of the boot loader: the handlers of net/tftp.c, the   *)
(* loop of net/net.c that drives them and the ARP exchange of net/arp.c    *)
(* every first packet waits for.  The board is built with CONFIG_CMD_NET   *)
(* and none of TFTPPUT, TFTPSRV, MCAST_TFTP, TFTP_TSIZE, and has a single  *)
(* ethernet device.                                                        *)
(*                                                                         *)
(* The state is the file-scope variables of the three C files.  Bytes of   *)
(* the file are named by their offset in it; `mem' is what this attempt    *)
(* has written from load_addr on.  TftpBlockWrap is only ever counted up   *)
(* and is left out.                                                        *)
(***************************************************************************)
EXTENDS Integers, FiniteSets

CONSTANTS
    SEQUENCE_SIZE,      \* TFTP_SEQUENCE_SIZE, 2^16 in the code
    BLOCK_SIZE,         \* TFTP_BLOCK_SIZE, the default block size
    TIMEOUT_COUNT,      \* timeouts before a transfer starts again
    ARP_TIMEOUT_COUNT,  \* ARP requests before it starts again
    RetryForever,       \* TRUE when `netretry' is unset or "yes"
    RetryCnt,           \* the number in `netretry' otherwise
    EthRotate,          \* FALSE when `ethrotate' is "no"
    TftpTicks,          \* TftpTimeoutMSecs in ticks of ARP_TIMEOUT (5 s)
    MaxAttempts         \* bound: transfers started, each on a port of its own

ASSUME SequenceAssumption == SEQUENCE_SIZE \in Nat \ {0, 1}
ASSUME BlockAssumption    == BLOCK_SIZE \in Nat \ {0}
ASSUME CountAssumption    == /\ TIMEOUT_COUNT \in Nat
                             /\ ARP_TIMEOUT_COUNT \in Nat \ {0}
                             /\ RetryCnt \in Nat
                             /\ {RetryForever, EthRotate} \subseteq BOOLEAN
                             /\ TftpTicks \in Nat \ {0}
                             /\ MaxAttempts \in Nat

VARIABLES
    TftpState,          \* "SEND_RRQ", "OACK" or "DATA"
    TftpBlock,          \* number of the block received last, or to acknowledge
    TftpLastBlock,      \* number of the block stored last
    TftpBlockWrapOffset,
    TftpBlkSize,
    TftpRemotePort,     \* 0 stands for WELL_KNOWN_PORT
    TftpOurPort,
    TftpTimeoutCount,
    mem, NetBootFileXferSize,
    net_state, NetTryCount,
    timeHandler,        \* "none", "TftpTimeout" or "startAgainTimeout"
    timeLeft,           \* ticks until timeHandler is due
    udp_handler,        \* "dummy" or "TftpHandler"
    ether,              \* NetServerEther is known
    arpWait, arpTry,    \* NetArpWaitPacketIP # 0, NetArpWaitTry
    arpLeft,            \* ticks until the ARP request has timed out
    txPacket,           \* NetTxPacket: the packet parked behind the ARP request
    pc,                 \* where NetLoop is
    ret,                \* what it returned last: "none", "ok" or "fail"
    attempt,            \* transfers started so far
    net                 \* packets sent by either side and not yet expired

tftpVars  == <<TftpState, TftpBlock, TftpLastBlock, TftpBlockWrapOffset,
               TftpBlkSize, TftpRemotePort, TftpOurPort, TftpTimeoutCount>>
imageVars == <<mem, NetBootFileXferSize>>
timerVars == <<timeHandler, timeLeft>>
loopVars  == <<net_state, NetTryCount, udp_handler>>
arpVars   == <<ether, arpWait, arpTry, arpLeft, txPacket>>
ctrlVars  == <<pc, ret, attempt>>

NoPacket == [type |-> "none"]

-----------------------------------------------------------------------------
(* net.c                                                                   *)

\* Mutant: arming the timer that is armed already leaves its deadline alone.
NetSetTimeoutKeep(ticks, handler) ==
    /\ timeHandler' = handler
    /\ timeLeft' = IF handler = timeHandler THEN timeLeft ELSE ticks

NetSetTimeout(ticks, handler) == timeHandler' = handler /\ timeLeft' = ticks

\* net_clear_handlers(), reached through net_cleanup_loop().
net_cleanup_loop == udp_handler' = "dummy" /\ NetSetTimeout(0, "none")

\* Ten seconds before a new attempt on the device that failed.
StartAgainTicks == 2

\* With one device eth_try_another() wraps to the device that failed, unless
\* the user forbade it to rotate.  `pending' is the timer armed at the call.
NetStartAgain(pending) ==
    IF ~RetryForever /\ NetTryCount >= RetryCnt
    THEN /\ net_state' = "FAIL"
         /\ timeHandler' = pending
         /\ UNCHANGED <<NetTryCount, udp_handler, timeLeft>>
    ELSE /\ NetTryCount' = NetTryCount + 1
         /\ IF EthRotate
            THEN /\ NetSetTimeout(StartAgainTicks, "startAgainTimeout")
                 /\ udp_handler' = "dummy"
                 /\ UNCHANGED net_state
            ELSE /\ net_state' = "RESTART"
                 /\ timeHandler' = pending
                 /\ UNCHANGED <<udp_handler, timeLeft>>

\* Without the server's ethernet address the packet waits and ARP starts over.
NetSendUDPPacket(packet, known) ==
    /\ ether' = known
    /\ IF known
       THEN net' = net \cup {packet} /\ UNCHANGED <<arpWait, arpTry, arpLeft, txPacket>>
       ELSE /\ arpWait' = TRUE /\ arpTry' = 1 /\ arpLeft' = 1
            /\ txPacket' = packet
            /\ UNCHANGED net

-----------------------------------------------------------------------------
(* tftp.c                                                                  *)

\* The packet TftpSend() builds in a given state.
Request(port)             == [type |-> "RRQ", src |-> port]
Ack(port, remote, block)  == [type |-> "ACK", src |-> port, dst |-> remote,
                              block |-> block]

TftpSend(state, remote, block) ==
    NetSendUDPPacket(IF state = "SEND_RRQ"
                     THEN Request(TftpOurPort)
                     ELSE Ack(TftpOurPort, remote, block),
                     ether)

new_transfer == TftpLastBlock' = 0 /\ TftpBlockWrapOffset' = 0

\* Mutant: the wrap of the block number is not noticed.
WrappedOffsetNever(block) == TftpBlockWrapOffset

\* Offset and timeout count after update_block_number() for this block.
WrappedOffset(block) == IF block = 0
                        THEN TftpBlockWrapOffset + TftpBlkSize * SEQUENCE_SIZE
                        ELSE TftpBlockWrapOffset
WrappedCount(block)  == IF block = 0 THEN 0 ELSE TftpTimeoutCount

\* Mutants: blocks are placed by the default block size; the last byte of a
\* block is not copied; the size is computed without the blocks before a wrap.
StoreDefaultSize(block, wrapOffset, payload) ==
    LET offset == block * BLOCK_SIZE + wrapOffset
        range  == offset .. offset + payload.len - 1
    IN  /\ mem' = [o \in DOMAIN mem \cup range |->
                       IF o \in range THEN payload.from + (o - offset) ELSE mem[o]]
        /\ NetBootFileXferSize' = offset + payload.len
StoreButLast(block, wrapOffset, payload) ==
    LET offset == block * TftpBlkSize + wrapOffset
        range  == offset .. offset + payload.len - 2
    IN  /\ mem' = [o \in DOMAIN mem \cup range |->
                       IF o \in range THEN payload.from + (o - offset) ELSE mem[o]]
        /\ NetBootFileXferSize' = offset + payload.len
StoreSizeNoWrap(block, wrapOffset, payload) ==
    LET offset == block * TftpBlkSize + wrapOffset
        range  == offset .. offset + payload.len - 1
    IN  /\ mem' = [o \in DOMAIN mem \cup range |->
                       IF o \in range THEN payload.from + (o - offset) ELSE mem[o]]
        /\ NetBootFileXferSize' = block * TftpBlkSize + payload.len

\* `block' is TftpBlock - 1, so -1 for the block numbered 0.
store_block(block, wrapOffset, payload) ==
    LET offset  == block * TftpBlkSize + wrapOffset
        range   == offset .. offset + payload.len - 1
        newsize == offset + payload.len
    IN  /\ mem' = [o \in DOMAIN mem \cup range |->
                       IF o \in range THEN payload.from + (o - offset) ELSE mem[o]]
        /\ NetBootFileXferSize' = IF NetBootFileXferSize < newsize
                                  THEN newsize ELSE NetBootFileXferSize

\* Mutant: packets of any server port are taken.
AcceptedAnyPort(p) == udp_handler = "TftpHandler" /\ p.dst = TftpOurPort

\* A packet TftpHandler() does not drop at its first two tests.
Accepted(p) == /\ udp_handler = "TftpHandler"
               /\ p.dst = TftpOurPort
               /\ TftpState = "SEND_RRQ" \/ p.src = TftpRemotePort

\* Every handler runs inside eth_rx(), one packet to a pass of the loop.
Receive(p) == pc = "rx" /\ Accepted(p) /\ pc' = "arp" /\ UNCHANGED <<ret, attempt>>

FirstBlock == TftpState \in {"SEND_RRQ", "OACK"}

\* An OACK is taken in any state: the transfer goes back to "OACK".
TftpOack(p) ==
    /\ p.type = "OACK" /\ Receive(p)
    /\ TftpState' = "OACK"
    /\ TftpRemotePort' = p.src
    /\ TftpBlkSize' = p.blksize
    /\ TftpSend("OACK", p.src, TftpBlock)
    /\ UNCHANGED <<TftpBlock, TftpLastBlock, TftpBlockWrapOffset, TftpOurPort,
                   TftpTimeoutCount, imageVars, timerVars, loopVars>>

\* The first data packet is not block 1.
TftpDataNotFirst(p) ==
    /\ p.type = "DATA" /\ Receive(p)
    /\ FirstBlock /\ p.block # 1
    /\ TftpBlock' = p.block
    /\ TftpTimeoutCount' = WrappedCount(p.block)
    /\ TftpState' = "DATA"
    /\ TftpRemotePort' = p.src
    /\ new_transfer
    /\ NetStartAgain(timeHandler)
    /\ UNCHANGED <<TftpBlkSize, TftpOurPort, imageVars, arpVars, net>>

\* The block stored last, again: ignored once update_block_number() has run.
TftpDataDuplicate(p) ==
    /\ p.type = "DATA" /\ Receive(p)
    /\ ~FirstBlock /\ p.block = TftpLastBlock
    /\ TftpBlock' = p.block
    /\ TftpTimeoutCount' = WrappedCount(p.block)
    /\ TftpBlockWrapOffset' = WrappedOffset(p.block)
    /\ UNCHANGED <<TftpState, TftpLastBlock, TftpBlkSize, TftpRemotePort,
                   TftpOurPort, imageVars, timerVars, loopVars, arpVars, net>>

LastBlock(p) == p.len < TftpBlkSize

\* Any other block is stored and acknowledged; a short one is the last.
TftpDataStore(p) ==
    /\ p.type = "DATA" /\ Receive(p)
    /\ IF FirstBlock THEN p.block = 1 ELSE p.block # TftpLastBlock
    /\ TftpBlock' = p.block
    /\ TftpTimeoutCount' = WrappedCount(p.block)
    /\ TftpState' = "DATA"
    /\ TftpRemotePort' = IF FirstBlock THEN p.src ELSE TftpRemotePort
    /\ TftpBlockWrapOffset' = IF FirstBlock THEN 0 ELSE WrappedOffset(p.block)
    /\ TftpLastBlock' = p.block
    /\ NetSetTimeout(TftpTicks, "TftpTimeout")
    /\ store_block(p.block - 1, TftpBlockWrapOffset', p)
    /\ TftpSend("DATA", TftpRemotePort', p.block)
    /\ net_state' = IF LastBlock(p) THEN "SUCCESS" ELSE net_state
    /\ UNCHANGED <<TftpBlkSize, TftpOurPort, NetTryCount, udp_handler>>

TftpError(p) ==
    /\ p.type = "ERROR" /\ Receive(p)
    /\ IF p.code \in {"FILE_NOT_FOUND", "ACCESS_DENIED"}
       THEN net_state' = "FAIL" /\ UNCHANGED <<NetTryCount, udp_handler, timerVars>>
       ELSE NetStartAgain(timeHandler)
    /\ UNCHANGED <<tftpVars, imageVars, arpVars, net>>

\* Mutant: one timeout too many.
TooManyLate(count) == count > TIMEOUT_COUNT + 1

TooMany(count) == count > TIMEOUT_COUNT

\* What TftpTimeout() does once the loop has disarmed it.
TftpTimeout ==
    /\ TftpTimeoutCount' = TftpTimeoutCount + 1
    /\ IF TooMany(TftpTimeoutCount')
       THEN NetStartAgain("none") /\ UNCHANGED <<arpVars, net>>
       ELSE /\ NetSetTimeout(TftpTicks, "TftpTimeout")
            /\ TftpSend(TftpState, TftpRemotePort, TftpBlock)
            /\ UNCHANGED loopVars
    /\ UNCHANGED <<TftpState, TftpBlock, TftpLastBlock, TftpBlockWrapOffset,
                   TftpBlkSize, TftpRemotePort, TftpOurPort>>

\* The port is get_timer(0) % 3072 in the code: taken to be new every time.
TftpStart ==
    /\ TftpState' = "SEND_RRQ"
    /\ NetSetTimeout(TftpTicks, "TftpTimeout")
    /\ udp_handler' = "TftpHandler"
    /\ TftpRemotePort' = 0
    /\ TftpTimeoutCount' = 0
    /\ attempt' = attempt + 1
    /\ TftpOurPort' = attempt + 1
    /\ TftpBlock' = 0
    /\ TftpBlkSize' = BLOCK_SIZE
    /\ NetSendUDPPacket(Request(attempt + 1), FALSE)
    /\ UNCHANGED <<TftpLastBlock, TftpBlockWrapOffset>>

-----------------------------------------------------------------------------
(* arp.c                                                                   *)

\* The reply to the request: the parked packet goes out.
ArpReceive ==
    /\ pc = "rx" /\ arpWait
    /\ ether' = TRUE
    /\ net' = net \cup {txPacket}
    /\ arpWait' = FALSE
    /\ pc' = "arp"
    /\ UNCHANGED <<arpTry, arpLeft, txPacket, ret, attempt, tftpVars, imageVars,
                   timerVars, loopVars>>

ArpDue == arpWait /\ arpLeft = 0

\* Giving up does not restart the request's own timer.
ArpTimeoutCheck ==
    /\ pc = "arp" /\ pc' = "time"
    /\ IF ~ArpDue
       THEN UNCHANGED <<arpTry, arpLeft, loopVars, timerVars>>
       ELSE IF arpTry + 1 >= ARP_TIMEOUT_COUNT
            THEN arpTry' = 0 /\ NetStartAgain(timeHandler) /\ UNCHANGED arpLeft
            ELSE /\ arpTry' = arpTry + 1 /\ arpLeft' = 1
                 /\ UNCHANGED <<loopVars, timerVars>>
    /\ UNCHANGED <<ether, arpWait, txPacket, tftpVars, imageVars, ret, attempt, net>>

-----------------------------------------------------------------------------
(* NetLoop                                                                 *)

RunVars == <<tftpVars, imageVars, arpVars, net>>

\* Transfers one call of NetLoop may start.
Tries == IF RetryForever \/ RetryCnt = 0 THEN 1 ELSE RetryCnt

\* `tftp' typed at the prompt; eth_init() may fail.
NetLoopEnter ==
    /\ pc = "idle" /\ attempt + Tries <= MaxAttempts
    /\ NetTryCount' = 1
    /\ \/ pc' = "start" /\ ret' = "none"
       \/ pc' = "idle" /\ ret' = "fail"
    /\ UNCHANGED <<attempt, net_state, udp_handler, timerVars, RunVars>>

\* net_check_prereq(): the environment has no usable address.
NetLoopNoPrereq ==
    /\ pc = "start" /\ NetTryCount = 1
    /\ net_state' = "CONTINUE"
    /\ pc' = "idle" /\ ret' = "fail"
    /\ UNCHANGED <<attempt, NetTryCount, udp_handler, timerVars, RunVars>>

NetLoopStart ==
    /\ pc = "start" /\ attempt < MaxAttempts
    /\ net_state' = "CONTINUE"
    /\ NetBootFileXferSize' = 0
    /\ mem' = [o \in {} |-> 0]
    /\ TftpStart
    /\ pc' = "rx"
    /\ UNCHANGED <<NetTryCount, ret>>

RxNothing == pc = "rx" /\ pc' = "arp" /\ UNCHANGED <<ret, attempt, loopVars, timerVars, RunVars>>

\* Leaving the loop.
Return(value) == /\ pc' = "idle" /\ ret' = value
                 /\ net_cleanup_loop
                 /\ UNCHANGED <<attempt, net_state, NetTryCount, tftpVars, imageVars, net>>

CtrlC == /\ pc = "arp"
         /\ arpWait' = FALSE
         /\ Return("fail")
         /\ UNCHANGED <<ether, arpTry, arpLeft, txPacket>>

\* Mutant: the loop is told to go on instead of to restart.
startAgainTimeoutContinue == net_state' = "CONTINUE"

startAgainTimeout == net_state' = "RESTART"

TimerDue == timeHandler # "none" /\ timeLeft = 0

TimerCheck ==
    /\ pc = "time" /\ pc' = "switch"
    /\ \/ /\ ~TimerDue
          /\ UNCHANGED <<loopVars, timerVars, RunVars>>
       \/ /\ TimerDue /\ timeHandler = "TftpTimeout"
          /\ TftpTimeout
          /\ UNCHANGED imageVars
       \/ /\ TimerDue /\ timeHandler = "startAgainTimeout"
          /\ startAgainTimeout
          /\ timeHandler' = "none"
          /\ UNCHANGED <<timeLeft, NetTryCount, udp_handler, RunVars>>
    /\ UNCHANGED <<ret, attempt>>

Switch ==
    /\ pc = "switch"
    /\ \/ /\ net_state = "CONTINUE" /\ pc' = "rx"
          /\ UNCHANGED <<ret, attempt, loopVars, timerVars, RunVars>>
       \/ /\ net_state = "RESTART" /\ pc' = "start"
          /\ UNCHANGED <<ret, attempt, loopVars, timerVars, RunVars>>
       \/ net_state = "SUCCESS" /\ Return("ok") /\ UNCHANGED arpVars
       \/ net_state = "FAIL" /\ Return("fail") /\ UNCHANGED arpVars

\* Five seconds pass.  The loop polls far more often than that, so no timer
\* stays due from one tick to the next.
Tick ==
    /\ pc = "rx" /\ ~ArpDue /\ ~TimerDue
    /\ timeLeft' = IF timeHandler = "none" THEN timeLeft ELSE timeLeft - 1
    /\ arpLeft'  = IF arpWait THEN arpLeft - 1 ELSE arpLeft
    /\ UNCHANGED <<pc, ret, attempt, loopVars, timeHandler, tftpVars, imageVars,
                   ether, arpWait, arpTry, txPacket, net>>
=============================================================================
