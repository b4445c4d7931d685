---------------------------- MODULE TftpTransfer ----------------------------
(***************************************************************************)
(* The TFTP client of the boot loader, a lock-step TFTP server and the     *)
(* network between them.                                                   *)
(*                                                                         *)
(* The server is not part of the repository.  It answers every read        *)
(* request it receives, a repeated one included, with a transfer of its    *)
(* own on a port of its own, and sends block n + 1 when it receives the    *)
(* acknowledgement of block n.                                             *)
(*                                                                         *)
(* A packet stays in `net' once sent: it may be received late, out of      *)
(* order, several times or never, until it has expired.  An OACK or a data *)
(* packet expires when the server is Lifetime blocks ahead of it.  An      *)
(* acknowledgement expires when the server has sent its next block, which  *)
(* only loses packets the server would ignore while block numbers are not  *)
(* reused.                                                                 *)
(***************************************************************************)
EXTENDS TftpClient

CONSTANTS
    FileLen,      \* bytes in the file
    BlkSizeOption,\* TftpBlkSizeOption, what the server grants in an OACK
    Servers,      \* bound: the server's ports, one for each transfer
    Lifetime,     \* how many blocks a data packet outlives
    Duplicates,   \* whether a data packet may arrive more than once
    Errors        \* error codes the server may answer a request with

ASSUME FileAssumption   == FileLen \in Nat /\ BlkSizeOption \in Nat \ {0}
ASSUME ServerAssumption == Servers \subseteq Nat \ {0} /\ IsFiniteSet(Servers)
ASSUME LifeAssumption   == Lifetime \in Nat \ {0} /\ Duplicates \in BOOLEAN

VARIABLE srv      \* srv[t]: the transfer on server port t

vars == <<TftpState, TftpBlock, TftpLastBlock, TftpBlockWrapOffset,
          TftpBlkSize, TftpRemotePort, TftpOurPort, TftpTimeoutCount,
          mem, NetBootFileXferSize, net_state, NetTryCount, timeHandler,
          timeLeft, udp_handler, ether, arpWait, arpTry, arpLeft, txPacket,
          pc, ret, attempt, net, srv>>
clientVars == <<tftpVars, imageVars, timerVars, loopVars, arpVars, ctrlVars>>

Unused == [client |-> 0, blk |-> 0, cur |-> 0]

Smaller(a, b) == IF a < b THEN a ELSE b

\* Block n \in 1 .. Blocks(blk) of the file, sent from port t.
Blocks(blk) == FileLen \div blk + 1
Data(t, client, blk, n) ==
    [type |-> "DATA", src |-> t, dst |-> client,
     block |-> n % SEQUENCE_SIZE, idx |-> n, from |-> (n - 1) * blk,
     len |-> Smaller(blk, FileLen - (n - 1) * blk)]
Oack(t, client)        == [type |-> "OACK", src |-> t, dst |-> client,
                           blksize |-> BlkSizeOption]
Error(t, client, code) == [type |-> "ERROR", src |-> t, dst |-> client,
                           code |-> code]

-----------------------------------------------------------------------------
Init ==
    /\ TftpState = "SEND_RRQ" /\ TftpBlock = 0 /\ TftpLastBlock = 0
    /\ TftpBlockWrapOffset = 0 /\ TftpBlkSize = BLOCK_SIZE
    /\ TftpRemotePort = 0 /\ TftpOurPort = 0 /\ TftpTimeoutCount = 0
    /\ mem = [o \in {} |-> 0] /\ NetBootFileXferSize = 0
    /\ net_state = "CONTINUE" /\ NetTryCount = 0
    /\ timeHandler = "none" /\ timeLeft = 0 /\ udp_handler = "dummy"
    /\ ether = FALSE /\ arpWait = FALSE /\ arpTry = 0 /\ arpLeft = 0
    /\ txPacket = NoPacket
    /\ pc = "idle" /\ ret = "none" /\ attempt = 0
    /\ net = {}
    /\ srv = [t \in Servers |-> Unused]

-----------------------------------------------------------------------------
(* The server.                                                             *)

\* A new transfer, with the option granted or with the first block at once,
\* or a refusal.
ServerAccept(t) ==
    /\ srv[t] = Unused
    /\ \E p \in net :
         /\ p.type = "RRQ"
         /\ \/ /\ srv' = [srv EXCEPT ![t] = [client |-> p.src, cur |-> 0,
                                             blk |-> BlkSizeOption]]
               /\ net' = net \cup {Oack(t, p.src)}
            \/ /\ srv' = [srv EXCEPT ![t] = [client |-> p.src, cur |-> 1,
                                             blk |-> BLOCK_SIZE]]
               /\ net' = net \cup {Data(t, p.src, BLOCK_SIZE, 1)}
            \/ \E code \in Errors :
                 /\ srv' = [srv EXCEPT ![t].client = p.src]
                 /\ net' = net \cup {Error(t, p.src, code)}
    /\ UNCHANGED clientVars

Expired(p, t, n) == \/ p.type = "OACK" /\ p.src = t /\ Lifetime <= n
                    \/ p.type = "DATA" /\ p.src = t /\ p.idx + Lifetime <= n
                    \/ p.type = "ACK" /\ p.dst = t

\* The current block is acknowledged: the next one follows.
ServerAdvance(t) ==
    LET s == srv[t] IN
    /\ s.blk # 0 /\ s.cur < Blocks(s.blk)
    /\ Ack(s.client, t, s.cur % SEQUENCE_SIZE) \in net
    /\ srv' = [srv EXCEPT ![t].cur = s.cur + 1]
    /\ net' = {p \in net : ~Expired(p, t, s.cur + 1)}
                  \cup {Data(t, s.client, s.blk, s.cur + 1)}
    /\ UNCHANGED clientVars

-----------------------------------------------------------------------------
TftpHandler(p) == \/ TftpOack(p)
                  \/ TftpDataNotFirst(p)
                  \/ TftpDataDuplicate(p)
                  \/ TftpDataStore(p)
                  \/ TftpError(p)

Arrives(p) == ~(~Duplicates /\ p.type = "DATA" /\ p.from \in DOMAIN mem)

\* One step of NetLoop, other than entering it and being interrupted.
LoopStep == \/ NetLoopStart
            \/ ArpReceive
            \/ RxNothing
            \/ ArpTimeoutCheck
            \/ TimerCheck
            \/ Switch
            \/ \E p \in net : Arrives(p) /\ TftpHandler(p)

Client == NetLoopEnter \/ NetLoopNoPrereq \/ CtrlC \/ LoopStep \/ Tick

Next == \/ Client /\ UNCHANGED srv
        \/ \E t \in Servers : ServerAccept(t) \/ ServerAdvance(t)

Spec == Init /\ [][Next]_vars

\* The loop runs and the clock advances; nothing is assumed of the network,
\* the server or the user.
Fairness == WF_vars(LoopStep /\ UNCHANGED srv) /\ SF_vars(Tick /\ UNCHANGED srv)
FairSpec == Spec /\ Fairness

-----------------------------------------------------------------------------
(* Properties.                                                             *)

Offsets == 0 .. FileLen - 1

TypeOK ==
    /\ TftpState \in {"SEND_RRQ", "OACK", "DATA"}
    /\ TftpBlock \in 0 .. SEQUENCE_SIZE - 1
    /\ TftpLastBlock \in 0 .. SEQUENCE_SIZE - 1
    /\ TftpBlkSize \in {BLOCK_SIZE, BlkSizeOption}
    /\ TftpRemotePort \in Servers \cup {0}
    /\ TftpOurPort \in 0 .. MaxAttempts
    /\ TftpTimeoutCount \in 0 .. TIMEOUT_COUNT + 1
    /\ net_state \in {"CONTINUE", "RESTART", "SUCCESS", "FAIL"}
    /\ timeHandler \in {"none", "TftpTimeout", "startAgainTimeout"}
    /\ udp_handler \in {"dummy", "TftpHandler"}
    /\ arpTry \in 0 .. ARP_TIMEOUT_COUNT
    /\ pc \in {"idle", "start", "rx", "arp", "time", "switch"}

\* Whatever is lost, delayed, reordered or repeated, no byte of the file is
\* ever written anywhere but at its own place (store_block, tftp.c:159).
StoredInPlace == \A o \in DOMAIN mem : o \in Offsets /\ mem[o] = o

\* When NetLoop returns success the attempt that succeeded has written the
\* whole file, and `filesize' is its length (tftp_complete, tftp.c:294).
ImageComplete == ret = "ok" => /\ Offsets \subseteq DOMAIN mem
                               /\ NetBootFileXferSize = FileLen

\* NetLoop is serving a transfer it has not given up, or has just completed it.
Live == \/ /\ pc \in {"rx", "arp", "time", "switch"}
           /\ net_state \in {"CONTINUE", "SUCCESS"}
        \/ ret = "ok"

\* The server is never sent ahead of what the client holds: when it has gone
\* on to block n + 1 of the current transfer, blocks 1 .. n are in memory
\* (TftpSend, tftp.c:630, acknowledges only after store_block).  A transfer
\* already given up is excepted: a timer due in the pass that gave it up
\* still acknowledges TftpBlock, stored or not.
ServerNotAhead ==
    Live =>
        \A t \in Servers :
            srv[t].client = TftpOurPort /\ srv[t].cur > 1 =>
                0 .. (srv[t].cur - 1) * srv[t].blk - 1 \subseteq DOMAIN mem

\* Once a handler has decided the outcome no timer that is due in the same
\* pass of the loop replaces it (net.c:491-519 run before the switch).
OutcomeFinal ==
    [][(pc \in {"arp", "time"} /\ net_state \in {"SUCCESS", "FAIL"})
         => (net_state' = net_state)]_vars

\* If the network falls silent, because the server died or the cable was
\* pulled, NetLoop returns when `netretry' is a number: every timeout is
\* counted, enough of them lead to NetStartAgain, and that is counted too.
Silent == <>[][\A p \in net : ~TftpHandler(p)]_vars
SilentLoopReturns == Silent => (pc = "start" ~> pc = "idle")
=============================================================================
