--------------------------- MODULE CycleBuffAcks ---------------------------
(***************************************************************************)
(* A sender that uses the buffer as its retransmission queue: buff_try     *)
(* sends, buff_out acknowledges, buff_retry and buff_clrtrial take sends   *)
(* back.  It takes out one byte at a time only what it has sent, so that   *)
(* trial never strays.  `unacked' counts the bytes sent and not yet        *)
(* acknowledged.                                                           *)
(***************************************************************************)
EXTENDS CycleBuff

VARIABLE unacked

Acknowledged(n) == IF n < unacked THEN unacked - n ELSE 0

Account(c) ==
    CASE c.op = "try"                -> unacked + c.ret
      [] c.op = "retry"              -> unacked - c.ret
      [] c.op \in {"out", "outb"}    -> Acknowledged(c.ret)
      [] c.op \in {"init", "clrtrial"} -> 0
      [] OTHER                       -> unacked

SendInit == Init /\ unacked = 0
SendNext == Next /\ ~stray' /\ unacked' = Account(call')
SendSpec == SendInit /\ [][SendNext]_<<vars, unacked>>

(***************************************************************************)
(* buff.c:24: "Return length of trial data in buffer (i.e. data send but   *)
(* unacked)".                                                              *)
(***************************************************************************)
TrylenIsUnacked == buff_trylen = unacked
=============================================================================
