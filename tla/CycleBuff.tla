----------------------------- MODULE CycleBuff -----------------------------
(***************************************************************************)
(* The circular buffer of src/cycle_buff/buff.c.                           *)
(*                                                                         *)
(* Three free-running LWORD counters chase each other: `in' (next byte to  *)
(* write), `trial' (next byte to send) and `out' (oldest byte kept).  A    *)
(* slot number is a counter masked with len-1; the lengths the functions   *)
(* report are counter differences masked the same way, so everything       *)
(* depends on len dividing the modulus of the counters.                    *)
(***************************************************************************)
EXTENDS Integers, Sequences

CONSTANTS
    CBUFFLEN,   \* _CBUFFLEN_, the number of slots (a power of two)
    LWORDMOD,   \* 2^32 in the code: the modulus of in, out and trial
    WORDMOD,    \* 2^16 in the code: the modulus of a returned length
    Bytes,      \* values of a BYTE the properties tell apart
    ZeroByte,   \* the value static storage starts with
    MaxArg      \* bound: longest length a caller passes

(***************************************************************************)
(* `x & (len-1)' is x % len exactly when len is a power of two; what the   *)
(* arithmetic then rests on is that len divides the counters' modulus.     *)
(***************************************************************************)
ASSUME LenAssumption == CBUFFLEN \in Nat \ {0, 1}
ASSUME WrapAssumption ==
    /\ LWORDMOD \in Nat \ {0}
    /\ WORDMOD \in Nat \ {0}
    /\ CBUFFLEN < WORDMOD
    /\ WORDMOD <= LWORDMOD
    /\ \E k \in 1 .. LWORDMOD : LWORDMOD = k * CBUFFLEN
ASSUME ByteAssumption == ZeroByte \in Bytes
ASSUME ArgAssumption == MaxArg \in Nat

VARIABLES
    len,        \* bp->len: 0 until buff_init
    in,         \* bp->in
    out,        \* bp->out
    trial,      \* bp->trial
    data,       \* bp->data
    call,       \* what the caller of the last operation passed and got back
    stray       \* history: buff_outb has taken an untried byte, and trial has
                \* not been put back to out since

vars == <<len, in, out, trial, data, call, stray>>

LWords == 0 .. LWORDMOD - 1
Slots  == 0 .. CBUFFLEN - 1

\* Mutant: the difference is signed.
MinusSigned(a, b) == a - b

\* Arithmetic on LWORD counters.
Plus(a, n)  == (a + n) % LWORDMOD
Minus(a, b) == (a - b) % LWORDMOD

\* (WORD)(x & (len-1)); with len = 0 the mask is all ones.
Masked(x) == IF len = 0 THEN x % WORDMOD ELSE x % len

minw(a, b) == IF a < b THEN a ELSE b

buff_dlen       == Masked(Minus(in, out))
buff_untriedlen == Masked(Minus(in, trial))
buff_trylen     == Masked(Minus(trial, out))
\* Mutant: no slot is kept free, so that a full buffer looks empty.
FreelenAll == IF len # 0 THEN len - buff_dlen ELSE 0
buff_freelen    == IF len # 0 THEN len - 1 - buff_dlen ELSE 0

-----------------------------------------------------------------------------
(***************************************************************************)
(* The two memcpy calls: n1 bytes up to the end of the buffer, the other   *)
(* n - n1 from its start.                                                  *)
(***************************************************************************)
UpToEnd(from, n) == minw(n, len - from)

\* Mutant: the second memcpy starts from the caller's first byte again.
StoredTwice(from, n, s) ==
    LET n1 == UpToEnd(from, n)
    IN  [i \in Slots |-> IF i \in from .. from + n1 - 1 THEN s[i - from + 1]
                         ELSE IF i < n - n1             THEN s[i + 1]
                         ELSE data[i]]

\* bp->data after copying the first n bytes of s to slot `from' and on.
Stored(from, n, s) ==
    LET n1 == UpToEnd(from, n)
    IN  [i \in Slots |-> IF i \in from .. from + n1 - 1 THEN s[i - from + 1]
                         ELSE IF i < n - n1             THEN s[n1 + i + 1]
                         ELSE data[i]]

\* The n bytes read from slot `from' and on.
Fetched(from, n) ==
    LET n1 == UpToEnd(from, n)
    IN  [k \in 1 .. n |-> IF k <= n1 THEN data[from + k - 1]
                                     ELSE data[k - n1 - 1]]

Called(op, arg, ret, got) ==
    call' = [op |-> op, arg |-> arg, ret |-> ret, got |-> got]

-----------------------------------------------------------------------------
Strings == UNION {[1 .. n -> Bytes] : n \in 0 .. MaxArg}

\* Static storage of the global cbuff before anything is called.
Init ==
    /\ len = 0
    /\ in = 0 /\ out = 0 /\ trial = 0
    /\ data = [i \in Slots |-> ZeroByte]
    /\ call = [op |-> "none", arg |-> <<>>, ret |-> 0, got |-> <<>>]
    /\ stray = FALSE

\* The length set is that of the global cbuff, whatever buffer is passed; it
\* is the only buffer there is.
buff_init(start) ==
    /\ out' = start /\ in' = start /\ trial' = start
    /\ len' = CBUFFLEN
    /\ Called("init", <<>>, 0, <<>>)
    /\ stray' = FALSE
    /\ UNCHANGED data

buff_clrtrial ==
    /\ trial' = out
    /\ Called("clrtrial", <<>>, 0, <<>>)
    /\ stray' = FALSE
    /\ UNCHANGED <<len, in, out, data>>

\* s is the caller's data; buff_instr is the same call with strlen(s).
buff_in(s) ==
    LET n == minw(Len(s), buff_freelen)
    IN  /\ data' = Stored(Masked(in), n, s)
        /\ in' = Plus(in, n)
        /\ Called("in", s, n, <<>>)
        /\ UNCHANGED <<len, out, trial, stray>>

\* The null data pointer: the pointers move, the bytes stay as they are.
buff_in_null(n0) ==
    LET n == minw(n0, buff_freelen)
    IN  /\ in' = Plus(in, n)
        /\ Called("in_null", <<>>, n, <<>>)
        /\ UNCHANGED <<len, out, trial, data, stray>>

buff_inb(b) ==
    /\ data' = [data EXCEPT ![Masked(in)] = b]
    /\ in' = Plus(in, 1)
    /\ Called("inb", <<b>>, 1, <<>>)
    /\ UNCHANGED <<len, out, trial, stray>>

\* keep is FALSE for a null data pointer.
buff_try(maxlen, keep) ==
    LET n == minw(maxlen, buff_untriedlen)
    IN  /\ trial' = Plus(trial, n)
        /\ Called("try", <<>>, n,
                  IF keep THEN Fetched(Masked(trial), n) ELSE <<>>)
        /\ UNCHANGED <<len, in, out, data, stray>>

\* Mutant: the trial pointer stays behind.
OutOnly(maxlen, keep) ==
    LET n == minw(maxlen, buff_dlen)
    IN  /\ out' = Plus(out, n)
        /\ Called("out", <<>>, n,
                  IF keep THEN Fetched(Masked(out), n) ELSE <<>>)
        /\ stray' = (stray /\ buff_untriedlen = 0)
        /\ UNCHANGED <<len, in, trial, data>>

buff_out(maxlen, keep) ==
    LET n == minw(maxlen, buff_dlen)
    IN  /\ out' = Plus(out, n)
        \* untriedlen does not read out, so its value is the one after the bump
        /\ trial' = IF buff_untriedlen # 0 THEN out' ELSE trial
        /\ Called("out", <<>>, n,
                  IF keep THEN Fetched(Masked(out), n) ELSE <<>>)
        /\ stray' = (stray /\ buff_untriedlen = 0)
        /\ UNCHANGED <<len, in, data>>

buff_outb ==
    /\ out' = Plus(out, 1)
    /\ Called("outb", <<>>, 1, <<data[Masked(out)]>>)
    /\ stray' = (stray \/ buff_trylen = 0)
    /\ UNCHANGED <<len, in, trial, data>>

buff_retry(n0) ==
    LET n == minw(n0, buff_trylen)
    IN  /\ trial' = Minus(trial, n)
        /\ Called("retry", <<>>, n, <<>>)
        /\ UNCHANGED <<len, in, out, data, stray>>

-----------------------------------------------------------------------------
(***************************************************************************)
(* The block operations check the room themselves.  The byte operations    *)
(* check nothing: a caller calls buff_inb when there is room and buff_outb *)
(* when there is data, tried or, as in app.c, untried.                     *)
(***************************************************************************)
BlockNext ==
    \/ \E start \in LWords : buff_init(start)
    \/ buff_clrtrial
    \/ \E s \in Strings : buff_in(s)
    \/ \E n \in 0 .. MaxArg :
         \/ buff_in_null(n)
         \/ buff_retry(n)
         \/ \E keep \in BOOLEAN : buff_try(n, keep) \/ buff_out(n, keep)

CheckedInb  == /\ buff_freelen > 0
               /\ \E b \in Bytes : buff_inb(b)
CheckedOutb == /\ buff_dlen > 0
               /\ buff_outb

Next == BlockNext \/ CheckedInb \/ CheckedOutb

Spec == Init /\ [][Next]_vars

-----------------------------------------------------------------------------
Calls == [op  : {"none", "init", "clrtrial", "in", "in_null", "inb", "try",
                 "out", "outb", "retry"},
          arg : Strings \cup [1 .. 1 -> Bytes],
          ret : Nat,
          got : UNION {[1 .. n -> Bytes] : n \in 0 .. CBUFFLEN}]

\* Every field of CBUFF stays within its C type.
TypeOK ==
    /\ len \in {0, CBUFFLEN}
    /\ in \in LWords /\ out \in LWords /\ trial \in LWords
    /\ data \in [Slots -> Bytes]
    /\ call \in Calls /\ stray \in BOOLEAN

(***************************************************************************)
(* The data in the buffer is the data on trial followed by the untried     *)
(* data, and one slot stays free: the three lengths agree although each is *)
(* a masked difference of counters that wrap independently.  Nothing but   *)
(* buff_outb on an untried byte, which app.c does, makes buff_trylen count *)
(* bytes that are not there, and buff_clrtrial, buff_init or a buff_out    *)
(* with untried data left puts it right again; data and room agree even    *)
(* then.                                                                   *)
(***************************************************************************)
LengthsAgree ==
    /\ ~stray => buff_trylen + buff_untriedlen = buff_dlen
    /\ buff_dlen + buff_freelen = (IF len = 0 THEN 0 ELSE len - 1)

(***************************************************************************)
(* The counters chase each other: in is d bytes ahead of out, with d < len,*)
(* on a circle of LWORDMOD positions, for every caller that takes out only *)
(* what is there.  trial is t bytes ahead of out, with t <= d, until       *)
(* buff_outb takes an untried byte; app.c does just that.  Before          *)
(* buff_init all three still hold the zero of static storage.              *)
(***************************************************************************)
Ahead(d) == in = Plus(out, d)

Chase(d, t) == Ahead(d) /\ trial = Plus(out, t)

Order(d) == Ahead(d) /\ (~stray => \E t \in 0 .. d : Chase(d, t))

CountersChase ==
    IF len = 0 THEN in = 0 /\ out = 0 /\ trial = 0 /\ ~stray
               ELSE \E d \in Slots : Order(d)

=============================================================================
