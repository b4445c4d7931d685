----------------------------- MODULE TrialFifo -----------------------------
(***************************************************************************)
(* What the circular buffer promises its callers: a bounded first-in       *)
(* first-out queue of bytes with a cursor that splits it into data on      *)
(* trial (sent, may be sent again) and untried data.  No slots, no         *)
(* counters, no wrapping.                                                  *)
(***************************************************************************)
EXTENDS Integers, Sequences

CONSTANTS
    Capacity,   \* bytes an initialised buffer can hold
    Bytes,
    MaxArg      \* longest length a caller passes

VARIABLES
    cap,        \* 0 before initialisation, then Capacity
    queue,      \* the bytes held, oldest first
    tried,      \* how many of them, from the oldest, are on trial, or Lost
    call        \* what the caller of the last operation passed and got back

vars == <<cap, queue, tried, call>>

\* The cursor is nowhere in the queue: the byte it was at was taken away.
Lost == -1

Smaller(a, b) == IF a < b THEN a ELSE b
Prefix(s, n)  == SubSeq(s, 1, n)
Suffix(s, n)  == SubSeq(s, n + 1, Len(s))

\* The name of the operation comes first: it alone rules most actions out.
Returns(op, arg, ret, got) ==
    /\ call'.op = op
    /\ call' = [op |-> op, arg |-> arg, ret |-> ret, got |-> got]

Strings(n) == [1 .. n -> Bytes]

Init == /\ cap = 0 /\ queue = <<>> /\ tried = 0
        /\ call = [op |-> "none", arg |-> <<>>, ret |-> 0, got |-> <<>>]

Initialise == /\ Returns("init", <<>>, 0, <<>>)
              /\ cap' = Capacity /\ queue' = <<>> /\ tried' = 0

\* What fits of s is appended.
Put(op, s) ==
    LET n == Smaller(Len(s), cap - Len(queue))
    IN  /\ Returns(op, s, n, <<>>)
        /\ queue' = queue \o Prefix(s, n)
        /\ UNCHANGED <<cap, tried>>

\* Room is taken for bytes whose values are not the caller's.
Reserve(n0) ==
    LET n == Smaller(n0, cap - Len(queue))
    IN  /\ Returns("in_null", <<>>, n, <<>>)
        /\ \E s \in Strings(n) : queue' = queue \o s
        /\ UNCHANGED <<cap, tried>>

\* The next untried bytes go on trial, in order.
Try(n0, keep) ==
    LET n == Smaller(n0, Len(queue) - tried)
    IN  /\ tried # Lost
        /\ Returns("try", <<>>, n,
                   IF keep THEN SubSeq(queue, tried + 1, tried + n) ELSE <<>>)
        /\ tried' = tried + n
        /\ UNCHANGED <<cap, queue>>

\* The newest bytes on trial become untried again.
Retry(n0) ==
    LET n == Smaller(n0, tried)
    IN  /\ tried # Lost
        /\ Returns("retry", <<>>, n, <<>>)
        /\ tried' = tried - n
        /\ UNCHANGED <<cap, queue>>

\* With a cursor that is lost nothing is promised of what is tried, but the
\* queue stays as it is.
TryLost(n0, keep) ==
    /\ tried = Lost
    /\ \E n \in 0 .. n0 : \E s \in Strings(n) :
         Returns("try", <<>>, n, IF keep THEN s ELSE <<>>)
    /\ UNCHANGED <<cap, queue, tried>>

RetryLost(n0) ==
    /\ tried = Lost
    /\ \E n \in 0 .. n0 : Returns("retry", <<>>, n, <<>>)
    /\ UNCHANGED <<cap, queue, tried>>

Clear ==
    /\ Returns("clrtrial", <<>>, 0, <<>>)
    /\ tried' = 0
    /\ UNCHANGED <<cap, queue>>

\* The oldest n bytes leave.
Remove(op, n, keep) ==
    /\ Returns(op, <<>>, n, IF keep THEN Prefix(queue, n) ELSE <<>>)
    /\ queue' = Suffix(queue, n)
    /\ UNCHANGED cap

\* A block: what remains on trial may be put back to untried.
Out(n0, keep) ==
    LET n == Smaller(n0, Len(queue))
    IN  /\ Remove("out", n, keep)
        /\ tried' \in {0, IF tried = Lost THEN Lost
                         ELSE IF n < tried THEN tried - n ELSE 0}

\* A byte: taken before it was tried, it takes the cursor with it.
Outb ==
    /\ Remove("outb", 1, TRUE)
    /\ queue # <<>>
    /\ tried' = IF tried \in {0, Lost} THEN Lost ELSE tried - 1

Next ==
    \/ Initialise \/ Clear \/ Outb
    \/ \E b \in Bytes : Len(queue) < cap /\ Put("inb", <<b>>)
    \/ \E n \in 0 .. MaxArg :
         \/ Reserve(n) \/ Retry(n) \/ RetryLost(n)
         \/ \E keep \in BOOLEAN : Try(n, keep) \/ Out(n, keep) \/ TryLost(n, keep)
         \/ \E s \in Strings(n) : Put("in", s)

Spec == Init /\ [][Next]_vars
=============================================================================
