-------------------------- MODULE CycleBuffProofs --------------------------
(***************************************************************************)
(* Proofs about the circular buffer for every buffer length, every modulus *)
(* of the counters and every set of bytes.                                 *)
(***************************************************************************)
EXTENDS CycleBuffFifo, SequenceTheorems, TLAPS

-----------------------------------------------------------------------------
(* Arithmetic modulo m.                                                    *)

\* A number is what its residue says as soon as it is a multiple of m away.
LEMMA ModUnique ==
    ASSUME NEW m \in Nat \ {0}, NEW x \in Int, NEW q \in Int,
           NEW r \in 0 .. m - 1, x = q * m + r
    PROVE  x % m = r
  BY SMT

\* The counter n bytes ahead of a: it wraps at most once.
LEMMA PlusWraps ==
    ASSUME NEW a \in LWords, NEW n \in 0 .. LWORDMOD
    PROVE  /\ Plus(a, n) \in LWords
           /\ Plus(a, n) = IF a + n < LWORDMOD THEN a + n ELSE a + n - LWORDMOD
  <1>1. LWORDMOD \in Nat \ {0}
    BY WrapAssumption, Zenon
  <1>2. CASE a + n < LWORDMOD
    <2>1. (a + n) % LWORDMOD = a + n
      BY <1>1, <1>2, ModUnique, a + n = 0 * LWORDMOD + (a + n) DEF LWords
    <2> QED BY <1>1, <1>2, <2>1 DEF Plus, LWords
  <1>3. CASE ~(a + n < LWORDMOD)
    <2> DEFINE r == a + n - LWORDMOD
    <2>1. r \in 0 .. LWORDMOD - 1 /\ a + n = 1 * LWORDMOD + r
      BY <1>1, <1>3 DEF LWords
    <2>2. (a + n) % LWORDMOD = r
      BY <1>1, <2>1, ModUnique DEF LWords
    <2> QED BY <1>1, <1>3, <2>1, <2>2, Zenon DEF Plus, LWords
  <1> QED BY <1>2, <1>3, Zenon

\* The distance from counter b to counter a, going forward.
LEMMA MinusWraps ==
    ASSUME NEW a \in LWords, NEW b \in LWords
    PROVE  /\ Minus(a, b) \in LWords
           /\ Minus(a, b) = IF a >= b THEN a - b ELSE a - b + LWORDMOD
  <1>1. LWORDMOD \in Nat \ {0}
    BY WrapAssumption, Zenon
  <1>2. CASE a >= b
    <2>1. (a - b) % LWORDMOD = a - b
      BY <1>1, <1>2, ModUnique, a - b = 0 * LWORDMOD + (a - b) DEF LWords
    <2> QED BY <1>1, <1>2, <2>1 DEF Minus, LWords
  <1>3. CASE ~(a >= b)
    <2> DEFINE r == a - b + LWORDMOD
    <2>1. r \in 0 .. LWORDMOD - 1 /\ a - b = (-1) * LWORDMOD + r
      BY <1>1, <1>3 DEF LWords
    <2>2. (a - b) % LWORDMOD = r
      BY <1>1, <2>1, ModUnique DEF LWords
    <2> QED BY <1>1, <1>3, <2>1, <2>2, Zenon DEF Minus, LWords
  <1> QED BY <1>2, <1>3, Zenon

\* A slot number is smaller than the modulus of the counters.
LEMMA LenFits == /\ CBUFFLEN \in Nat /\ CBUFFLEN > 1
                 /\ LWORDMOD \in Nat /\ WORDMOD \in Nat
                 /\ CBUFFLEN <= LWORDMOD /\ WORDMOD > 0
  BY LenAssumption, WrapAssumption

\* Two moves forward by less than the buffer length are one move.
LEMMA PlusPlus ==
    ASSUME NEW a \in LWords, NEW m \in Slots, NEW n \in Slots, m + n \in Slots
    PROVE  Plus(Plus(a, m), n) = Plus(a, m + n)
  <1> DEFINE p == Plus(a, m)
  <1>1. m \in 0 .. LWORDMOD /\ n \in 0 .. LWORDMOD /\ m + n \in 0 .. LWORDMOD
    BY LenFits DEF Slots
  <1>2. /\ p \in LWords
        /\ p = IF a + m < LWORDMOD THEN a + m ELSE a + m - LWORDMOD
    BY <1>1, PlusWraps, Zenon
  <1>3. Plus(a, m + n) = IF a + (m + n) < LWORDMOD THEN a + (m + n)
                                                   ELSE a + (m + n) - LWORDMOD
    BY <1>1, PlusWraps, Zenon
  <1> HIDE DEF p
  <1>4. Plus(p, n) = IF p + n < LWORDMOD THEN p + n ELSE p + n - LWORDMOD
    BY <1>1, <1>2, PlusWraps, Zenon
  <1>5. Plus(p, n) = Plus(a, m + n)
    BY <1>1, <1>2, <1>3, <1>4, LenFits DEF Slots, LWords
  <1> QED BY <1>5, Zenon DEF p

\* Moving back undoes part of a move forward.
LEMMA MinusPlus ==
    ASSUME NEW a \in LWords, NEW m \in Slots, NEW n \in 0 .. m
    PROVE  Minus(Plus(a, m), n) = Plus(a, m - n)
  <1> DEFINE p == Plus(a, m)
  <1>1. m \in 0 .. LWORDMOD /\ m - n \in 0 .. LWORDMOD /\ n \in LWords
    BY LenFits DEF Slots, LWords
  <1>2. /\ p \in LWords
        /\ p = IF a + m < LWORDMOD THEN a + m ELSE a + m - LWORDMOD
    BY <1>1, PlusWraps, Zenon
  <1>3. Plus(a, m - n) = IF a + (m - n) < LWORDMOD THEN a + (m - n)
                                                   ELSE a + (m - n) - LWORDMOD
    BY <1>1, PlusWraps, Zenon
  <1> HIDE DEF p
  <1>4. Minus(p, n) = IF p >= n THEN p - n ELSE p - n + LWORDMOD
    BY <1>1, <1>2, MinusWraps, Zenon
  <1>5. Minus(p, n) = Plus(a, m - n)
    BY <1>1, <1>2, <1>3, <1>4, LenFits DEF Slots, LWords
  <1> QED BY <1>5, Zenon DEF p

\* The masked distance between two counters is the number of bytes between.
LEMMA Distance ==
    ASSUME NEW a \in LWords, NEW d \in Slots, NEW t \in 0 .. d, len = CBUFFLEN
    PROVE  Masked(Minus(Plus(a, d), Plus(a, t))) = d - t
  <1> DEFINE p == Plus(a, d)
             q == Plus(a, t)
  <1>1. d \in 0 .. LWORDMOD /\ t \in 0 .. LWORDMOD
    BY LenFits DEF Slots
  <1>2. /\ p \in LWords
        /\ p = IF a + d < LWORDMOD THEN a + d ELSE a + d - LWORDMOD
    BY <1>1, PlusWraps, Zenon
  <1>3. /\ q \in LWords
        /\ q = IF a + t < LWORDMOD THEN a + t ELSE a + t - LWORDMOD
    BY <1>1, PlusWraps, Zenon
  <1> HIDE DEF p, q
  <1>4. Minus(p, q) = IF p >= q THEN p - q ELSE p - q + LWORDMOD
    BY <1>2, <1>3, MinusWraps, Zenon
  <1>5. Minus(p, q) = d - t
    BY <1>1, <1>2, <1>3, <1>4, LenFits DEF Slots, LWords
  <1>6. (d - t) % CBUFFLEN = d - t
    BY LenFits, ModUnique, d - t = 0 * CBUFFLEN + (d - t) DEF Slots
  <1> QED BY <1>5, <1>6, LenFits DEF Masked, p, q

-----------------------------------------------------------------------------
(* What the length functions return.                                       *)

\* In an initialised buffer the data is the bytes in is ahead of out.
LEMMA AheadLengths ==
    ASSUME len = CBUFFLEN, out \in LWords, NEW d \in Slots, Ahead(d)
    PROVE  /\ buff_dlen = d
           /\ buff_freelen = CBUFFLEN - 1 - d
  <1>1. Plus(out, 0) = out
    BY PlusWraps, LenFits DEF LWords
  <1>2. 0 \in 0 .. d
    BY LenFits DEF Slots
  <1>3. buff_dlen = d
    BY <1>1, <1>2, Distance, d - 0 = d DEF Ahead, buff_dlen, Slots
  <1> QED BY <1>3, LenFits DEF buff_freelen

\* With trial in its place the other lengths are the ones CountersChase names.
LEMMA Lengths ==
    ASSUME len = CBUFFLEN, out \in LWords,
           NEW d \in Slots, NEW t \in 0 .. d, Chase(d, t)
    PROVE  /\ buff_dlen = d
           /\ buff_trylen = t
           /\ buff_untriedlen = d - t
           /\ buff_freelen = CBUFFLEN - 1 - d
  <1>1. Plus(out, 0) = out
    BY PlusWraps, LenFits DEF LWords
  <1>2. t \in Slots /\ 0 \in 0 .. t
    BY LenFits DEF Slots
  <1>3. buff_dlen = d /\ buff_freelen = CBUFFLEN - 1 - d
    BY AheadLengths, Zenon DEF Chase
  <1>4. buff_trylen = t
    BY <1>1, <1>2, Distance, t - 0 = t, Zenon DEF Chase, buff_trylen, Slots
  <1>5. buff_untriedlen = d - t
    BY Distance, Zenon DEF Chase, Ahead, buff_untriedlen
  <1> QED BY <1>3, <1>4, <1>5, Zenon

\* Before buff_init every length is zero.
LEMMA LengthsBefore ==
    ASSUME len = 0, in = 0, out = 0, trial = 0
    PROVE  /\ buff_dlen = 0 /\ buff_trylen = 0 /\ buff_untriedlen = 0
           /\ buff_freelen = 0
  <1>1. Minus(0, 0) = 0
    BY MinusWraps, LenFits DEF LWords
  <1>2. 0 % WORDMOD = 0
    BY LenFits, ModUnique, 0 = 0 * WORDMOD + 0
  <1> QED
    BY <1>1, <1>2, Zenon DEF Masked, buff_dlen, buff_trylen, buff_untriedlen,
                      buff_freelen

-----------------------------------------------------------------------------
(* Types.                                                                  *)

CounterTypes == /\ len \in {0, CBUFFLEN}
                /\ in \in LWords /\ out \in LWords /\ trial \in LWords
                /\ stray \in BOOLEAN

\* The inductive invariant: the types of the counters and their order.
IInv == CounterTypes /\ CountersChase

\* A move keeps a counter an LWORD, whatever the amount.
LEMMA CounterType ==
    ASSUME NEW a \in Int, NEW n \in Int
    PROVE  Plus(a, n) \in LWords /\ Minus(a, n) \in LWords
  BY LenFits DEF Plus, Minus, LWords

\* A caller's string has the length of its domain.
LEMMA StringLen ==
    ASSUME NEW s \in Strings
    PROVE  Len(s) \in Nat /\ s \in [1 .. Len(s) -> Bytes]
  BY ArgAssumption DEF Strings

\* A masked counter is a slot.
LEMMA MaskedSlot ==
    ASSUME len = CBUFFLEN, NEW x \in LWords
    PROVE  Masked(x) \in Slots
  BY LenFits DEF Masked, Slots, LWords

\* Wherever trial is, the lengths are smaller than the buffer.
LEMMA LengthTypes ==
    ASSUME len = CBUFFLEN, CounterTypes
    PROVE  buff_dlen \in Slots /\ buff_trylen \in Slots /\ buff_untriedlen \in Slots
  <1>1. Minus(in, out) \in LWords /\ Minus(trial, out) \in LWords
    BY MinusWraps, Zenon DEF CounterTypes
  <1>2. Minus(in, trial) \in LWords
    BY MinusWraps, Zenon DEF CounterTypes
  <1> QED BY <1>1, <1>2, MaskedSlot, Zenon DEF buff_dlen, buff_trylen, buff_untriedlen

-----------------------------------------------------------------------------
(* The invariant.                                                          *)

\* Static storage satisfies the invariant.
LEMMA InitIInv == Init => IInv
  <1>1. 0 \in LWords
    BY LenFits DEF LWords
  <1> QED BY <1>1, Zenon DEF Init, IInv, CounterTypes, CountersChase

\* An initialised buffer stays initialised and in order.
LEMMA ChaseStep ==
    ASSUME len' = CBUFFLEN, out' \in LWords, trial' \in LWords, stray' \in BOOLEAN,
           NEW d \in Slots, Ahead(d)', ~stray' => \E t \in 0 .. d : Chase(d, t)'
    PROVE  IInv'
  <1>1. d \in 0 .. LWORDMOD /\ CBUFFLEN # 0
    BY LenFits DEF Slots
  <1>2. in' \in LWords
    BY <1>1, PlusWraps, Zenon DEF Ahead
  <1>3. Order(d)'
    BY Zenon DEF Order
  <1> QED BY <1>1, <1>2, <1>3, Zenon DEF IInv, CounterTypes, CountersChase

\* buff_init puts the three counters at one place.
LEMMA InitStep ==
    ASSUME NEW start \in LWords, buff_init(start)
    PROVE  IInv'
  <1>1. Plus(start, 0) = start
    BY PlusWraps, LenFits DEF LWords
  <1>2. 0 \in Slots /\ 0 \in 0 .. 0
    BY LenFits DEF Slots
  <1>3. Ahead(0)' /\ Chase(0, 0)'
    BY <1>1, Zenon DEF buff_init, Ahead, Chase
  <1> QED BY <1>2, <1>3, ChaseStep, Zenon DEF buff_init

\* No operation but buff_init moves a counter of an uninitialised buffer.
LEMMA UninitialisedStep ==
    ASSUME IInv, len = 0, Next, ~ \E start \in LWords : buff_init(start)
    PROVE  IInv' /\ len' = 0
  <1>1. in = 0 /\ out = 0 /\ trial = 0 /\ stray = FALSE
    BY Zenon DEF IInv, CountersChase, CounterTypes
  <1>2. /\ buff_dlen = 0 /\ buff_trylen = 0 /\ buff_untriedlen = 0
        /\ buff_freelen = 0
    BY <1>1, LengthsBefore, Zenon
  <1>3. /\ Plus(0, 0) = 0 /\ Minus(0, 0) = 0
    BY PlusWraps, MinusWraps, LenFits DEF LWords
  <1>4. \A n \in Nat : minw(n, 0) = 0
    BY DEF minw
  <1> DEFINE Goal == len' = 0 /\ in' = 0 /\ out' = 0 /\ trial' = 0 /\ stray' = FALSE
  <1> SUFFICES Goal
    BY LenFits, Zenon DEF IInv, CounterTypes, CountersChase, LWords
  <1>0. \A n \in 0 .. MaxArg : n \in Nat
    BY ArgAssumption
  <1>5. CASE buff_clrtrial
    BY <1>1, <1>5, Zenon DEF buff_clrtrial
  <1>6. ASSUME NEW s \in Strings, buff_in(s) PROVE Goal
    BY <1>1, <1>2, <1>3, <1>4, <1>6, StringLen, Zenon DEF buff_in
  <1>7. ASSUME NEW n \in 0 .. MaxArg, buff_in_null(n) PROVE Goal
    BY <1>0, <1>1, <1>2, <1>3, <1>4, <1>7, Zenon DEF buff_in_null
  <1>8. ASSUME NEW n \in 0 .. MaxArg, buff_retry(n) PROVE Goal
    BY <1>0, <1>1, <1>2, <1>3, <1>4, <1>8, Zenon DEF buff_retry
  <1>9. ASSUME NEW n \in 0 .. MaxArg, NEW keep \in BOOLEAN, buff_try(n, keep) PROVE Goal
    BY <1>0, <1>1, <1>2, <1>3, <1>4, <1>9, Zenon DEF buff_try
  <1>10. ASSUME NEW n \in 0 .. MaxArg, NEW keep \in BOOLEAN, buff_out(n, keep) PROVE Goal
    BY <1>0, <1>1, <1>2, <1>3, <1>4, <1>10, Zenon DEF buff_out
  <1>11. ~CheckedInb /\ ~CheckedOutb
    BY <1>2 DEF CheckedInb, CheckedOutb
  <1> QED
    BY <1>5, <1>6, <1>7, <1>8, <1>9, <1>10, <1>11, Zenon DEF Next, BlockNext

\* The four ways to move a counter of an initialised buffer: in forward, ...
LEMMA MoveIn ==
    ASSUME out \in LWords, NEW d \in Slots, Ahead(d),
           NEW n \in 0 .. CBUFFLEN - 1 - d, in' = Plus(in, n), out' = out
    PROVE  d + n \in Slots /\ 0 .. d \subseteq 0 .. d + n /\ Ahead(d + n)'
  <1>1. d + n \in Slots /\ n \in Slots /\ 0 .. d \subseteq 0 .. d + n
    BY LenFits DEF Slots
  <1>2. in' = Plus(out', d + n)
    BY <1>1, PlusPlus, Zenon DEF Ahead
  <1> QED BY <1>1, <1>2, Zenon DEF Ahead

\* ... trial forward, ...
LEMMA MoveTrial ==
    ASSUME out \in LWords, NEW d \in Slots, NEW t \in 0 .. d, Chase(d, t),
           NEW n \in 0 .. d - t,
           trial' = Plus(trial, n), UNCHANGED <<in, out>>
    PROVE  t + n \in 0 .. d /\ Chase(d, t + n)'
  <1>1. t \in Slots /\ t + n \in Slots /\ n \in Slots /\ t + n \in 0 .. d
    BY LenFits DEF Slots
  <1>2. in' = Plus(out', d) /\ trial' = Plus(out', t + n)
    BY <1>1, PlusPlus, Zenon DEF Chase, Ahead
  <1> QED BY <1>1, <1>2, Zenon DEF Chase, Ahead

\* ... trial back, ...
LEMMA MoveBack ==
    ASSUME out \in LWords, NEW d \in Slots, NEW t \in 0 .. d, Chase(d, t),
           NEW n \in 0 .. t,
           trial' = Minus(trial, n), UNCHANGED <<in, out>>
    PROVE  t - n \in 0 .. d /\ Chase(d, t - n)'
  <1>1. t \in Slots /\ t - n \in 0 .. d
    BY LenFits DEF Slots
  <1>2. in' = Plus(out', d) /\ trial' = Plus(out', t - n)
    BY <1>1, MinusPlus, Zenon DEF Chase, Ahead
  <1> QED BY <1>1, <1>2, Zenon DEF Chase, Ahead

\* ... and out forward, ...
LEMMA MoveOut ==
    ASSUME out \in LWords, NEW d \in Slots, Ahead(d),
           NEW n \in 0 .. d, out' = Plus(out, n), in' = in
    PROVE  /\ out' \in LWords /\ d - n \in Slots /\ Ahead(d - n)'
           /\ trial' = out' => 0 \in 0 .. d - n /\ Chase(d - n, 0)'
  <1>1. /\ n \in Slots /\ d - n \in Slots /\ n + (d - n) = d
        /\ n \in 0 .. LWORDMOD /\ 0 \in 0 .. d - n
    BY LenFits DEF Slots
  <1>2. out' \in LWords /\ in' = Plus(out', d - n)
    BY <1>1, PlusPlus, PlusWraps DEF Ahead
  <1>3. Plus(out', 0) = out'
    BY <1>2, PlusWraps, LenFits DEF LWords
  <1> QED BY <1>1, <1>2, <1>3, Zenon DEF Chase, Ahead

\* ... which leaves trial where it is when the bytes that leave were tried.
LEMMA MoveOutTried ==
    ASSUME out \in LWords, NEW d \in Slots, NEW t \in 0 .. d, Chase(d, t),
           NEW n \in 0 .. t, out' = Plus(out, n), UNCHANGED <<in, trial>>
    PROVE  t - n \in 0 .. d - n /\ Chase(d - n, t - n)'
  <1>1. /\ t - n \in Slots /\ n \in Slots /\ n + (t - n) = t /\ t \in Slots
        /\ t - n \in 0 .. d - n /\ n \in 0 .. d
    BY LenFits DEF Slots
  <1>2. Plus(Plus(out, n), t - n) = Plus(out, t)
    BY <1>1, PlusPlus
  <1>3. Ahead(d - n)'
    BY <1>1, MoveOut, Zenon DEF Chase
  <1> QED BY <1>1, <1>2, <1>3, Zenon DEF Chase

\* Every operation keeps an initialised buffer in order.
LEMMA InitialisedStep ==
    ASSUME IInv, len = CBUFFLEN, Next,
           ~ \E start \in LWords : buff_init(start)
    PROVE  IInv'
  <1>0. PICK d \in Slots : Order(d)
    BY LenFits DEF IInv, CountersChase
  <1>1. Ahead(d) /\ (~stray => \E t \in 0 .. d : Chase(d, t))
    BY <1>0, Zenon DEF Order
  <1>2. /\ CounterTypes /\ out \in LWords /\ trial \in LWords /\ stray \in BOOLEAN
        /\ d \in Nat /\ d <= CBUFFLEN - 1
    BY LenFits DEF IInv, CounterTypes, Slots
  <1>3. buff_dlen = d /\ buff_freelen = CBUFFLEN - 1 - d
    BY <1>1, <1>2, AheadLengths, Zenon
  <1>4. buff_trylen \in Slots /\ buff_untriedlen \in Slots
    BY <1>2, LengthTypes, Zenon
  <1>5. Plus(out, 0) = out
    BY <1>2, PlusWraps, LenFits DEF LWords
  <1>6. \A m \in 0 .. MaxArg : /\ minw(m, buff_freelen) \in 0 .. CBUFFLEN - 1 - d
                               /\ minw(m, buff_dlen) \in 0 .. d
                               /\ minw(m, buff_trylen) \in 0 .. buff_trylen
                               /\ minw(m, buff_untriedlen) \in 0 .. buff_untriedlen
    BY <1>2, <1>3, <1>4, ArgAssumption, LenFits DEF minw, Slots
  <1>7. ASSUME NEW n \in 0 .. CBUFFLEN - 1 - d,
               in' = Plus(in, n), UNCHANGED <<len, out, trial, stray>>
        PROVE  IInv'
    <2>1. d + n \in Slots /\ 0 .. d \subseteq 0 .. d + n /\ Ahead(d + n)'
      BY <1>1, <1>2, <1>7, MoveIn, Zenon
    <2>2. ~stray' => \E t \in 0 .. d + n : Chase(d + n, t)'
      BY <1>1, <1>7, <2>1, Zenon DEF Chase
    <2> QED BY <1>2, <1>7, <2>1, <2>2, ChaseStep, Zenon
  <1>8. ASSUME NEW n \in 0 .. buff_untriedlen,
               trial' = Plus(trial, n), UNCHANGED <<len, in, out, stray>>
        PROVE  IInv'
    <2>1. trial' \in LWords
      <3>1. trial \in Int /\ n \in Int
        BY <1>2, <1>4 DEF LWords, Slots
      <3> QED BY <1>8, <3>1, CounterType, Zenon
    <2>2. ASSUME ~stray PROVE \E t \in 0 .. d : Chase(d, t)'
      <3>1. PICK t \in 0 .. d : Chase(d, t)
        BY <1>1, <2>2, Zenon
      <3>2. buff_untriedlen = d - t
        BY <1>2, <3>1, Lengths, Zenon
      <3> QED BY <1>2, <1>8, <3>1, <3>2, MoveTrial, Zenon
    <2>3. Ahead(d)'
      BY <1>1, <1>8, Zenon DEF Ahead
    <2> QED BY <1>2, <1>8, <2>1, <2>2, <2>3, ChaseStep, Zenon
  <1>9. ASSUME NEW n \in 0 .. buff_trylen,
               trial' = Minus(trial, n), UNCHANGED <<len, in, out, stray>>
        PROVE  IInv'
    <2>1. trial' \in LWords
      <3>1. trial \in Int /\ n \in Int
        BY <1>2, <1>4 DEF LWords, Slots
      <3> QED BY <1>9, <3>1, CounterType, Zenon
    <2>2. ASSUME ~stray PROVE \E t \in 0 .. d : Chase(d, t)'
      <3>1. PICK t \in 0 .. d : Chase(d, t)
        BY <1>1, <2>2, Zenon
      <3>2. buff_trylen = t
        BY <1>2, <3>1, Lengths, Zenon
      <3> QED BY <1>2, <1>9, <3>1, <3>2, MoveBack, Zenon
    <2>3. Ahead(d)'
      BY <1>1, <1>9, Zenon DEF Ahead
    <2> QED BY <1>2, <1>9, <2>1, <2>2, <2>3, ChaseStep, Zenon
  <1>10. CASE buff_clrtrial
    <2>1. Ahead(d)' /\ Chase(d, 0)' /\ 0 \in 0 .. d
      BY <1>1, <1>2, <1>5, <1>10 DEF buff_clrtrial, Ahead, Chase
    <2> QED BY <1>2, <1>10, <2>1, ChaseStep, Zenon DEF buff_clrtrial
  <1>11. ASSUME NEW s \in Strings, buff_in(s)
         PROVE  IInv'
    <2>1. minw(Len(s), buff_freelen) \in 0 .. CBUFFLEN - 1 - d
      BY <1>2, <1>3, StringLen, LenFits DEF minw
    <2> QED BY <1>7, <1>11, <2>1, Zenon DEF buff_in
  <1>12. ASSUME NEW m \in 0 .. MaxArg, buff_in_null(m)
         PROVE  IInv'
    BY <1>6, <1>7, <1>12, Zenon DEF buff_in_null
  <1>13. ASSUME NEW m \in 0 .. MaxArg, buff_retry(m)
         PROVE  IInv'
    BY <1>6, <1>9, <1>13, Zenon DEF buff_retry
  <1>14. ASSUME NEW m \in 0 .. MaxArg, NEW keep \in BOOLEAN, buff_try(m, keep)
         PROVE  IInv'
    BY <1>6, <1>8, <1>14, Zenon DEF buff_try
  <1>15. ASSUME NEW m \in 0 .. MaxArg, NEW keep \in BOOLEAN, buff_out(m, keep)
         PROVE  IInv'
    <2>1. PICK n \in 0 .. d : n = minw(m, buff_dlen)
      BY <1>6, Zenon
    <2>2. /\ out' = Plus(out, n) /\ UNCHANGED <<len, in>>
          /\ trial' = IF buff_untriedlen # 0 THEN out' ELSE trial
          /\ stray' = (stray /\ buff_untriedlen = 0)
      BY <1>15, <2>1, Zenon DEF buff_out
    <2>3. /\ out' \in LWords /\ d - n \in Slots /\ Ahead(d - n)'
          /\ trial' = out' => 0 \in 0 .. d - n /\ Chase(d - n, 0)'
      BY <1>1, <1>2, <2>1, <2>2, MoveOut, Zenon
    <2>4. trial' \in LWords /\ stray' \in BOOLEAN
      <3>1. trial' = out' \/ trial' = trial
        BY <2>2, Zenon
      <3>2. stray' \in BOOLEAN
        BY <2>2, Zenon
      <3> QED BY <1>2, <2>3, <3>1, <3>2, Zenon
    <2>5. ASSUME ~stray, trial' # out' PROVE \E t \in 0 .. d - n : Chase(d - n, t)'
      <3>1. PICK t \in 0 .. d : Chase(d, t)
        BY <1>1, <2>5, Zenon
      <3>2. buff_untriedlen = d - t
        BY <1>2, <3>1, Lengths, Zenon
      <3>3. trial' = trial /\ buff_untriedlen = 0
        BY <2>2, <2>5, Zenon
      <3>4. n \in 0 .. t
        BY <1>2, <2>1, <3>2, <3>3
      <3>5. out' = Plus(out, n) /\ UNCHANGED <<in, trial>>
        BY <2>2, <3>3, Zenon
      <3>6. t - n \in 0 .. d - n /\ Chase(d - n, t - n)'
        BY <1>2, <3>1, <3>4, <3>5, MoveOutTried, Zenon
      <3> QED BY <3>6, Zenon
    <2>6. ~stray' => \E t \in 0 .. d - n : Chase(d - n, t)'
      <3>1. CASE stray
        BY <2>2, <2>3, <3>1, Zenon
      <3>2. CASE ~stray
        BY <2>3, <2>5, <3>2, Zenon
      <3> QED BY <3>1, <3>2, Zenon
    <2> QED BY <1>2, <2>2, <2>3, <2>4, <2>6, ChaseStep, Zenon
  <1>16. CASE CheckedInb
    <2>1. 1 \in 0 .. CBUFFLEN - 1 - d
      BY <1>2, <1>3, <1>16, LenFits DEF CheckedInb
    <2> QED BY <1>7, <1>16, <2>1, Zenon DEF CheckedInb, buff_inb
  <1>17. CASE CheckedOutb
    <2>1. 1 \in 0 .. d
      BY <1>2, <1>3, <1>17 DEF CheckedOutb
    <2>2. /\ out' = Plus(out, 1) /\ UNCHANGED <<len, in, trial>>
          /\ stray' = (stray \/ buff_trylen = 0)
      BY <1>17, Zenon DEF CheckedOutb, buff_outb
    <2>3. out' \in LWords /\ d - 1 \in Slots /\ Ahead(d - 1)' /\ stray' \in BOOLEAN
      BY <1>1, <1>2, <2>1, <2>2, MoveOut, Zenon
    <2>4. ASSUME ~stray' PROVE \E t \in 0 .. d - 1 : Chase(d - 1, t)'
      <3>1. PICK t \in 0 .. d : Chase(d, t)
        BY <1>1, <1>2, <2>2, <2>4, Zenon
      <3>2. buff_trylen = t
        BY <1>2, <3>1, Lengths, Zenon
      <3>3. t # 0
        BY <2>2, <2>4, <3>2, Zenon
      <3>4. 1 \in 0 .. t
        BY <1>2, <3>3
      <3> QED BY <1>2, <2>2, <3>1, <3>4, MoveOutTried, Zenon
    <2> QED BY <1>2, <2>2, <2>3, <2>4, ChaseStep, Zenon
  <1> QED
    BY <1>10, <1>11, <1>12, <1>13, <1>14, <1>15, <1>16, <1>17, Zenon
       DEF Next, BlockNext

\* One step of any caller.
LEMMA NextIInv == IInv /\ [Next]_vars => IInv'
  <1> SUFFICES ASSUME IInv, [Next]_vars PROVE IInv'
    OBVIOUS
  <1>1. CASE UNCHANGED vars
    BY <1>1, Zenon DEF vars, IInv, CounterTypes, CountersChase, Order, Chase, Ahead
  <1>2. CASE Next
    <2>1. CASE \E start \in LWords : buff_init(start)
      BY <2>1, InitStep, Zenon
    <2>2. CASE ~ \E start \in LWords : buff_init(start)
      BY <1>2, <2>2, UninitialisedStep, InitialisedStep, Zenon DEF IInv, CounterTypes
    <2> QED BY <2>1, <2>2, Zenon
  <1> QED BY <1>1, <1>2, Zenon

\* The invariant gives the relation between the lengths.
LEMMA IInvLengths == IInv => LengthsAgree
  <1> SUFFICES ASSUME IInv PROVE LengthsAgree
    OBVIOUS
  <1>1. CASE len = 0
    BY <1>1, LengthsBefore
       DEF IInv, CountersChase, LengthsAgree
  <1>2. CASE len = CBUFFLEN
    <2>0. PICK d \in Slots : Ahead(d) /\ (~stray => \E t \in 0 .. d : Chase(d, t))
      BY <1>2, LenFits DEF IInv, CountersChase, Order
    <2>1. out \in LWords
      BY Zenon DEF IInv, CounterTypes
    <2>2. buff_dlen = d /\ buff_freelen = CBUFFLEN - 1 - d
      BY <1>2, <2>0, <2>1, AheadLengths, Zenon
    <2>3. ASSUME ~stray PROVE buff_trylen + buff_untriedlen = buff_dlen
      <3>1. PICK t \in 0 .. d : Chase(d, t)
        BY <2>0, <2>3, Zenon
      <3>2. buff_trylen = t /\ buff_untriedlen = d - t
        BY <1>2, <2>1, <3>1, Lengths, Zenon
      <3> QED BY <2>2, <3>2, LenFits DEF Slots
    <2>4. buff_dlen + buff_freelen = CBUFFLEN - 1
      BY <2>2, LenFits DEF Slots
    <2> QED BY <1>2, <2>3, <2>4, LenFits DEF LengthsAgree
  <1> QED BY <1>1, <1>2, Zenon DEF IInv, CounterTypes

-----------------------------------------------------------------------------
(***************************************************************************)
(* in stays less than a length ahead of out on the circle of LWORDs under  *)
(* every sequence of operations of buff.c that takes out only what is      *)
(* there, for every buffer length and every start value, wrapping          *)
(* included; trial stays between them until buff_outb takes an untried     *)
(* byte, and is back as soon as buff_clrtrial, buff_init or a buff_out     *)
(* with untried data left puts it to out.                                  *)
(***************************************************************************)
THEOREM CountersStayInOrder == Spec => []CountersChase
  <1>1. IInv => CountersChase
    BY Zenon DEF IInv
  <1> QED BY InitIInv, NextIInv, <1>1, PTL DEF Spec

(***************************************************************************)
(* dlen + freelen = len - 1 at every moment of every use of buff.c, and    *)
(* trylen + untriedlen = dlen wherever trial has not been passed by        *)
(* buff_outb: that call on an untried byte, the one app.c makes, is the    *)
(* only one that makes the masked differences disagree.                    *)
(***************************************************************************)
THEOREM LengthsAlwaysAgree == Spec => []LengthsAgree
  <1>1. IInv => LengthsAgree
    BY IInvLengths, Zenon
  <1> QED BY InitIInv, NextIInv, <1>1, PTL DEF Spec

-----------------------------------------------------------------------------
(* The copies stay inside the buffer and the caller's data.                *)

\* The first copy ends at the end of the buffer, the second before `from'.
LEMMA SplitCopy ==
    ASSUME len \in Nat, NEW from \in 0 .. len, NEW n \in 0 .. len
    PROVE  /\ UpToEnd(from, n) \in 0 .. n
           /\ from + UpToEnd(from, n) <= len
           /\ n - UpToEnd(from, n) <= from
  BY DEF UpToEnd, minw

\* buff_in and its memcpy calls write bytes of the caller, and only slots.
LEMMA StoredType ==
    ASSUME data \in [Slots -> Bytes], len \in Nat,
           NEW from \in 0 .. len, NEW n \in 0 .. len,
           NEW m \in Nat, n <= m, NEW s \in [1 .. m -> Bytes]
    PROVE  Stored(from, n, s) \in [Slots -> Bytes]
  <1> DEFINE n1 == UpToEnd(from, n)
  <1>1. n1 \in 0 .. n
    BY SplitCopy, Zenon
  <1> HIDE DEF n1
  <1>2. ASSUME NEW i \in Slots, i \in from .. from + n1 - 1
        PROVE  s[i - from + 1] \in Bytes
    BY <1>1, <1>2, LenFits DEF Slots
  <1>3. ASSUME NEW i \in Slots, i < n - n1
        PROVE  s[n1 + i + 1] \in Bytes
    BY <1>1, <1>3, LenFits DEF Slots
  <1> QED BY <1>2, <1>3, Zenon DEF Stored, n1

\* buff_try and buff_out hand out bytes of the buffer.
LEMMA FetchedType ==
    ASSUME data \in [Slots -> Bytes], len = CBUFFLEN,
           NEW from \in Slots, NEW n \in 0 .. CBUFFLEN
    PROVE  Fetched(from, n) \in [1 .. n -> Bytes]
  <1> DEFINE n1 == UpToEnd(from, n)
  <1>1. n1 \in 0 .. n /\ from + n1 <= CBUFFLEN /\ n - n1 <= from
    <2>1. len \in Nat /\ from \in 0 .. len /\ n \in 0 .. len
      BY LenFits DEF Slots
    <2> QED BY <2>1, SplitCopy, Zenon
  <1> HIDE DEF n1
  <1>2. ASSUME NEW k \in 1 .. n, k <= n1
        PROVE  data[from + k - 1] \in Bytes
    BY <1>1, <1>2, LenFits DEF Slots
  <1>3. ASSUME NEW k \in 1 .. n, ~(k <= n1)
        PROVE  data[k - n1 - 1] \in Bytes
    BY <1>1, <1>3, LenFits DEF Slots
  <1> QED BY <1>2, <1>3, Zenon DEF Fetched, n1

-----------------------------------------------------------------------------
(* The type invariant.                                                     *)


Gots == UNION {[1 .. n -> Bytes] : n \in 0 .. CBUFFLEN}
Ops  == {"none", "init", "clrtrial", "in", "in_null", "inb", "try", "out",
         "outb", "retry"}

\* What an operation records about its call is a call.
LEMMA CallType ==
    ASSUME NEW op \in Ops, NEW arg \in Strings \cup [1 .. 1 -> Bytes],
           NEW ret \in Nat, NEW got \in Gots, Called(op, arg, ret, got)
    PROVE  call' \in Calls
  BY Zenon DEF Called, Calls, Ops, Gots

\* The empty string passes for an absent argument and for nothing returned.
LEMMA NoBytes == <<>> \in Strings /\ <<>> \in Gots
  <1>1. <<>> \in [1 .. 0 -> Bytes]
    OBVIOUS
  <1>2. 0 \in 0 .. MaxArg /\ 0 \in 0 .. CBUFFLEN
    BY ArgAssumption, LenFits
  <1> QED BY <1>1, <1>2, Zenon DEF Strings, Gots

\* How many bytes an operation moves, and that they are bytes of the buffer.
LEMMA MovedType ==
    ASSUME IInv, data \in [Slots -> Bytes], NEW m \in Nat
    PROVE  /\ minw(m, buff_freelen) \in 0 .. len
           /\ minw(m, buff_freelen) <= m
           /\ minw(m, buff_trylen) \in Nat
           /\ Masked(in) \in 0 .. len
           /\ minw(m, buff_untriedlen) \in Nat
           /\ Fetched(Masked(trial), minw(m, buff_untriedlen)) \in Gots
           /\ minw(m, buff_dlen) \in Nat
           /\ Fetched(Masked(out), minw(m, buff_dlen)) \in Gots
  <1>1. CASE len = 0
    <2>1. /\ in = 0 /\ out = 0 /\ trial = 0
          /\ buff_dlen = 0 /\ buff_trylen = 0 /\ buff_untriedlen = 0
          /\ buff_freelen = 0
      BY <1>1, LengthsBefore, Zenon DEF IInv, CountersChase
    <2>2. minw(m, 0) = 0
      BY DEF minw
    <2>3. Masked(0) = 0
      BY <1>1, LenFits, ModUnique, 0 = 0 * WORDMOD + 0 DEF Masked
    <2>4. Fetched(0, 0) \in [1 .. 0 -> Bytes]
      BY DEF Fetched
    <2>5. Fetched(0, 0) \in Gots
      BY <2>4, LenFits DEF Gots
    <2> QED BY <1>1, <2>1, <2>2, <2>3, <2>5
  <1>2. CASE len = CBUFFLEN
    <2>1. CounterTypes
      BY Zenon DEF IInv
    <2>2. buff_dlen \in Slots /\ buff_trylen \in Slots /\ buff_untriedlen \in Slots
      BY <1>2, <2>1, LengthTypes, Zenon
    <2>3. buff_freelen \in 0 .. CBUFFLEN - 1
      BY <1>2, <2>2, LenFits DEF buff_freelen, Slots
    <2>4. /\ minw(m, buff_freelen) \in 0 .. CBUFFLEN
          /\ minw(m, buff_freelen) <= m
          /\ minw(m, buff_trylen) \in 0 .. CBUFFLEN
          /\ minw(m, buff_untriedlen) \in 0 .. CBUFFLEN
          /\ minw(m, buff_dlen) \in 0 .. CBUFFLEN
      BY <2>2, <2>3, LenFits DEF minw, Slots
    <2>5. Masked(in) \in Slots /\ Masked(trial) \in Slots /\ Masked(out) \in Slots
      BY <1>2, MaskedSlot, Zenon DEF IInv, CounterTypes
    <2>6. \A from \in Slots : \A n \in 0 .. CBUFFLEN : Fetched(from, n) \in Gots
      BY <1>2, FetchedType, Zenon DEF Gots
    <2>7. Slots \subseteq 0 .. CBUFFLEN /\ 0 .. CBUFFLEN \subseteq Nat
      BY LenFits DEF Slots
    <2> QED BY <1>2, <2>4, <2>5, <2>6, <2>7, Zenon
  <1> QED BY <1>1, <1>2, Zenon DEF IInv, CounterTypes

\* One step keeps the data and the record of the call well typed.
LEMMA NextTypeOK == TypeOK /\ IInv /\ [Next]_vars => TypeOK'
  <1> SUFFICES ASSUME TypeOK, IInv, [Next]_vars PROVE TypeOK'
    OBVIOUS
  <1>1. CounterTypes'
    BY NextIInv, Zenon DEF IInv
  <1>2. data \in [Slots -> Bytes] /\ call \in Calls /\ len \in Nat
    BY LenFits DEF TypeOK
  <1> SUFFICES data' \in [Slots -> Bytes] /\ call' \in Calls
    BY <1>1, Zenon DEF TypeOK, CounterTypes
  <1>3. \A m \in 0 .. MaxArg : m \in Nat
    BY ArgAssumption
  <1>4. {"init", "clrtrial", "in", "in_null", "inb", "try", "out", "outb",
         "retry"} \subseteq Ops
    BY Zenon DEF Ops
  <1>5. CASE UNCHANGED vars
    BY <1>2, <1>5, Zenon DEF vars
  <1>6. ASSUME NEW start \in LWords, buff_init(start)
        PROVE  data' \in [Slots -> Bytes] /\ call' \in Calls
    BY <1>2, <1>4, <1>6, CallType, NoBytes, Zenon DEF buff_init
  <1>7. CASE buff_clrtrial
    BY <1>2, <1>4, <1>7, CallType, NoBytes, Zenon DEF buff_clrtrial
  <1>8. ASSUME NEW s \in Strings, buff_in(s)
        PROVE  data' \in [Slots -> Bytes] /\ call' \in Calls
    <2> DEFINE n == minw(Len(s), buff_freelen)
    <2>1. Len(s) \in Nat /\ s \in [1 .. Len(s) -> Bytes]
      BY StringLen, Zenon
    <2>2. n \in 0 .. len /\ n <= Len(s) /\ Masked(in) \in 0 .. len
      BY <1>2, <2>1, MovedType, Zenon
    <2>3. n \in Nat
      BY <1>2, <2>2
    <2>4. /\ data' = Stored(Masked(in), n, s)
          /\ Called("in", s, n, <<>>)
      BY <1>8, Zenon DEF buff_in
    <2> HIDE DEF n
    <2>5. data' \in [Slots -> Bytes]
      BY <1>2, <2>1, <2>2, <2>4, StoredType, Zenon
    <2> QED BY <1>4, <2>3, <2>4, <2>5, CallType, NoBytes, Zenon
  <1>9. ASSUME NEW m \in 0 .. MaxArg, buff_in_null(m)
        PROVE  data' \in [Slots -> Bytes] /\ call' \in Calls
    <2>1. minw(m, buff_freelen) \in 0 .. len
      BY <1>2, <1>3, MovedType, Zenon
    <2>2. minw(m, buff_freelen) \in Nat
      BY <1>2, <2>1
    <2> QED BY <1>2, <1>4, <1>9, <2>2, CallType, NoBytes, Zenon DEF buff_in_null
  <1>10. ASSUME NEW m \in 0 .. MaxArg, buff_retry(m)
         PROVE  data' \in [Slots -> Bytes] /\ call' \in Calls
    BY <1>2, <1>3, <1>4, <1>10, MovedType, CallType, NoBytes, Zenon DEF buff_retry
  <1>11. ASSUME NEW m \in 0 .. MaxArg, NEW keep \in BOOLEAN, buff_try(m, keep)
         PROVE  data' \in [Slots -> Bytes] /\ call' \in Calls
    <2>1. /\ minw(m, buff_untriedlen) \in Nat
          /\ Fetched(Masked(trial), minw(m, buff_untriedlen)) \in Gots
      BY <1>2, <1>3, MovedType, Zenon
    <2> QED BY <1>2, <1>4, <1>11, <2>1, CallType, NoBytes, Zenon DEF buff_try
  <1>12. ASSUME NEW m \in 0 .. MaxArg, NEW keep \in BOOLEAN, buff_out(m, keep)
         PROVE  data' \in [Slots -> Bytes] /\ call' \in Calls
    <2>1. /\ minw(m, buff_dlen) \in Nat
          /\ Fetched(Masked(out), minw(m, buff_dlen)) \in Gots
      BY <1>2, <1>3, MovedType, Zenon
    <2> QED BY <1>2, <1>4, <1>12, <2>1, CallType, NoBytes, Zenon DEF buff_out
  <1>13. \A b \in Bytes : <<b>> \in [1 .. 1 -> Bytes] /\ <<b>> \in Gots
    <2>1. \A b \in Bytes : <<b>> \in [1 .. 1 -> Bytes]
      OBVIOUS
    <2>2. 1 \in 0 .. CBUFFLEN
      BY LenFits
    <2> QED BY <2>1, <2>2, Zenon DEF Gots
  <1>14. CASE CheckedInb
    <2>1. PICK b \in Bytes : buff_inb(b)
      BY <1>14, Zenon DEF CheckedInb
    <2>2. data' \in [Slots -> Bytes]
      BY <1>2, <2>1, Zenon DEF buff_inb
    <2> QED BY <1>4, <1>13, <2>1, <2>2, CallType, NoBytes, Zenon DEF buff_inb
  <1>15. CASE CheckedOutb
    <2>1. len = CBUFFLEN
      BY <1>15, LengthsBefore DEF CheckedOutb, IInv, CounterTypes, CountersChase
    <2>2. data[Masked(out)] \in Bytes
      BY <1>2, <2>1, MaskedSlot, Zenon DEF IInv, CounterTypes
    <2> QED BY <1>2, <1>4, <1>13, <1>15, <2>2, CallType, NoBytes, Zenon
            DEF CheckedOutb, buff_outb
  <1> QED
    BY <1>5, <1>6, <1>7, <1>8, <1>9, <1>10, <1>11, <1>12, <1>14, <1>15, Zenon
       DEF Next, BlockNext

(***************************************************************************)
(* Every field of CBUFF keeps its type under every operation of buff.c; in *)
(* particular no copy touches a slot outside the buffer.                   *)
(***************************************************************************)
THEOREM TypeCorrect == Spec => []TypeOK
  <1>1. Init => TypeOK
    <2>1. ASSUME Init PROVE call \in Calls
      BY <2>1, NoBytes, Zenon DEF Init, Calls, Gots
    <2>2. 0 \in LWords
      BY LenFits DEF LWords
    <2> QED BY <2>1, <2>2, ByteAssumption, Zenon DEF Init, TypeOK
  <1> QED BY <1>1, InitIInv, NextIInv, NextTypeOK, PTL DEF Spec

-----------------------------------------------------------------------------
(* Strings of bytes as functions.                                          *)

\* A string of n bytes is a sequence of length n.
LEMMA StringSeq ==
    ASSUME NEW n \in Nat, NEW s \in [1 .. n -> Bytes]
    PROVE  Len(s) = n /\ s \in Seq(Bytes)
  OBVIOUS

\* What \o computes.
LEMMA ConcatIs ==
    ASSUME NEW m \in Nat, NEW n \in Nat,
           NEW q \in [1 .. m -> Bytes], NEW s \in [1 .. n -> Bytes]
    PROVE  q \o s = [k \in 1 .. m + n |-> IF k <= m THEN q[k] ELSE s[k - m]]
  <1> DEFINE r == [k \in 1 .. m + n |-> IF k <= m THEN q[k] ELSE s[k - m]]
  <1>1. q \in Seq(Bytes) /\ s \in Seq(Bytes) /\ Len(q) = m /\ Len(s) = n
    BY StringSeq, Zenon
  <1>2. r \in [1 .. m + n -> Bytes] /\ m + n \in Nat
    OBVIOUS
  <1>3. \A i \in 1 .. m + n : (q \o s)[i] = r[i]
    BY <1>1, ConcatProperties, Zenon
  <1> HIDE DEF r
  <1>4. r \in Seq(Bytes) /\ Len(r) = m + n
    BY <1>2, StringSeq, Zenon
  <1>5. q \o s \in Seq(Bytes) /\ Len(q \o s) = m + n
    BY <1>1
  <1>6. q \o s = r
    BY <1>3, <1>4, <1>5, SeqEqual, Zenon
  <1> QED BY <1>6, Zenon DEF r

\* What SubSeq computes.
LEMMA SubSeqIs ==
    ASSUME NEW m \in Nat, NEW q \in [1 .. m -> Bytes],
           NEW i \in 1 .. m + 1, NEW j \in i - 1 .. m
    PROVE  SubSeq(q, i, j) = [k \in 1 .. j - i + 1 |-> q[k + i - 1]]
  BY StringSeq

\* No bytes: nothing is its length.
LEMMA LenOfNone == Len(<<>>) = 0
  OBVIOUS

\* A string without bytes.
LEMMA NoString ==
    /\ \A s : SubSeq(s, 1, 0) = <<>>
    /\ <<>> \o <<>> = <<>> /\ Len(<<>>) = 0
  OBVIOUS

-----------------------------------------------------------------------------
(* Slots.                                                                  *)

Slot(a, k) == Plus(a, k) % CBUFFLEN

\* The k-th slot from counter a on: the counter may wrap and the slot may
\* wrap, but not in a way that tells, for the length divides the modulus.
LEMMA SlotIs ==
    ASSUME NEW a \in LWords, NEW k \in Slots
    PROVE  /\ a % CBUFFLEN \in Slots
           /\ Slot(a, k) = IF (a % CBUFFLEN) + k < CBUFFLEN
                           THEN (a % CBUFFLEN) + k
                           ELSE (a % CBUFFLEN) + k - CBUFFLEN
  <1>0. /\ CBUFFLEN \in Nat \ {0} /\ LWORDMOD \in Nat /\ a \in Nat
        /\ k \in 0 .. LWORDMOD /\ k \in 0 .. CBUFFLEN - 1
    BY LenFits DEF LWords, Slots
  <1>1. PICK c \in 1 .. LWORDMOD : LWORDMOD = c * CBUFFLEN
    BY WrapAssumption, Zenon
  <1> DEFINE m == a % CBUFFLEN
             q == a \div CBUFFLEN
  <1>2. m \in 0 .. CBUFFLEN - 1 /\ q \in Int /\ a = q * CBUFFLEN + m
    BY <1>0
  <1>3. Plus(a, k) = IF a + k < LWORDMOD THEN a + k ELSE a + k - LWORDMOD
    BY <1>0, PlusWraps, Zenon
  <1> HIDE DEF m, q
  <1>4. PICK p \in Int : Plus(a, k) = p * CBUFFLEN + (m + k)
    <2>1. CASE a + k < LWORDMOD
      BY <1>0, <1>2, <1>3, <2>1
    <2>2. CASE ~(a + k < LWORDMOD)
      <3>1. (q - c) * CBUFFLEN = q * CBUFFLEN - c * CBUFFLEN
        BY <1>0, <1>1, <1>2
      <3>2. a + k - LWORDMOD = (q - c) * CBUFFLEN + (m + k) /\ q - c \in Int
        BY <1>0, <1>1, <1>2, <3>1
      <3> QED BY <1>3, <2>2, <3>2, Zenon
    <2> QED BY <2>1, <2>2, Zenon
  <1>5. CASE m + k < CBUFFLEN
    <2>1. m + k \in 0 .. CBUFFLEN - 1 /\ Plus(a, k) \in Int
      BY <1>0, <1>2, <1>5, <1>4
    <2>2. Plus(a, k) % CBUFFLEN = m + k
      BY <1>0, <1>4, <2>1, ModUnique, Zenon
    <2> QED BY <1>2, <1>5, <2>2, Zenon DEF Slot, Slots, m
  <1>6. CASE ~(m + k < CBUFFLEN)
    <2>1. /\ m + k - CBUFFLEN \in 0 .. CBUFFLEN - 1 /\ Plus(a, k) \in Int
          /\ p + 1 \in Int
      BY <1>0, <1>2, <1>6, <1>4
    <2>2. Plus(a, k) = (p + 1) * CBUFFLEN + (m + k - CBUFFLEN)
      BY <1>0, <1>2, <1>4
    <2>3. Plus(a, k) % CBUFFLEN = m + k - CBUFFLEN
      BY <1>0, <2>1, <2>2, ModUnique, Zenon
    <2> QED BY <1>2, <1>6, <2>3, Zenon DEF Slot, Slots, m
  <1> QED BY <1>5, <1>6, Zenon

\* It is a slot.
LEMMA SlotType ==
    ASSUME NEW a \in LWords, NEW k \in Slots
    PROVE  Slot(a, k) \in Slots
  <1> DEFINE m == a % CBUFFLEN
  <1>1. m \in Slots /\ Slot(a, k) = IF m + k < CBUFFLEN THEN m + k ELSE m + k - CBUFFLEN
    BY SlotIs, Zenon
  <1> HIDE DEF m
  <1> QED BY <1>1, LenFits DEF Slots

\* Places less than a length apart are different slots.
LEMMA SlotsDiffer ==
    ASSUME NEW a \in LWords, NEW i \in Slots, NEW j \in Slots, i # j
    PROVE  Slot(a, i) # Slot(a, j) /\ Slot(a, i) \in Slots
  BY SlotIs, LenFits DEF Slots

\* Places counted from in are places counted from out.
LEMMA SlotMoved ==
    ASSUME NEW a \in LWords, NEW m \in Slots, NEW k \in Slots, m + k \in Slots
    PROVE  Slot(Plus(a, m), k) = Slot(a, m + k)
  BY PlusPlus, Zenon DEF Slot

\* Reading n bytes from a counter on, however the copy is split.
LEMMA FetchedIs ==
    ASSUME len = CBUFFLEN, NEW a \in LWords, NEW n \in Slots
    PROVE  Fetched(Masked(a), n) = [k \in 1 .. n |-> data[Slot(a, k - 1)]]
  <1> DEFINE from == Masked(a)
             n1   == UpToEnd(from, n)
  <1>0. from = a % CBUFFLEN /\ CBUFFLEN \in Nat
    BY LenFits DEF Masked
  <1>1. from \in Slots
    BY <1>0, SlotIs, LenFits, Zenon DEF Slots
  <1>2. n1 = IF n < CBUFFLEN - from THEN n ELSE CBUFFLEN - from
    BY Zenon DEF UpToEnd, minw
  <1> HIDE DEF from, n1
  <1>3. ASSUME NEW k \in 1 .. n
        PROVE  Slot(a, k - 1) = IF k <= n1 THEN from + k - 1 ELSE k - n1 - 1
    <2>1. k - 1 \in Slots
      BY LenFits DEF Slots
    <2>2. Slot(a, k - 1) = IF from + (k - 1) < CBUFFLEN THEN from + (k - 1)
                           ELSE from + (k - 1) - CBUFFLEN
      BY <1>0, <2>1, SlotIs, Zenon
    <2> QED BY <1>0, <1>1, <1>2, <2>2 DEF Slots
  <1>4. Fetched(from, n) = [k \in 1 .. n |-> IF k <= n1 THEN data[from + k - 1]
                                             ELSE data[k - n1 - 1]]
    BY Zenon DEF Fetched, n1
  <1>5. \A k \in 1 .. n : (IF k <= n1 THEN data[from + k - 1] ELSE data[k - n1 - 1])
                            = data[Slot(a, k - 1)]
    BY <1>3, Zenon
  <1> QED BY <1>4, <1>5, Zenon DEF from

\* Writing n bytes from a counter on, however the copy is split: they arrive
\* in order and no other place changes.
LEMMA StoredIs ==
    ASSUME len = CBUFFLEN, NEW a \in LWords, NEW n \in Slots, NEW s,
           NEW k \in Slots
    PROVE  Stored(Masked(a), n, s)[Slot(a, k)] =
             IF k < n THEN s[k + 1] ELSE data[Slot(a, k)]
  <1> DEFINE from == Masked(a)
             n1   == UpToEnd(from, n)
             i    == Slot(a, k)
  <1>0. from = a % CBUFFLEN /\ CBUFFLEN \in Nat
    BY LenFits DEF Masked
  <1>1. from \in Slots
    BY <1>0, SlotIs, LenFits, Zenon DEF Slots
  <1>2. n1 = IF n < CBUFFLEN - from THEN n ELSE CBUFFLEN - from
    BY Zenon DEF UpToEnd, minw
  <1>3. i = IF from + k < CBUFFLEN THEN from + k ELSE from + k - CBUFFLEN
    BY <1>0, SlotIs, Zenon
  <1>4. Stored(from, n, s) =
          [j \in Slots |-> IF j \in from .. from + n1 - 1 THEN s[j - from + 1]
                           ELSE IF j < n - n1 THEN s[n1 + j + 1] ELSE data[j]]
    BY Zenon DEF Stored
  <1> HIDE DEF from, n1, i
  <1>5. i \in Slots
    BY <1>0, <1>1, <1>3 DEF Slots
  <1>6. Stored(from, n, s)[i] = IF i \in from .. from + n1 - 1 THEN s[i - from + 1]
                                ELSE IF i < n - n1 THEN s[n1 + i + 1] ELSE data[i]
    BY <1>4, <1>5, Zenon
  <1>7. CASE k < n /\ from + k < CBUFFLEN
    <2>1. i \in from .. from + n1 - 1 /\ i - from + 1 = k + 1
      BY <1>0, <1>1, <1>2, <1>3, <1>7 DEF Slots
    <2> QED BY <1>6, <1>7, <2>1, Zenon DEF from, i
  <1>8. CASE k < n /\ ~(from + k < CBUFFLEN)
    <2>1. /\ i \notin from .. from + n1 - 1 /\ i < n - n1 /\ n1 + i + 1 = k + 1
      BY <1>0, <1>1, <1>2, <1>3, <1>8 DEF Slots
    <2> QED BY <1>6, <1>8, <2>1, Zenon DEF from, i
  <1>9. CASE ~(k < n)
    <2>1. i \notin from .. from + n1 - 1 /\ ~(i < n - n1)
      BY <1>0, <1>1, <1>2, <1>3, <1>9 DEF Slots
    <2> QED BY <1>6, <1>9, <2>1, Zenon DEF from, i
  <1> QED BY <1>7, <1>8, <1>9, Zenon

-----------------------------------------------------------------------------
(* The state of the queue.                                                 *)

\* In an initialised buffer that is d bytes long.
QueueState ==
    \A d \in Slots :
        len = CBUFFLEN /\ TypeOK /\ Ahead(d) =>
            /\ room = CBUFFLEN - 1
            /\ held = [k \in 1 .. d |-> data[Slot(out, k - 1)]]
            /\ held \in [1 .. d -> Bytes]

\* Where trial is when t of the bytes are on trial.
CursorState ==
    \A d \in Slots : \A t \in 0 .. d :
        len = CBUFFLEN /\ TypeOK /\ Chase(d, t) /\ ~stray => cursor = t

\* Before buff_init it is an empty queue without room.
EmptyState ==
    len = 0 /\ in = 0 /\ out = 0 /\ trial = 0 /\ ~stray =>
        room = 0 /\ cursor = 0 /\ held = <<>>

\* The queue the counters describe.
LEMMA QueueStateHolds == QueueState
  <1> SUFFICES ASSUME NEW d \in Slots, len = CBUFFLEN, TypeOK, Ahead(d)
               PROVE  /\ room = CBUFFLEN - 1
                      /\ held = [k \in 1 .. d |-> data[Slot(out, k - 1)]]
                      /\ held \in [1 .. d -> Bytes]
    BY Zenon DEF QueueState
  <1>1. out \in LWords /\ data \in [Slots -> Bytes] /\ CBUFFLEN # 0
    BY LenFits DEF TypeOK
  <1>2. buff_dlen = d
    BY <1>1, AheadLengths, Zenon
  <1>3. held = [k \in 1 .. d |-> data[Slot(out, k - 1)]]
    BY <1>1, <1>2, Zenon DEF held, Held, Masked, Slot
  <1>4. ASSUME NEW k \in 1 .. d PROVE data[Slot(out, k - 1)] \in Bytes
    <2>1. k - 1 \in Slots
      BY LenFits DEF Slots
    <2>2. Slot(out, k - 1) \in Slots
      BY <1>1, <2>1, SlotType, Zenon
    <2> QED BY <1>1, <2>2, Zenon
  <1> QED BY <1>1, <1>3, <1>4, Zenon DEF room

\* The cursor the counters describe.
LEMMA CursorStateHolds == CursorState
  <1> SUFFICES ASSUME NEW d \in Slots, NEW t \in 0 .. d,
                      len = CBUFFLEN, TypeOK, Chase(d, t), ~stray
               PROVE  cursor = t
    BY Zenon DEF CursorState
  <1>1. buff_trylen = t
    BY Lengths, Zenon DEF TypeOK
  <1> QED BY <1>1, Zenon DEF cursor

\* The queue before buff_init.
LEMMA EmptyStateHolds == EmptyState
  <1> SUFFICES ASSUME len = 0, in = 0, out = 0, trial = 0, ~stray
               PROVE  room = 0 /\ cursor = 0 /\ held = <<>>
    BY Zenon DEF EmptyState
  <1>1. buff_dlen = 0 /\ buff_trylen = 0
    BY LengthsBefore, Zenon
  <1>2. held = <<>>
    BY <1>1 DEF held, Held
  <1> QED BY <1>1, <1>2, Zenon DEF room, cursor

\* They hold in the next state too.
LEMMA QueueStatesNext == QueueState' /\ CursorState' /\ EmptyState'
  BY QueueStateHolds, CursorStateHolds, EmptyStateHolds, PTL

\* What the caller gets is what the queue returns.
LEMMA ReturnsIs ==
    ASSUME NEW op, NEW arg, NEW ret, NEW got, Called(op, arg, ret, got)
    PROVE  Fifo!Returns(op, arg, ret, got)
  BY DEF Called, Fifo!Returns

\* A number of bytes on trial is not the place of a lost cursor.
LEMMA NotLost == \A t \in Nat : t # Fifo!Lost
  BY DEF Fifo!Lost

\* The smaller of two numbers has two names.
LEMMA SmallerIs == \A a, b : Fifo!Smaller(a, b) = minw(a, b)
  BY Zenon DEF Fifo!Smaller, minw

-----------------------------------------------------------------------------
(* Every operation is one of the queue.                                    *)

\* buff_init empties the queue.
LEMMA InitialiseSimulated ==
    ASSUME TypeOK', NEW start \in LWords, buff_init(start)
    PROVE  Fifo!Initialise
  <1>1. /\ len' = CBUFFLEN /\ out' \in LWords /\ in' = out' /\ trial' = out' /\ ~stray'
        /\ Called("init", <<>>, 0, <<>>)
    BY Zenon DEF buff_init
  <1>2. Plus(out', 0) = out'
    BY <1>1, PlusWraps, LenFits DEF LWords
  <1>3. Chase(0, 0)' /\ 0 \in Slots /\ 0 \in 0 .. 0
    BY <1>1, <1>2, LenFits DEF Chase, Ahead, Slots
  <1>4. /\ room' = CBUFFLEN - 1
        /\ held' = [k \in 1 .. 0 |-> data'[Slot(out', k - 1)]]
    BY <1>1, <1>3, QueueStatesNext, Zenon DEF QueueState, Chase
  <1>6. cursor' = 0
    BY <1>1, <1>3, QueueStatesNext, Zenon DEF CursorState
  <1>5. held' = <<>>
    BY <1>4
  <1> QED BY <1>1, <1>4, <1>5, <1>6, ReturnsIs, Zenon DEF Fifo!Initialise

\* Before buff_init every operation finds no room and no bytes.
LEMMA UninitialisedSimulated ==
    ASSUME IInv, len = 0, Next, ~ \E start \in LWords : buff_init(start)
    PROVE  Fifo!Next
  <1>1. in = 0 /\ out = 0 /\ trial = 0 /\ ~stray
    BY Zenon DEF IInv, CountersChase
  <1>2. /\ buff_dlen = 0 /\ buff_trylen = 0 /\ buff_untriedlen = 0
        /\ buff_freelen = 0
    BY <1>1, LengthsBefore, Zenon
  <1>3. room = 0 /\ held = <<>> /\ cursor = 0
    BY <1>1, EmptyStateHolds, Zenon DEF EmptyState
  <1>4. IInv' /\ len' = 0
    BY UninitialisedStep, Zenon
  <1>5. in' = 0 /\ out' = 0 /\ trial' = 0 /\ ~stray'
    BY <1>4, Zenon DEF IInv, CountersChase
  <1>6. room' = 0 /\ cursor' = 0 /\ held' = <<>>
    BY <1>4, <1>5, QueueStatesNext, Zenon DEF EmptyState
  <1>7. \A m \in Nat : minw(m, 0) = 0 /\ Fifo!Smaller(m, 0) = 0
    BY DEF minw, Fifo!Smaller
  <1>8. UNCHANGED <<room, held, cursor>>
    BY <1>3, <1>6, Zenon
  <1>9. /\ Len(held) = 0 /\ room - Len(held) = 0 /\ Len(held) - cursor = 0
        /\ cursor + 0 = 0 /\ cursor - 0 = 0 /\ cursor # Fifo!Lost
    <2>1. Len(held) = 0
      BY <1>3, Zenon, LenOfNone
    <2>2. 0 - 0 = 0 /\ 0 + 0 = 0
      OBVIOUS
    <2> QED BY <1>3, <2>1, <2>2, NotLost, 0 \in Nat, Zenon
  <1>10. CASE buff_clrtrial
    BY <1>6, <1>8, <1>10, ReturnsIs, Zenon DEF buff_clrtrial, Fifo!Next, Fifo!Clear
  <1>11. ASSUME NEW s \in Strings, buff_in(s) PROVE Fifo!Next
    <2>1. PICK m \in 0 .. MaxArg : s \in [1 .. m -> Bytes]
      BY <1>11, Zenon DEF Strings
    <2>2. Len(s) = m /\ m \in Nat
      BY <2>1, ArgAssumption, StringSeq
    <2>3. Called("in", s, 0, <<>>)
      BY <1>2, <1>7, <1>11, <2>2, Zenon DEF buff_in
    <2>4. Fifo!Put("in", s)
      BY <1>3, <1>6, <1>7, <1>8, <1>9, <2>2, <2>3, NoString, ReturnsIs, Zenon
         DEF Fifo!Put, Fifo!Prefix
    <2> QED BY <2>1, <2>4, Zenon DEF Fifo!Next, Fifo!Strings
  <1>12. ASSUME NEW m \in 0 .. MaxArg,
                \/ buff_in_null(m) \/ buff_retry(m)
                \/ \E keep \in BOOLEAN : buff_try(m, keep) \/ buff_out(m, keep)
         PROVE  Fifo!Next
    <2>0. m \in Nat /\ minw(m, 0) = 0 /\ Fifo!Smaller(m, 0) = 0
      BY <1>7, ArgAssumption
    <2>1. CASE buff_in_null(m)
      <3>1. Called("in_null", <<>>, 0, <<>>)
        BY <1>2, <2>0, <2>1, Zenon DEF buff_in_null
      <3>2. <<>> \in Fifo!Strings(0) /\ held' = held \o <<>>
        BY <1>3, <1>6, NoString DEF Fifo!Strings
      <3>3. Fifo!Reserve(m)
        BY <1>8, <1>9, <2>0, <3>1, <3>2, ReturnsIs, Zenon DEF Fifo!Reserve
      <3> QED BY <3>3, Zenon DEF Fifo!Next
    <2>2. CASE buff_retry(m)
      <3>1. Called("retry", <<>>, 0, <<>>)
        BY <1>2, <2>0, <2>2, Zenon DEF buff_retry
      <3>2. Fifo!Smaller(m, cursor) = 0
        BY <1>3, <2>0, Zenon
      <3>3. Fifo!Retry(m)
        BY <1>3, <1>8, <1>9, <3>1, <3>2, ReturnsIs, Zenon DEF Fifo!Retry
      <3> QED BY <3>3, Zenon DEF Fifo!Next
    <2>3. ASSUME NEW keep \in BOOLEAN, buff_try(m, keep) PROVE Fifo!Next
      <3>1. Fetched(Masked(trial), 0) = <<>>
        BY DEF Fetched
      <3>2. Called("try", <<>>, 0, <<>>)
        BY <1>2, <2>0, <2>3, <3>1, Zenon DEF buff_try
      <3>3. SubSeq(held, cursor + 1, cursor + 0) = <<>>
        BY <1>3, NoString
      <3>4. Fifo!Try(m, keep)
        BY <1>3, <1>8, <1>9, <2>0, <3>2, <3>3, ReturnsIs, Zenon DEF Fifo!Try
      <3> QED BY <3>4, Zenon DEF Fifo!Next
    <2>4. ASSUME NEW keep \in BOOLEAN, buff_out(m, keep) PROVE Fifo!Next
      <3>1. Fetched(Masked(out), 0) = <<>>
        BY DEF Fetched
      <3>2. Called("out", <<>>, 0, <<>>)
        BY <1>2, <2>0, <2>4, <3>1, Zenon DEF buff_out
      <3>3. SubSeq(held, 1, 0) = <<>> /\ SubSeq(held, 0 + 1, Len(held)) = <<>>
        BY <1>9, NoString
      <3>4. Fifo!Out(m, keep)
        BY <1>3, <1>6, <1>8, <1>9, <2>0, <3>2, <3>3, ReturnsIs, Zenon
           DEF Fifo!Out, Fifo!Remove, Fifo!Prefix, Fifo!Suffix
      <3> QED BY <3>4, Zenon DEF Fifo!Next
    <2> QED BY <1>12, <2>1, <2>2, <2>3, <2>4, Zenon
  <1> QED BY <1>2, <1>10, <1>11, <1>12 DEF Next, BlockNext, CheckedInb, CheckedOutb

\* The bytes written from in on join the queue.
LEMMA Appended ==
    ASSUME TypeOK, TypeOK', len = CBUFFLEN, len' = CBUFFLEN,
           NEW d \in Slots, Ahead(d),
           NEW n \in 0 .. CBUFFLEN - 1 - d,
           in' = Plus(in, n), UNCHANGED <<out, trial, stray>>,
           NEW s \in [1 .. n -> Bytes],
           \A k \in 0 .. n - 1 : data'[Slot(in, k)] = s[k + 1],
           \A k \in n .. CBUFFLEN - 1 : data'[Slot(in, k)] = data[Slot(in, k)]
    PROVE  held' = held \o s /\ UNCHANGED <<room, cursor>>
  <1>0. /\ CBUFFLEN \in Nat /\ d \in 0 .. CBUFFLEN - 1 /\ n \in Nat /\ d \in Nat
        /\ out \in LWords /\ in = Plus(out, d) /\ n \in Slots
    BY LenFits DEF Slots, TypeOK, Ahead
  <1>1. d + n \in Slots /\ Ahead(d + n)'
    BY <1>0, MoveIn, Zenon
  <1>2. /\ room = CBUFFLEN - 1
        /\ held = [k \in 1 .. d |-> data[Slot(out, k - 1)]]
        /\ held \in [1 .. d -> Bytes]
    BY QueueStateHolds, Zenon DEF QueueState
  <1>3. /\ room' = CBUFFLEN - 1
        /\ held' = [k \in 1 .. d + n |-> data'[Slot(out, k - 1)]]
    BY <1>1, QueueStatesNext, Zenon DEF QueueState
  <1>4. held \o s = [k \in 1 .. d + n |-> IF k <= d THEN held[k] ELSE s[k - d]]
    BY <1>0, <1>2, ConcatIs, Zenon
  <1>5. ASSUME NEW k \in 1 .. d + n
        PROVE  data'[Slot(out, k - 1)] = IF k <= d THEN held[k] ELSE s[k - d]
    <2>1. CASE k <= d
      \* This place is CBUFFLEN - d + k - 1 places after in, once around.
      <3>1. PICK j \in n .. CBUFFLEN - 1 : Slot(in, j) = Slot(out, k - 1)
        <4> DEFINE m == out % CBUFFLEN
                   p == in % CBUFFLEN
                   j == CBUFFLEN - d + (k - 1)
        <4>1. j \in n .. CBUFFLEN - 1 /\ j \in Slots /\ k - 1 \in Slots
          BY <1>0, <2>1 DEF Slots
        <4>2. /\ m \in Slots
              /\ Slot(out, k - 1) = IF m + (k - 1) < CBUFFLEN THEN m + (k - 1)
                                    ELSE m + (k - 1) - CBUFFLEN
          BY <1>0, <4>1, SlotIs, Zenon
        <4>3. p = IF m + d < CBUFFLEN THEN m + d ELSE m + d - CBUFFLEN
          BY <1>0, SlotIs, Zenon DEF Slot
        <4>4. in \in LWords
          BY Zenon DEF TypeOK
        <4>5. Slot(in, j) = IF p + j < CBUFFLEN THEN p + j ELSE p + j - CBUFFLEN
          BY <4>1, <4>4, SlotIs, Zenon
        <4> HIDE DEF m, p
        <4>6. Slot(in, j) = Slot(out, k - 1)
          BY <1>0, <2>1, <4>1, <4>2, <4>3, <4>5 DEF Slots
        <4> QED BY <4>1, <4>6, Zenon
      <3>2. data'[Slot(out, k - 1)] = data[Slot(out, k - 1)]
        BY <3>1, Zenon
      <3> QED BY <1>2, <2>1, <3>2
    <2>2. CASE ~(k <= d)
      <3>1. k - d - 1 \in 0 .. n - 1 /\ k - d - 1 \in Slots /\ d + (k - d - 1) = k - 1
        BY <1>0, <2>2 DEF Slots
      <3>2. k - 1 \in Slots
        BY <1>0, <1>1, <2>2 DEF Slots
      <3>3. Slot(in, k - d - 1) = Slot(out, k - 1)
        BY <1>0, <3>1, <3>2, SlotMoved
      <3>4. data'[Slot(in, k - d - 1)] = s[(k - d - 1) + 1]
        BY <3>1, Zenon
      <3>5. (k - d - 1) + 1 = k - d
        BY <1>0, <2>2
      <3> QED BY <2>2, <3>3, <3>4, <3>5, Zenon
    <2> QED BY <2>1, <2>2, Zenon
  <1>6. held' = held \o s
    BY <1>3, <1>4, <1>5, Zenon
  <1>7. UNCHANGED cursor
    BY Zenon DEF cursor, buff_trylen, Masked, Minus
  <1> QED BY <1>2, <1>3, <1>6, <1>7, Zenon

\* buff_in appends what fits.
LEMMA InSimulated ==
    ASSUME TypeOK, TypeOK', len = CBUFFLEN,
           NEW d \in Slots, Ahead(d),
           NEW m \in Nat, NEW s \in [1 .. m -> Bytes], buff_in(s)
    PROVE  Fifo!Put("in", s)
  <1> DEFINE n == minw(m, CBUFFLEN - 1 - d)
  <1>0. /\ CBUFFLEN \in Nat /\ d \in 0 .. CBUFFLEN - 1 /\ Len(s) = m
        /\ out \in LWords /\ in \in LWords
    BY LenFits, StringSeq, Zenon DEF Slots, TypeOK
  <1>1. buff_freelen = CBUFFLEN - 1 - d
    BY <1>0, AheadLengths, Zenon
  <1>2. /\ data' = Stored(Masked(in), n, s) /\ in' = Plus(in, n)
        /\ Called("in", s, n, <<>>) /\ UNCHANGED <<len, out, trial, stray>>
    BY <1>0, <1>1, Zenon DEF buff_in
  <1>3. n \in 0 .. CBUFFLEN - 1 - d /\ n \in 0 .. m /\ n \in Nat /\ n \in Slots
    BY <1>0 DEF minw, Slots
  <1> HIDE DEF n
  <1>4. SubSeq(s, 1, n) = [k \in 1 .. n - 1 + 1 |-> s[k + 1 - 1]]
    BY <1>3, SubSeqIs
  <1>5. /\ SubSeq(s, 1, n) \in [1 .. n -> Bytes]
        /\ \A k \in 1 .. n : SubSeq(s, 1, n)[k] = s[k]
    <2>1. n - 1 + 1 = n /\ \A k \in 1 .. n : k + 1 - 1 = k /\ k \in 1 .. m
      BY <1>3
    <2>2. SubSeq(s, 1, n) = [k \in 1 .. n |-> s[k]]
      BY <1>4, <2>1, Zenon
    <2> QED BY <2>1, <2>2, Zenon
  <1>6. \A k \in Slots : data'[Slot(in, k)] = IF k < n THEN s[k + 1] ELSE data[Slot(in, k)]
    BY <1>0, <1>2, <1>3, StoredIs
  <1>7. \A k \in 0 .. n - 1 : data'[Slot(in, k)] = SubSeq(s, 1, n)[k + 1]
    <2>1. \A k \in 0 .. n - 1 : k \in Slots /\ k < n /\ k + 1 \in 1 .. n
      BY <1>0, <1>3 DEF Slots
    <2> QED BY <1>5, <1>6, <2>1, Zenon
  <1>8. \A k \in n .. CBUFFLEN - 1 : data'[Slot(in, k)] = data[Slot(in, k)]
    <2>1. \A k \in n .. CBUFFLEN - 1 : k \in Slots /\ ~(k < n)
      BY <1>0, <1>3 DEF Slots
    <2> QED BY <1>6, <2>1, Zenon
  <1>9. held' = held \o SubSeq(s, 1, n) /\ UNCHANGED <<room, cursor>>
    BY <1>2, <1>3, <1>5, <1>7, <1>8, Appended, Zenon
  <1>10. room = CBUFFLEN - 1 /\ held \in [1 .. d -> Bytes]
    BY QueueStateHolds, Zenon DEF QueueState
  <1>11. Len(held) = d
    BY <1>0, <1>10, StringSeq
  <1>12. Fifo!Smaller(Len(s), room - Len(held)) = n
    BY <1>0, <1>10, <1>11, SmallerIs, Zenon DEF n
  <1> QED BY <1>2, <1>9, <1>12, ReturnsIs, Zenon DEF Fifo!Put, Fifo!Prefix

\* buff_inb appends its byte.
LEMMA InbSimulated ==
    ASSUME TypeOK, TypeOK', len = CBUFFLEN,
           NEW d \in Slots, Ahead(d), buff_freelen > 0,
           NEW b \in Bytes, buff_inb(b)
    PROVE  Fifo!Put("inb", <<b>>) /\ Len(held) < room
  <1>0. /\ CBUFFLEN \in Nat /\ d \in 0 .. CBUFFLEN - 1
        /\ out \in LWords /\ in \in LWords /\ data \in [Slots -> Bytes]
    BY LenFits, Zenon DEF Slots, TypeOK
  <1>1. buff_freelen = CBUFFLEN - 1 - d
    BY <1>0, AheadLengths, Zenon
  <1>2. 1 \in 0 .. CBUFFLEN - 1 - d /\ 0 \in Slots
    BY <1>0, <1>1 DEF Slots
  <1>3. /\ data' = [data EXCEPT ![Slot(in, 0)] = b] /\ in' = Plus(in, 1)
        /\ Called("inb", <<b>>, 1, <<>>) /\ UNCHANGED <<len, out, trial, stray>>
    <2>1. Plus(in, 0) = in
      BY <1>0, PlusWraps, LenFits DEF LWords
    <2>2. Slot(in, 0) = Masked(in)
      BY <2>1, LenFits DEF Slot, Masked
    <2> QED BY <2>2, Zenon DEF buff_inb
  <1>4. \A k \in 0 .. 1 - 1 : data'[Slot(in, k)] = <<b>>[k + 1]
    <2>1. Slot(in, 0) \in Slots
      BY <1>0, <1>2, SlotType, Zenon
    <2> QED BY <1>0, <1>3, <2>1
  <1>5. \A k \in 1 .. CBUFFLEN - 1 : data'[Slot(in, k)] = data[Slot(in, k)]
    <2> TAKE k \in 1 .. CBUFFLEN - 1
    <2>1. k \in Slots /\ k # 0
      BY <1>0 DEF Slots
    <2>2. Slot(in, k) # Slot(in, 0) /\ Slot(in, k) \in Slots
      BY <1>0, <1>2, <2>1, SlotsDiffer, Zenon
    <2> QED BY <1>0, <1>3, <2>2, Zenon
  <1>6. <<b>> \in [1 .. 1 -> Bytes] /\ Len(<<b>>) = 1 /\ SubSeq(<<b>>, 1, 1) = <<b>>
    <2>1. <<b>> \in [1 .. 1 -> Bytes]
      OBVIOUS
    <2>2. Len(<<b>>) = 1
      BY <2>1, StringSeq, Zenon
    <2>3. <<b>> = [k \in 1 .. 1 |-> b]
      OBVIOUS
    <2>4. SubSeq(<<b>>, 1, 1) = [k \in 1 .. 1 - 1 + 1 |-> <<b>>[k + 1 - 1]]
      BY <2>1, SubSeqIs
    <2>5. 1 - 1 + 1 = 1 /\ \A k \in 1 .. 1 : <<b>>[k + 1 - 1] = b
      OBVIOUS
    <2> QED BY <2>1, <2>2, <2>3, <2>4, <2>5, Zenon
  <1>7. held' = held \o <<b>> /\ UNCHANGED <<room, cursor>>
    BY <1>2, <1>3, <1>4, <1>5, <1>6, Appended, Zenon
  <1>8. room = CBUFFLEN - 1 /\ held \in [1 .. d -> Bytes]
    BY QueueStateHolds, Zenon DEF QueueState
  <1>9. Len(held) = d
    BY <1>0, <1>8, StringSeq
  <1>10. Fifo!Smaller(1, room - Len(held)) = 1
    BY <1>0, <1>2, <1>8, <1>9 DEF Fifo!Smaller
  <1>11. Fifo!Put("inb", <<b>>)
    BY <1>3, <1>6, <1>7, <1>10, ReturnsIs, Zenon DEF Fifo!Put, Fifo!Prefix
  <1> QED BY <1>0, <1>2, <1>8, <1>9, <1>11

\* buff_in without data takes room for bytes of the buffer's choice.
LEMMA InNullSimulated ==
    ASSUME TypeOK, TypeOK', len = CBUFFLEN,
           NEW d \in Slots, Ahead(d),
           NEW m \in Nat, buff_in_null(m)
    PROVE  Fifo!Reserve(m)
  <1> DEFINE n == minw(m, CBUFFLEN - 1 - d)
             s == [k \in 1 .. n |-> data[Slot(in, k - 1)]]
  <1>0. /\ CBUFFLEN \in Nat /\ d \in 0 .. CBUFFLEN - 1
        /\ out \in LWords /\ in \in LWords /\ data \in [Slots -> Bytes]
    BY LenFits, Zenon DEF Slots, TypeOK
  <1>1. buff_freelen = CBUFFLEN - 1 - d
    BY <1>0, AheadLengths, Zenon
  <1>2. /\ in' = Plus(in, n) /\ Called("in_null", <<>>, n, <<>>)
        /\ UNCHANGED <<len, out, trial, data, stray>>
    BY <1>1, Zenon DEF buff_in_null
  <1>3. n \in 0 .. CBUFFLEN - 1 - d /\ n \in Nat
    BY <1>0 DEF minw
  <1> HIDE DEF n
  <1>4. \A k \in 1 .. n : data[Slot(in, k - 1)] \in Bytes
    <2> TAKE k \in 1 .. n
    <2>1. k - 1 \in Slots
      BY <1>0, <1>3 DEF Slots
    <2> QED BY <1>0, <2>1, SlotType, Zenon
  <1>5. s \in [1 .. n -> Bytes] /\ \A k \in 0 .. n - 1 : data'[Slot(in, k)] = s[k + 1]
    BY <1>2, <1>3, <1>4
  <1>6. \A k \in n .. CBUFFLEN - 1 : data'[Slot(in, k)] = data[Slot(in, k)]
    BY <1>2, Zenon
  <1> HIDE DEF s
  <1>7. held' = held \o s /\ UNCHANGED <<room, cursor>>
    BY <1>2, <1>3, <1>5, <1>6, Appended, Zenon
  <1>8. room = CBUFFLEN - 1 /\ held \in [1 .. d -> Bytes]
    BY QueueStateHolds, Zenon DEF QueueState
  <1>9. Len(held) = d
    BY <1>0, <1>8, StringSeq
  <1>10. Fifo!Smaller(m, room - Len(held)) = n
    BY <1>0, <1>8, <1>9, SmallerIs, Zenon DEF n
  <1> QED
    BY <1>2, <1>5, <1>7, <1>10, ReturnsIs, Zenon DEF Fifo!Reserve, Fifo!Strings

\* Moving trial alone leaves the queue as it is.
LEMMA TrialMoved ==
    ASSUME UNCHANGED <<len, in, out, data>>
    PROVE  UNCHANGED <<room, held>>
  BY Zenon DEF room, held, Held, buff_dlen, Masked, Minus, Plus

\* buff_clrtrial: nothing is on trial, wherever trial was.
LEMMA ClearSimulated ==
    ASSUME TypeOK, TypeOK', len = CBUFFLEN, NEW d \in Slots, Ahead(d), buff_clrtrial
    PROVE  Fifo!Clear
  <1>0. out \in LWords /\ 0 \in 0 .. d
    BY LenFits DEF TypeOK, Slots
  <1>1. /\ trial' = out /\ Called("clrtrial", <<>>, 0, <<>>) /\ ~stray'
        /\ UNCHANGED <<len, in, out, data>>
    BY Zenon DEF buff_clrtrial
  <1>2. Plus(out, 0) = out
    BY <1>0, PlusWraps, LenFits DEF LWords
  <1>3. Chase(d, 0)'
    BY <1>1, <1>2, Zenon DEF Chase, Ahead
  <1>4. cursor' = 0
    BY <1>0, <1>1, <1>3, QueueStatesNext, Zenon DEF CursorState
  <1> QED BY <1>1, <1>4, TrialMoved, ReturnsIs, Zenon DEF Fifo!Clear

\* buff_retry: the newest bytes on trial become untried.
LEMMA RetrySimulated ==
    ASSUME TypeOK, TypeOK', len = CBUFFLEN, ~stray,
           NEW d \in Slots, NEW t \in 0 .. d, Chase(d, t),
           NEW m \in Nat, buff_retry(m)
    PROVE  Fifo!Retry(m)
  <1> DEFINE n == minw(m, t)
  <1>0. out \in LWords /\ t \in Nat /\ d \in Nat /\ t <= d
    BY LenFits DEF TypeOK, Slots
  <1>1. buff_trylen = t /\ cursor = t
    BY <1>0, Lengths, CursorStateHolds, Zenon DEF CursorState
  <1>2. /\ trial' = Minus(trial, n) /\ Called("retry", <<>>, n, <<>>)
        /\ UNCHANGED <<len, in, out, data, stray>>
    BY <1>1, Zenon DEF buff_retry
  <1>3. n \in 0 .. t /\ Fifo!Smaller(m, cursor) = n
    BY <1>0, <1>1, SmallerIs DEF minw
  <1> HIDE DEF n
  <1>4. t - n \in 0 .. d /\ Chase(d, t - n)'
    BY <1>0, <1>2, <1>3, MoveBack, Zenon
  <1>5. cursor' = t - n
    BY <1>2, <1>4, QueueStatesNext, Zenon DEF CursorState
  <1> QED
    BY <1>0, <1>1, <1>2, <1>3, <1>5, TrialMoved, ReturnsIs, NotLost, Zenon DEF Fifo!Retry

\* buff_try and buff_retry when trial is not in the queue: whatever they count
\* and hand out, the queue stays.
LEMMA LostSimulated ==
    ASSUME TypeOK, len = CBUFFLEN, stray, NEW m \in Nat
    PROVE  /\ buff_retry(m) => Fifo!RetryLost(m)
           /\ \A keep \in BOOLEAN : buff_try(m, keep) => Fifo!TryLost(m, keep)
  <1>0. data \in [Slots -> Bytes] /\ Masked(trial) \in Slots
    BY MaskedSlot, Zenon DEF TypeOK
  <1>1. buff_trylen \in Slots /\ buff_untriedlen \in Slots
    BY LengthTypes, Zenon DEF TypeOK, CounterTypes
  <1>2. /\ minw(m, buff_trylen) \in 0 .. m
        /\ minw(m, buff_untriedlen) \in 0 .. m
        /\ minw(m, buff_untriedlen) \in 0 .. CBUFFLEN
    BY <1>1, LenFits DEF minw, Slots
  <1>3. cursor = Fifo!Lost
    BY Zenon DEF cursor, Fifo!Lost
  <1>4. UNCHANGED stray => UNCHANGED cursor
    BY Zenon DEF cursor
  <1>5. ASSUME buff_retry(m) PROVE Fifo!RetryLost(m)
    BY <1>2, <1>3, <1>4, <1>5, TrialMoved, ReturnsIs, Zenon DEF buff_retry, Fifo!RetryLost
  <1>6. ASSUME NEW keep \in BOOLEAN, buff_try(m, keep) PROVE Fifo!TryLost(m, keep)
    <2> DEFINE n == minw(m, buff_untriedlen)
               s == Fetched(Masked(trial), n)
    <2>1. /\ Called("try", <<>>, n, IF keep THEN s ELSE <<>>)
          /\ UNCHANGED <<len, in, out, data, stray>>
      BY <1>6, Zenon DEF buff_try
    <2>2. n \in 0 .. m /\ s \in [1 .. n -> Bytes]
      BY <1>0, <1>2, FetchedType, Zenon
    <2> HIDE DEF n, s
    <2>3. Fifo!Returns("try", <<>>, n, IF keep THEN s ELSE <<>>)
      BY <2>1, ReturnsIs, Zenon
    <2> QED BY <1>3, <1>4, <2>1, <2>2, <2>3, TrialMoved, Zenon
            DEF Fifo!TryLost, Fifo!Strings
  <1> QED BY <1>5, <1>6, Zenon

\* buff_try hands out the next untried bytes.
LEMMA TrySimulated ==
    ASSUME TypeOK, TypeOK', len = CBUFFLEN, ~stray,
           NEW d \in Slots, NEW t \in 0 .. d, Chase(d, t),
           NEW m \in Nat, NEW keep \in BOOLEAN, buff_try(m, keep)
    PROVE  Fifo!Try(m, keep)
  <1> DEFINE n == minw(m, d - t)
  <1>0. /\ CBUFFLEN \in Nat /\ d \in 0 .. CBUFFLEN - 1 /\ t \in Nat /\ d \in Nat
        /\ t <= d /\ t \in Slots /\ out \in LWords /\ trial \in LWords
        /\ trial = Plus(out, t)
    BY LenFits DEF Slots, TypeOK, Chase
  <1>1. buff_untriedlen = d - t
    BY <1>0, Lengths, Zenon
  <1>2. /\ trial' = Plus(trial, n)
        /\ Called("try", <<>>, n, IF keep THEN Fetched(Masked(trial), n) ELSE <<>>)
        /\ UNCHANGED <<len, in, out, data, stray>>
    BY <1>1, Zenon DEF buff_try
  <1>3. n \in 0 .. d - t /\ n \in Nat /\ n \in Slots /\ t + n \in t .. d
    BY <1>0 DEF minw, Slots
  <1> HIDE DEF n
  <1>4. t + n \in 0 .. d /\ Chase(d, t + n)'
    BY <1>0, <1>2, <1>3, MoveTrial, Zenon
  <1>5. cursor = t /\ cursor' = t + n /\ cursor # Fifo!Lost
    BY <1>0, <1>2, <1>4, CursorStateHolds, QueueStatesNext, NotLost, Zenon DEF CursorState
  <1>6. /\ held = [k \in 1 .. d |-> data[Slot(out, k - 1)]]
        /\ held \in [1 .. d -> Bytes]
    BY QueueStateHolds, Zenon DEF QueueState, Chase
  <1>7. Len(held) = d
    BY <1>0, <1>6, StringSeq, Zenon
  <1>8. Fifo!Smaller(m, Len(held) - cursor) = n
    BY <1>5, <1>7, SmallerIs, Zenon DEF n
  <1>9. Fetched(Masked(trial), n) = SubSeq(held, t + 1, t + n)
    <2>1. Fetched(Masked(trial), n) = [k \in 1 .. n |-> data[Slot(trial, k - 1)]]
      BY <1>0, <1>3, FetchedIs, Zenon
    <2>3. SubSeq(held, t + 1, t + n) = [k \in 1 .. n |-> held[k + (t + 1) - 1]]
      <3> DEFINE i == t + 1
                 j == t + n
      <3>1. i \in 1 .. d + 1 /\ j \in i - 1 .. d /\ j - i + 1 = n
        BY <1>0, <1>3
      <3> HIDE DEF i, j
      <3>2. SubSeq(held, i, j) = [k \in 1 .. j - i + 1 |-> held[k + i - 1]]
        BY <1>0, <1>6, <3>1, SubSeqIs
      <3>3. SubSeq(held, i, j) = [k \in 1 .. n |-> held[k + i - 1]]
        BY <3>1, <3>2, Zenon
      <3> QED BY <3>3, Zenon DEF i, j
    <2>4. ASSUME NEW k \in 1 .. n
          PROVE  data[Slot(trial, k - 1)] = held[k + (t + 1) - 1]
      <3>1. /\ k - 1 \in Slots /\ t + (k - 1) \in Slots
            /\ k + (t + 1) - 1 \in 1 .. d
            /\ (k + (t + 1) - 1) - 1 = t + (k - 1)
        BY <1>0, <1>3 DEF Slots
      <3>2. Slot(trial, k - 1) = Slot(out, t + (k - 1))
        BY <1>0, <3>1, SlotMoved
      <3>3. held[k + (t + 1) - 1] = data[Slot(out, (k + (t + 1) - 1) - 1)]
        BY <1>6, <3>1, Zenon
      <3> QED BY <3>1, <3>2, <3>3, Zenon
    <2> QED BY <2>1, <2>3, <2>4, Zenon
  <1> QED BY <1>2, <1>5, <1>8, <1>9, TrialMoved, ReturnsIs, Zenon DEF Fifo!Try

\* Moving out forward takes the oldest bytes off the queue; they are the ones
\* read from out on.
LEMMA Removed ==
    ASSUME TypeOK, TypeOK', len = CBUFFLEN, UNCHANGED <<len, in, data>>,
           NEW d \in Slots, Ahead(d), NEW n \in 0 .. d, out' = Plus(out, n)
    PROVE  /\ UNCHANGED room /\ Len(held) = d
           /\ held' = SubSeq(held, n + 1, Len(held))
           /\ [k \in 1 .. n |-> data[Slot(out, k - 1)]] = SubSeq(held, 1, n)
  <1>0. /\ CBUFFLEN \in Nat /\ d \in 0 .. CBUFFLEN - 1 /\ d \in Nat /\ n \in Nat
        /\ n \in Slots /\ d - n \in Slots /\ out \in LWords /\ len' = CBUFFLEN
    BY LenFits DEF Slots, TypeOK
  <1>1. /\ room = CBUFFLEN - 1
        /\ held = [k \in 1 .. d |-> data[Slot(out, k - 1)]]
        /\ held \in [1 .. d -> Bytes]
    BY QueueStateHolds, Zenon DEF QueueState
  <1>2. /\ room' = CBUFFLEN - 1
        /\ held' = [k \in 1 .. d - n |-> data[Slot(out', k - 1)]]
    <2>1. Ahead(d - n)'
      BY <1>0, MoveOut, Zenon
    <2> QED BY <1>0, <2>1, QueueStatesNext, Zenon DEF QueueState
  <1>3. Len(held) = d
    BY <1>0, <1>1, StringSeq, Zenon
  <1>4. held' = SubSeq(held, n + 1, d)
    <2>1. n + 1 \in 1 .. d + 1 /\ d \in (n + 1) - 1 .. d /\ d - (n + 1) + 1 = d - n
      BY <1>0
    <2>2. SubSeq(held, n + 1, d) = [k \in 1 .. d - n |-> held[k + (n + 1) - 1]]
      <3>1. SubSeq(held, n + 1, d) =
              [k \in 1 .. d - (n + 1) + 1 |-> held[k + (n + 1) - 1]]
        BY <1>0, <1>1, <2>1, SubSeqIs, Zenon
      <3> QED BY <2>1, <3>1, Zenon
    <2>3. ASSUME NEW k \in 1 .. d - n
          PROVE  data[Slot(out', k - 1)] = held[k + (n + 1) - 1]
      <3>1. /\ k - 1 \in Slots /\ n + (k - 1) \in Slots
            /\ k + (n + 1) - 1 \in 1 .. d
            /\ (k + (n + 1) - 1) - 1 = n + (k - 1)
        BY <1>0 DEF Slots
      <3>2. Slot(out', k - 1) = Slot(out, n + (k - 1))
        BY <1>0, <3>1, SlotMoved, Zenon
      <3>3. held[k + (n + 1) - 1] = data[Slot(out, (k + (n + 1) - 1) - 1)]
        BY <1>1, <3>1, Zenon
      <3> QED BY <3>1, <3>2, <3>3, Zenon
    <2> QED BY <1>2, <2>2, <2>3, Zenon
  <1>5. [k \in 1 .. n |-> data[Slot(out, k - 1)]] = SubSeq(held, 1, n)
    <2>1. 1 \in 1 .. d + 1 /\ n \in 1 - 1 .. d /\ n - 1 + 1 = n
      BY <1>0
    <2>2. SubSeq(held, 1, n) = [k \in 1 .. n |-> held[k + 1 - 1]]
      BY <1>0, <1>1, <2>1, SubSeqIs
    <2>3. ASSUME NEW k \in 1 .. n
          PROVE  data[Slot(out, k - 1)] = held[k + 1 - 1]
      BY <1>0, <1>1
    <2> QED BY <2>2, <2>3, Zenon
  <1> QED BY <1>1, <1>2, <1>3, <1>4, <1>5, Zenon

\* Where trial is after buff_out: at the oldest byte left when there is
\* untried data, and where it was otherwise.
LEMMA OutCursor ==
    ASSUME TypeOK, TypeOK', len = CBUFFLEN, UNCHANGED <<len, in>>,
           NEW d \in Slots, Order(d), NEW n \in 0 .. d, out' = Plus(out, n),
           trial' = IF buff_untriedlen # 0 THEN out' ELSE trial,
           stray' = (stray /\ buff_untriedlen = 0)
    PROVE  cursor' \in {0, IF cursor = Fifo!Lost THEN Fifo!Lost
                           ELSE IF n < cursor THEN cursor - n ELSE 0}
  <1>0. /\ Ahead(d) /\ out \in LWords /\ len' = CBUFFLEN
        /\ (~stray => \E t \in 0 .. d : Chase(d, t))
    BY Zenon DEF TypeOK, Order
  <1>1. CASE buff_untriedlen # 0
    <2>1. ~stray' /\ trial' = out'
      BY <1>1, Zenon
    <2>2. d - n \in Slots /\ 0 \in 0 .. d - n /\ Chase(d - n, 0)'
      BY <1>0, <2>1, MoveOut, Zenon
    <2>3. cursor' = 0
      BY <1>0, <2>1, <2>2, QueueStatesNext, Zenon DEF CursorState
    <2> QED BY <2>3, Zenon
  <1>2. CASE buff_untriedlen = 0 /\ stray
    <2>1. cursor = Fifo!Lost /\ cursor' = Fifo!Lost
      BY <1>2, Zenon DEF cursor, Fifo!Lost
    <2> QED BY <2>1, Zenon
  <1>3. CASE buff_untriedlen = 0 /\ ~stray
    <2>1. PICK t \in 0 .. d : Chase(d, t)
      BY <1>0, <1>3, Zenon
    <2>2. d - t = 0
      BY <1>0, <1>3, <2>1, Lengths, Zenon
    <2>3. n \in 0 .. t /\ t \in Nat /\ d - n \in Slots
      BY <2>2, LenFits DEF Slots
    <2>4. UNCHANGED <<in, trial>> /\ ~stray'
      BY <1>3, Zenon
    <2>5. t - n \in 0 .. d - n /\ Chase(d - n, t - n)'
      BY <1>0, <2>1, <2>3, <2>4, MoveOutTried, Zenon
    <2>6. cursor = t /\ cursor' = t - n
      BY <1>0, <1>3, <2>1, <2>3, <2>4, <2>5, CursorStateHolds, QueueStatesNext, Zenon
         DEF CursorState
    <2>7. t - n = IF n < t THEN t - n ELSE 0
      BY <2>3
    <2> QED BY <2>3, <2>6, <2>7, NotLost, Zenon
  <1> QED BY <1>1, <1>2, <1>3, Zenon

\* buff_out takes the oldest bytes.
LEMMA OutSimulated ==
    ASSUME TypeOK, TypeOK', len = CBUFFLEN, NEW d \in Slots, Order(d),
           NEW m \in Nat, NEW keep \in BOOLEAN, buff_out(m, keep)
    PROVE  Fifo!Out(m, keep)
  <1> DEFINE n == minw(m, d)
  <1>0. d \in Nat /\ out \in LWords /\ Ahead(d)
    BY LenFits DEF Slots, TypeOK, Order
  <1>1. buff_dlen = d
    BY <1>0, AheadLengths, Zenon
  <1>2. /\ out' = Plus(out, n)
        /\ trial' = IF buff_untriedlen # 0 THEN out' ELSE trial
        /\ stray' = (stray /\ buff_untriedlen = 0)
        /\ Called("out", <<>>, n, IF keep THEN Fetched(Masked(out), n) ELSE <<>>)
        /\ UNCHANGED <<len, in, data>>
    BY <1>1, Zenon DEF buff_out
  <1>3. n \in 0 .. d /\ n \in Slots
    BY <1>0, LenFits DEF minw, Slots
  <1>4. Fifo!Smaller(m, d) = n
    BY SmallerIs, Zenon
  <1> HIDE DEF n
  <1>5. cursor' \in {0, IF cursor = Fifo!Lost THEN Fifo!Lost
                        ELSE IF n < cursor THEN cursor - n ELSE 0}
    BY <1>2, <1>3, OutCursor, Zenon
  <1>6. /\ UNCHANGED room /\ Len(held) = d
        /\ held' = SubSeq(held, n + 1, Len(held))
        /\ [k \in 1 .. n |-> data[Slot(out, k - 1)]] = SubSeq(held, 1, n)
    BY <1>0, <1>2, <1>3, Removed, Zenon
  <1>7. Fetched(Masked(out), n) = SubSeq(held, 1, n)
    BY <1>0, <1>3, <1>6, FetchedIs
  <1> QED
    BY <1>2, <1>4, <1>5, <1>6, <1>7, ReturnsIs, Zenon
       DEF Fifo!Out, Fifo!Remove, Fifo!Suffix, Fifo!Prefix

\* buff_outb takes the oldest byte, and with it the cursor if it was there.
LEMMA OutbSimulated ==
    ASSUME TypeOK, TypeOK', len = CBUFFLEN, NEW d \in Slots, Order(d), CheckedOutb
    PROVE  Fifo!Outb
  <1>0. /\ d \in Nat /\ out \in LWords /\ Ahead(d)
        /\ (~stray => \E t \in 0 .. d : Chase(d, t))
    BY LenFits DEF Slots, TypeOK, Order
  <1>1. buff_dlen = d
    BY <1>0, AheadLengths, Zenon
  <1>2. /\ out' = Plus(out, 1) /\ Called("outb", <<>>, 1, <<data[Masked(out)]>>)
        /\ UNCHANGED <<len, in, trial, data>> /\ d > 0
        /\ stray' = (stray \/ buff_trylen = 0)
    BY <1>1, Zenon DEF CheckedOutb, buff_outb
  <1>3. 1 \in 0 .. d /\ 1 \in Slots /\ d - 1 \in Slots /\ d # 0
    BY <1>0, <1>2, LenFits DEF Slots
  <1>4. cursor' = IF cursor \in {0, Fifo!Lost} THEN Fifo!Lost ELSE cursor - 1
    <2>1. CASE stray
      BY <1>2, <2>1, Zenon DEF cursor, Fifo!Lost
    <2>2. CASE ~stray
      <3>1. PICK t \in 0 .. d : Chase(d, t)
        BY <1>0, <2>2, Zenon
      <3>2. cursor = t /\ buff_trylen = t
        BY <1>0, <2>2, <3>1, Lengths, CursorStateHolds, Zenon DEF CursorState
      <3>3. CASE t = 0
        BY <1>2, <3>2, <3>3, Zenon DEF cursor, Fifo!Lost
      <3>4. CASE t # 0
        <4>1. 1 \in 0 .. t /\ t \in Nat
          BY <1>0, <3>4
        <4>2. UNCHANGED <<in, trial>> /\ ~stray' /\ len' = CBUFFLEN
          BY <1>2, <2>2, <3>2, <3>4, Zenon
        <4>3. t - 1 \in 0 .. d - 1 /\ Chase(d - 1, t - 1)'
          BY <1>0, <1>2, <3>1, <4>1, <4>2, MoveOutTried, Zenon
        <4>4. cursor' = t - 1
          BY <1>3, <4>2, <4>3, QueueStatesNext, Zenon DEF CursorState
        <4> QED BY <3>2, <3>4, <4>1, <4>4, NotLost, Zenon
      <3> QED BY <3>3, <3>4, Zenon
    <2> QED BY <2>1, <2>2, Zenon
  <1>5. /\ UNCHANGED room /\ Len(held) = d
        /\ held' = SubSeq(held, 1 + 1, Len(held))
        /\ [k \in 1 .. 1 |-> data[Slot(out, k - 1)]] = SubSeq(held, 1, 1)
    BY <1>0, <1>2, <1>3, Removed, Zenon
  <1>6. <<data[Masked(out)]>> = SubSeq(held, 1, 1)
    <2>1. Slot(out, 0) = Masked(out)
      <3>1. Plus(out, 0) = out
        BY <1>0, PlusWraps, LenFits DEF LWords
      <3> QED BY <3>1, LenFits DEF Slot, Masked
    <2>2. 1 - 1 = 0 /\ <<data[Masked(out)]>> = [k \in 1 .. 1 |-> data[Masked(out)]]
      OBVIOUS
    <2>3. \A k \in 1 .. 1 : data[Slot(out, k - 1)] = data[Masked(out)]
      BY <2>1
    <2> QED BY <1>5, <2>2, <2>3, Zenon
  <1>7. held # <<>>
    BY <1>3, <1>5, LenOfNone, Zenon
  <1> QED
    BY <1>2, <1>4, <1>5, <1>6, <1>7, ReturnsIs, Zenon
       DEF Fifo!Outb, Fifo!Remove, Fifo!Suffix, Fifo!Prefix

\* After buff_init every operation is one of the queue.
LEMMA InitialisedSimulated ==
    ASSUME IInv, TypeOK, TypeOK', len = CBUFFLEN, Next,
           ~ \E start \in LWords : buff_init(start)
    PROVE  Fifo!Next
  <1>0. PICK d \in Slots : Order(d)
    BY LenFits DEF IInv, CountersChase
  <1>1. Ahead(d) /\ (~stray => \E t \in 0 .. d : Chase(d, t))
    BY <1>0, Zenon DEF Order
  <1>2. CASE buff_clrtrial
    BY <1>1, <1>2, ClearSimulated, Zenon DEF Fifo!Next
  <1>3. ASSUME NEW s \in Strings, buff_in(s) PROVE Fifo!Next
    <2>1. PICK m \in 0 .. MaxArg : s \in [1 .. m -> Bytes]
      BY <1>3, Zenon DEF Strings
    <2>2. Fifo!Put("in", s)
      BY <1>1, <1>3, <2>1, InSimulated, ArgAssumption
    <2> QED BY <2>1, <2>2, Zenon DEF Fifo!Next, Fifo!Strings
  <1>4. ASSUME NEW m \in 0 .. MaxArg,
               \/ buff_in_null(m) \/ buff_retry(m)
               \/ \E keep \in BOOLEAN : buff_try(m, keep) \/ buff_out(m, keep)
        PROVE  Fifo!Next
    <2>0. m \in Nat
      BY ArgAssumption
    <2>1. CASE buff_in_null(m)
      BY <1>1, <2>0, <2>1, InNullSimulated, Zenon DEF Fifo!Next
    <2>2. CASE buff_retry(m)
      <3>1. Fifo!Retry(m) \/ Fifo!RetryLost(m)
        BY <1>1, <2>0, <2>2, RetrySimulated, LostSimulated, Zenon
      <3> QED BY <3>1, Zenon DEF Fifo!Next
    <2>3. ASSUME NEW keep \in BOOLEAN, buff_try(m, keep) PROVE Fifo!Next
      <3>1. Fifo!Try(m, keep) \/ Fifo!TryLost(m, keep)
        BY <1>1, <2>0, <2>3, TrySimulated, LostSimulated, Zenon
      <3> QED BY <3>1, Zenon DEF Fifo!Next
    <2>4. ASSUME NEW keep \in BOOLEAN, buff_out(m, keep) PROVE Fifo!Next
      BY <1>0, <2>0, <2>4, OutSimulated, Zenon DEF Fifo!Next
    <2> QED BY <1>4, <2>1, <2>2, <2>3, <2>4, Zenon
  <1>5. CASE CheckedInb
    <2>1. PICK b \in Bytes : buff_inb(b)
      BY <1>5, Zenon DEF CheckedInb
    <2>2. Fifo!Put("inb", <<b>>) /\ Len(held) < room
      BY <1>1, <1>5, <2>1, InbSimulated, Zenon DEF CheckedInb
    <2> QED BY <2>2, Zenon DEF Fifo!Next
  <1>6. CASE CheckedOutb
    BY <1>0, <1>6, OutbSimulated, Zenon DEF Fifo!Next
  <1> QED BY <1>2, <1>3, <1>4, <1>5, <1>6, Zenon DEF Next, BlockNext

\* A state of the buffer at rest is a state of the queue at rest.
LEMMA StutterSimulated == UNCHANGED vars => UNCHANGED Fifo!vars
  <1> SUFFICES ASSUME UNCHANGED vars PROVE UNCHANGED Fifo!vars
    OBVIOUS
  <1>1. UNCHANGED <<len, in, out, data>> /\ UNCHANGED <<trial, stray, call>>
    BY Zenon DEF vars
  <1>2. UNCHANGED cursor
    BY <1>1, Zenon DEF cursor, buff_trylen, Masked, Minus
  <1> QED BY <1>1, <1>2, TrialMoved, Zenon DEF Fifo!vars

\* Every step of the buffer is a step of the queue or leaves it alone.
LEMMA StepSimulated ==
    IInv /\ TypeOK /\ TypeOK' /\ [Next]_vars => [Fifo!Next]_(Fifo!vars)
  <1> SUFFICES ASSUME IInv, TypeOK, TypeOK', [Next]_vars
               PROVE  [Fifo!Next]_(Fifo!vars)
    OBVIOUS
  <1>1. CASE UNCHANGED vars
    BY <1>1, StutterSimulated, Zenon
  <1>2. ASSUME NEW start \in LWords, buff_init(start) PROVE Fifo!Next
    BY <1>2, InitialiseSimulated, Zenon DEF Fifo!Next
  <1>3. CASE Next /\ ~ \E start \in LWords : buff_init(start)
    <2>1. len = 0 \/ len = CBUFFLEN
      BY Zenon DEF TypeOK
    <2>2. CASE len = 0
      BY <1>3, <2>2, UninitialisedSimulated, Zenon
    <2>3. CASE len = CBUFFLEN
      BY <1>3, <2>3, InitialisedSimulated, Zenon
    <2> QED BY <2>1, <2>2, <2>3, Zenon
  <1> QED BY <1>1, <1>2, <1>3, Zenon

\* The circular buffer implements the queue with a trial read of TrialFifo,
\* for every length and every width of the counters: bytes leave in the order
\* in which they came, none is lost, doubled or altered by a wrapped copy or
\* a wrapped counter, also when buff_outb takes bytes that were not tried, and
\* every count returned is the one the queue returns, except what buff_try and
\* buff_retry say of a cursor that buff_outb has passed.
THEOREM BufferIsAFifo == Spec => ImplementsFifo
  <1>1. Init => Fifo!Init
    BY EmptyStateHolds, Zenon DEF Init, Fifo!Init, EmptyState
  <1> QED
    BY <1>1, InitIInv, NextIInv, TypeCorrect, StepSimulated, PTL
       DEF Spec, ImplementsFifo, Fifo!Spec
=============================================================================
