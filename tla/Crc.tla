-------------------------------- MODULE Crc --------------------------------
(***************************************************************************)
(* errcorrection/crc1.c: a frame a is divided by a generator g (n + 1      *)
(* bits, highest first) in a shift register r, the remainder is appended,  *)
(* and a received frame is divided again.  errcorrection/crc.c does the    *)
(* first half on characters.                                               *)
(***************************************************************************)
EXTENDS Naturals, Sequences, SequencesExt

CONSTANTS
    MaxN,       \* bound: degree of the generator
    MaxM        \* bound: degree of the frame

VARIABLES
    phase,      \* "enter", "rejected", "send", "sent", "check", "done"
    g, data,    \* what is entered
    a,          \* the frame
    r,          \* the shift register
    i,          \* the next bit of a, from 0 as in the code
    div,        \* the quotient
    flag        \* 1: no error

vars == <<phase, g, data, a, r, i, div, flag>>

Bits(k) == [1 .. k -> {0, 1}]
n == Len(g) - 1
m == Len(data) - 1
Zeros(k) == [j \in 1 .. k |-> 0]
Xor(s, t) == [j \in DOMAIN s |-> (s[j] + t[j]) % 2]

Init ==
    /\ phase = "enter" /\ a = <<>> /\ r = <<>> /\ i = 0 /\ div = <<>> /\ flag = 1
    /\ \E k \in 1 .. MaxN, l \in 0 .. MaxM : g \in Bits(k + 1) /\ data \in Bits(l + 1)

Proper == m >= n /\ g[1] = 1 /\ g[n + 1] = 1

Start(frame, next) ==
    /\ a' = frame /\ r' = SubSeq(frame, 1, n + 1) /\ i' = n /\ div' = <<>>
    /\ phase' = next

Enter ==
    /\ phase = "enter"
    /\ IF Proper THEN Start(data \o Zeros(n), "send")
       ELSE phase' = "rejected" /\ UNCHANGED <<a, r, i, div>>
    /\ UNCHANGED <<g, data, flag>>

Shifted == IF i > n THEN Append(Tail(r), a[i + 1]) ELSE r

\* one iteration of the division
Divide ==
    /\ phase \in {"send", "check"} /\ i < Len(a)
    /\ div' = Append(div, Head(Shifted))
    /\ r' = IF Head(Shifted) = 1 THEN Xor(Shifted, g) ELSE Shifted
    /\ i' = i + 1
    /\ UNCHANGED <<phase, g, data, a, flag>>

Reminder == Tail(r)

Transmit ==
    /\ phase = "send" /\ i = Len(a)
    /\ phase' = "sent"
    /\ a' = data \o Reminder
    /\ UNCHANGED <<g, data, r, i, div, flag>>

\* the frame that arrives is typed in: any frame of the length
Receive ==
    /\ phase = "sent"
    /\ \E b \in Bits(Len(a)) : Start(b, "check")
    /\ UNCHANGED <<g, data, flag>>

CheckFirst ==
    /\ phase = "check" /\ i = Len(a)
    /\ phase' = "done"
    /\ flag' = IF Head(Reminder) = 0 THEN 1 ELSE 0
    /\ UNCHANGED <<g, data, a, r, i, div>>

Check ==
    /\ phase = "check" /\ i = Len(a)
    /\ phase' = "done"
    /\ flag' = IF Reminder = Zeros(n) THEN 1 ELSE 0
    /\ UNCHANGED <<g, data, a, r, i, div>>

Next == Enter \/ Divide \/ Transmit \/ Receive \/ Check

(***************************************************************************)
(* crc.c, with bits for the characters '0' and '1'                         *)
(***************************************************************************)
\* rem[j - 1] compares temp[j] and key[j]; the last place gets the next input bit
crc_step(temp, next, key) ==
    LET used == IF temp[1] = 0 THEN Zeros(Len(key)) ELSE key IN
    Append(Tail(Xor(temp, used)), next)

\* the last round reads one place behind the zeros, into a place that is not printed
crc(input, key) ==
    LET k == Len(key)
        padded == input \o Zeros(k)
        step(temp, j) == crc_step(temp, padded[j + k], key)
    IN  SubSeq(FoldLeft(step, SubSeq(padded, 1, k), [j \in 1 .. Len(input) |-> j]), 1, k - 1)

-----------------------------------------------------------------------------
\* The product of two polynomials over {0, 1}, highest coefficient first.
Times(p, q) ==
    [d \in 1 .. Len(p) + Len(q) - 1 |->
        FoldLeft(LAMBDA x, j : (x + p[j] * (IF d - j + 1 \in DOMAIN q THEN q[d - j + 1] ELSE 0)) % 2,
                 0, [j \in 1 .. Len(p) |-> j])]

\* What is transmitted is the data followed by n bits, and the generator times the
\* quotient.
Multiple ==
    phase = "sent" =>
        SubSeq(a, 1, m + 1) = data /\ Len(a) = m + n + 1 /\ a = Times(div, g)

\* crc.c appends the same bits.
SameRemainder == phase = "sent" => SubSeq(a, m + 2, m + n + 1) = crc(data, g)

\* An error burst that fits into n bits, and any single wrong bit, is reported.
Burst(e) ==
    \E lo, hi \in DOMAIN e : /\ lo <= hi /\ hi < lo + n
                             /\ \A j \in DOMAIN e : e[j] = 1 => j \in lo .. hi
BurstFound ==
    phase = "done" =>
        LET e == Xor(a, data \o crc(data, g)) IN
        (\E j \in DOMAIN e : e[j] = 1) /\ Burst(e) => flag = 0

\* No error is reported exactly when the error is a multiple of the generator.
Verdict ==
    phase = "done" => (flag = 1 <=> \E q \in Bits(m + 1) : Times(q, g) = a)
=============================================================================
