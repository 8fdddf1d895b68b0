------------------------------ MODULE Hamming ------------------------------
(***************************************************************************)
(* errcorrection/hamming.cpp: data bits and redundancy bits at the powers  *)
(* of two, one bit cleared by the user, and the position computed from the *)
(* redundancy bits worked out again.                                       *)
(***************************************************************************)
EXTENDS Integers, Sequences, FiniteSets, SequencesExt

CONSTANTS Lengths   \* the frame sizes m; at most 11, for a1 has four places

VARIABLES
    phase,      \* "enter", "scan", "coded", "rescan", "done"
    db,         \* the data bits
    df,         \* the frame, df[1 .. l]; -1: redundancy bit to be calculated
    i1,         \* the position scanned
    rb,         \* redundancy bits
    eb, was,    \* the position of the error, and the bit that was there
    ep          \* the position found

vars == <<phase, db, df, i1, rb, eb, was, ep>>

Powers == {1, 2, 4, 8}
l == Len(df)

Init ==
    /\ phase = "enter" /\ df = <<>> /\ i1 = 1 /\ rb = <<>> /\ eb = 0 /\ was = 0 /\ ep = 0
    /\ \E k \in Lengths : db \in [1 .. k -> {0, 1}]

\* positions up to p that hold data
DataUpTo(p) == Cardinality((1 .. p) \ Powers)
FrameLength(k) == CHOOSE p \in 1 .. 15 : DataUpTo(p) = k /\ p \notin Powers

Frame(d) ==
    [p \in 1 .. FrameLength(Len(d)) |-> IF p \in Powers THEN -1 ELSE d[DataUpTo(p)]]

Introduce ==
    /\ phase = "enter"
    /\ df' = Frame(db) /\ phase' = "scan"
    /\ UNCHANGED <<db, i1, rb, eb, was, ep>>

HasBitAbove(p, k) == p # k /\ (p \div k) % 2 = 1

\* a1[i4]: position p has the 1 of position k in binary
HasBit(p, k) == (p \div k) % 2 = 1
Parity(f, k) == Cardinality({p \in DOMAIN f : HasBit(p, k) /\ f[p] = 1}) % 2

\* the first scan looks for -1, the second counts powers of two
Scan ==
    /\ phase \in {"scan", "rescan"} /\ i1 <= l
    /\ i1' = i1 + 1
    /\ IF (IF phase = "scan" THEN df[i1] = -1 ELSE i1 \in Powers)
       THEN df' = [df EXCEPT ![i1] = Parity(df, i1)] /\ rb' = Append(rb, Parity(df, i1))
       ELSE UNCHANGED <<df, rb>>
    /\ UNCHANGED <<phase, db, eb, was, ep>>

Coded ==
    /\ phase = "scan" /\ i1 > l
    /\ phase' = "coded"
    /\ UNCHANGED <<db, df, i1, rb, eb, was, ep>>

\* the if assigns: whatever the bit was, it becomes 0
WrongBit(b) == 0

Error ==
    /\ phase = "coded"
    /\ \E p \in 1 .. l :
        /\ eb' = p /\ was' = df[p]
        /\ df' = [df EXCEPT ![p] = WrongBit(@)]
    /\ phase' = "rescan" /\ i1' = 1 /\ rb' = <<>>
    /\ UNCHANGED <<db, ep>>

Position(bits) == FoldLeft(LAMBDA x, j : x + (IF bits[j] = 1 THEN 2 ^ (j - 1) ELSE 0), 0,
                           [j \in DOMAIN bits |-> j])
Found ==
    /\ phase = "rescan" /\ i1 > l
    /\ phase' = "done" /\ ep' = Position(rb)
    /\ UNCHANGED <<db, df, i1, rb, eb, was>>

Next == Introduce \/ Scan \/ Coded \/ Error \/ Found

-----------------------------------------------------------------------------
\* The position printed is that of the error; 0 when the bit was 0 already.
Located == phase = "done" => ep = IF was = 1 THEN eb ELSE 0

\* The codeword of other data, worked out at once.
Codeword(d) ==
    LET f == Frame(d) IN [p \in DOMAIN f |-> IF p \in Powers THEN Parity(f, p) ELSE f[p]]
Flipped(places) == [j \in DOMAIN db |-> IF j \in places THEN 1 - db[j] ELSE db[j]]

\* Any two codewords differ in three places or more: data that differ in one or two
\* bits differ in redundancy bits as well.
Distance ==
    phase = "coded" => \A j, k \in DOMAIN db : j <= k =>
        LET other == Codeword(Flipped({j, k})) IN
        Cardinality({p \in DOMAIN df : df[p] # other[p]}) >= 3
=============================================================================
