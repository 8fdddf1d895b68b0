------------------------------ MODULE MCCodes ------------------------------
(***************************************************************************)
(* The algorithms of errcorrection and mid/heap.c for TLC: which one runs  *)
(* is chosen at the start.                                                 *)
(***************************************************************************)
EXTENDS Integers

VARIABLES
    program,
    cr_phase, g, data, a, r, i, div, flag,
    ha_phase, db, df, i1, rb, eb, was, ep,
    heap, heapSize, todo, pc, element, now, out

crc == <<cr_phase, g, data, a, r, i, div, flag>>
hamming == <<ha_phase, db, df, i1, rb, eb, was, ep>>
sorting == <<heap, heapSize, todo, pc, element, now, out>>
vars == <<program, crc, hamming, sorting>>

C == INSTANCE Crc WITH MaxN <- 3, MaxM <- 3, phase <- cr_phase
H == INSTANCE Hamming WITH Lengths <- {1, 4, 5, 11}, phase <- ha_phase
\* -3 stands for INT_MIN
Q == INSTANCE Heap WITH Values <- {-3, -2, 0, 1}, Sentinel <- -2, MaxSize <- 7

IdleCrc ==
    /\ cr_phase = "off" /\ g = <<>> /\ data = <<>> /\ a = <<>> /\ r = <<>> /\ i = 0
    /\ div = <<>> /\ flag = 1
IdleHamming ==
    /\ ha_phase = "off" /\ db = <<>> /\ df = <<>> /\ i1 = 1 /\ rb = <<>> /\ eb = 0
    /\ was = 0 /\ ep = 0
IdleSorting ==
    /\ heap = <<>> /\ heapSize = 0 /\ todo = 1 /\ pc = "main" /\ element = 0 /\ now = 0
    /\ out = <<>>

Init ==
    \/ program = "crc" /\ C!Init /\ IdleHamming /\ IdleSorting
    \/ program = "hamming" /\ H!Init /\ IdleCrc /\ IdleSorting
    \/ program = "heap" /\ Q!Init /\ IdleCrc /\ IdleHamming

InCrc == program = "crc" /\ UNCHANGED <<program, hamming, sorting>>
InHamming == program = "hamming" /\ UNCHANGED <<program, crc, sorting>>
InHeap == program = "heap" /\ UNCHANGED <<program, crc, hamming>>

Next ==
    \/ InCrc /\ C!Next
    \/ InHamming /\ H!Next
    \/ InHeap /\ Q!Next

\* a program that is running goes on; only what is typed in may fail to come
FairSpec == Init /\ [][Next]_vars /\ WF_vars(InHeap /\ Q!Step)

-----------------------------------------------------------------------------
\* Crc: crc.c and crc1.c work out the same remainder, what is sent is the data and a
\* multiple of the generator, and the receiver's verdict is that of polynomial division:
\* bursts up to the degree of the generator are found.
CrcCorrect == C!SameRemainder /\ C!Multiple /\ C!Verdict /\ C!BurstFound
\* Hamming: the position found is that of the bit that was cleared, and codewords differ
\* in three places.
HammingCorrect == H!Located /\ H!Distance
\* Heap: the array, a heap between calls, is a priority queue from which all that was read
\* is printed, unless a value below the sentinel was entered, which is never inserted.
HeapSorts == []Q!HeapOrder /\ Q!IsPriorityQueue /\ Q!Printed /\ Q!LostForEver
=============================================================================
