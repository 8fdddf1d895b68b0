------------------------------ MODULE RpcSums ------------------------------
(***************************************************************************)
(* The small RPC programs: rpc/arraysum and end/rpc (add) sum the numbers  *)
(* of the request, rpc/square squares one.  Each server keeps its result   *)
(* in a static variable, which is the state of its process here; the       *)
(* numbers are small, so that int does not overflow.                       *)
(***************************************************************************)
EXTENDS Naturals, Sequences, SequencesExt

Result(word, v, s) == [server |-> [s EXCEPT ![word] = v], up |-> TRUE, res |-> v]
SumOf(nums) == FoldLeft(LAMBDA a, b : a + b, 0, nums)

\* static int result = 0: what the calls before added stays in it
arraysum(s, nums) == Result("arraysum", s.arraysum + SumOf(nums), s)

add(s, nums) == Result("add", SumOf(nums), s)

square(s, nums) == Result("square", nums[1] * nums[1], s)

sums_1(s, l) ==
    CASE l.word = "arraysum" -> arraysum(s, l.args)
      [] l.word = "add"      -> add(s, l.args)
      [] l.word = "square"   -> square(s, l.args)

\* the clients: one request from the numbers typed
arraysum_1(nums) == [word |-> "arraysum", args |-> nums]
addition_1(nums) == [word |-> "add", args |-> nums]
square_calc_1(num) == [word |-> "square", args |-> <<num>>]

NoResult == [arraysum |-> 0, add |-> 0, square |-> 0]
=============================================================================
