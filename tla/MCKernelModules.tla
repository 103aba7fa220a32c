-------------------------- MODULE MCKernelModules --------------------------
EXTENDS KernelModules

(* Two bytes of four values make a header of 0 .. 15, an int is -8 .. 7.
   Messages of no and of few bytes, of one byte less than the buffer, as large
   as the buffer, and of a size that is negative as an int. *)
Many(byte, n) == [i \in 1 .. n |-> byte]
MCMessages == {<<>>, <<1>>, <<3>>, <<2, 1>>, Many(2, 4), Many(1, 5), Many(0, 8)}
MCRejected == {<<3>>, Many(2, 4), Many(1, 5), <<1, 1>>}
MCPaged == {<<3>>, <<2, 1>>}

(* Whole frames, one of a size that only just fits, headers with too little or
   too much behind them, shorter and longer than what they claim, a header that is
   not whole, and more than the buffer and than what is asked for, behind a header
   that passes. *)
MCDatagrams ==
  {<<>>, <<1>>, <<0, 1, 2>>, <<0, 2, 3, 1>>, <<0, 3, 1, 2, 3>>, <<1, 0, 2, 1>>,
   <<1, 1, 3, 3, 3>>, <<3, 2, 1, 1>>, <<0, 1, 2, 2>>, <<1, 0>> \o Many(1, 7)}
=============================================================================
