---------------------------- MODULE MCEventLoop ----------------------------
(***************************************************************************)
(* A small instance of EventLoop for TLC.                                  *)
(***************************************************************************)
EXTENDS EventLoop

(* On the name, the first priority, the CPU slider, SUBMIT JOB, the first  *)
(* preset and the second tab.                                              *)
MCPoints ==
  {<<40, 830>>, <<40, 870>>, <<200, 910>>, <<40, 1010>>, <<300, 180>>, <<700, 230>>}

=============================================================================
