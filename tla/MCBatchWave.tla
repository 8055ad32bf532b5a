----------------------------- MODULE MCBatchWave -----------------------------
(* Two waves of up to two cases over two circuits and one that is out in   *)
(* the base; exact Newton, factors kept with and without a stride, and     *)
(* settings that the constructor has to correct.                           *)
EXTENDS BatchWave

CONSTANTS a, b, z

MCCircuit == {a, b, z}
MCBaseOut == {z}
MCWaves == {<<>>, <<{a}, {b}>>, <<{a, b}, {z}>>, <<{b}, {b, z}>>}

Setting(keep, every, cap, maxIter, adapt) ==
  [constantFactor |-> keep, refactorEvery |-> every, chordCap |-> cap,
   maxIter |-> maxIter, maxAdaptive |-> adapt]

MCSettings == {Setting(FALSE, 1, 0, 3, 2), Setting(FALSE, -1, 2, 0, 0),
               Setting(TRUE, 4, 0, 4, 1), Setting(TRUE, 9, 9, 5, 2),
               Setting(FALSE, 2, 4, 6, -1), Setting(TRUE, 1, -1, 0, 2)}

=============================================================================
