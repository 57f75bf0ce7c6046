------------------------------ MODULE MCKeyboard ------------------------------
(* Keyboard for TLC: the keys of the runs.                                  *)
EXTENDS Keyboard

\* Keys of each shape, and those whose codes are bytes of longer sequences: A
\* and its release, Left Shift and its release (both bytes of Print Screen), a
\* key beyond the end of the table, cursor up and its release, Print Screen and
\* its release, Pause.
SomeKeys == {<<30>>, <<158>>, <<42>>, <<170>>, <<93>>, <<224, 72>>, <<224, 200>>,
             PrintScreenMake, PrintScreenBreak, PauseMake}
==============================================================================
