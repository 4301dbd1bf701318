------------------------------ MODULE MCThings ------------------------------
(***************************************************************************)
(* Small instances of ThingSync.                                           *)
(***************************************************************************)
EXTENDS ThingSync

CONSTANTS amp, console, on, off, info1, bare, note1, note2

JustAmp == {amp}
AmpAndConsole == {amp, console}
JustConsole == {console}
Nothing == {}
JustOn == {on}
OnOff == {on, off}
OneInfo == {info1}
InfoAndBare == {info1, bare}
JustBare == {bare}
TwoNotes == {note1, note2}
OneNote == {note1}

\* The amplifier has two or three output channels; the console is a platform.
TwoOutputs == [d \in JustAmp |-> 2]
AmpOutputs == [d \in AmpAndConsole |-> IF d = amp THEN 3 ELSE 1]
=============================================================================
