---------------------------- MODULE MCMacAddress ----------------------------
(***************************************************************************)
(* MacAddress for short names of a few characters.                           *)
(***************************************************************************)
EXTENDS MacAddress, Sequences, SequencesExt

Hello == <<104, 101, 108, 108, 111>>

\* Who reads "hello" from the start comes to what Test_getMacAddress expects of it,
\* 52:54:00:07:b9:ab: the model's halves and its wrap-around are those of a uint32.
AgreesWithTest ==
    length = 0 => getMacAddress(FoldLeft(Absorb, first, Hello)) = <<82, 84, 0, 7, 185, 171>>

\* "-", "0", "1", "a" and "z".
MCBytes == {45, 48, 49, 97, 122}
=============================================================================
