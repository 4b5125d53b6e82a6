------------------------------ MODULE MCSerial ------------------------------
(***************************************************************************)
(* Short texts for Serial.                                                 *)
(***************************************************************************)
EXTENDS Serial

\* A line of the log and a handler's message, told apart by every byte.
ShortTexts == {<<"l", "o", "g">>, <<"!", "?">>}
=============================================================================
