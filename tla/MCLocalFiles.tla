----------------------------- MODULE MCLocalFiles -----------------------------
(* An instance of LocalFiles for TLC, with parson. *)
EXTENDS LocalFiles, JsonText

\* One name is the beginning of the other, so that a misread "a" may be taken for "ab".
Tails(n) == IF n = "a" THEN {"ab", "a?"} ELSE {"ab?"}
=============================================================================
