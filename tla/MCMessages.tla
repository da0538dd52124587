------------------------------ MODULE MCMessages ------------------------------
(* An instance of Messages for TLC, with parson. *)
EXTENDS Messages, JsonText

\* A hello message of 14 tokens, which fills two reads of 7, and one of 19.
HelloWith(blocks) ==
  Object(<< <<"command", String("clientFilesAndBlocks")>>,
            <<"pearListeningSocket", Number(1)>>,
            <<"blocks", Array(blocks)>> >>)
TwoHellos == {HelloWith(<<>>), HelloWith(<<Object(<< <<"parentFile", String("f")>> >>)>>)}
=============================================================================
