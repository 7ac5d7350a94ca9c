---------------------------- MODULE MCLLMStream ----------------------------
(***************************************************************************)
(* Answers with a text and tool calls in several pieces, in different      *)
(* places; the last has one call more than the index limit allows.         *)
(***************************************************************************)
EXTENDS LLMStream

Block(is, n) == [is |-> is, pieces |-> n]

MCAnswers ==
    {<<Block("text", 2), Block("tool", 3), Block("tool", 2)>>,
     <<Block("tool", 2), Block("text", 2), Block("tool", 2)>>,
     <<Block("tool", 2), Block("tool", 2), Block("tool", 1)>>,
     <<Block("text", 3)>>}
=============================================================================
