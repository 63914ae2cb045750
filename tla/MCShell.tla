------------------------------- MODULE MCShell -------------------------------
(***************************************************************************)
(* Shell with small constants for TLC: the lines typed at the prompt, and  *)
(* all short lines of words and of chars that sh_parse and sh_tokenize are *)
(* evaluated on.                                                           *)
(***************************************************************************)
EXTENDS Shell

MCBuiltins == {"cd", "exit", "kill"}
MCLines ==
    {<<"cat", "<", "f", ">", "g">>, <<"run", "cat", "|", "cat", ">", "g">>,
     <<"cat", "<", "f", "|", "cat", "|", "cat">>, <<"prio", "9", "cat", "&">>,
     <<"cd", "f">>, <<"kill", "1">>, <<"exit">>, <<"cd", "|", "cat">>}

ParserWords == {"cat", "f", "|", "<", ">>", "&"}
MCParsedLines == UNION {[1..n -> ParserWords] : n \in 1..5}

MCCharLines == UNION {[1..n -> {"a", " ", "|", ">", "\""}] : n \in 1..5}
=============================================================================
