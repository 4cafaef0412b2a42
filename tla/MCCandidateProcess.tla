------------------------- MODULE MCCandidateProcess -------------------------
(* A candidate that writes any short text, and longer ones one token away  *)
(* from a document that nests, repeats keys or fills the byte limit.       *)
EXTENDS CandidateProcess

Samples ==
    { <<"{", "a", "v", "b", "v", "}">>,
      <<"{", "a", "v", "b", "[", "]", "}">>,
      <<"{", "b", "{", "a", "v", "}", "}">>,
      <<"[", "{", "a", "v", "}", "v", "]">>,
      <<"[", "[", "[", "]", "]", "]">> }

Changes(text) ==
    {[text EXCEPT ![i] = token] : i \in 1..Len(text), token \in Tokens}
        \cup {Append(text, token) : token \in {"_", "v", "]"}}

Beginnings(text) == {SubSeq(text, 1, n) : n \in 0..Len(text)}

MCOutputs ==
    SeqOf(Tokens, 3) \cup UNION {Beginnings(text) : text \in UNION {Changes(s) : s \in Samples}}

MCExitCodes == {0, 3, 9}
=============================================================================
