---------------------------- MODULE MCJsonFramer ----------------------------
(* Instances of the JSON framer for TLC: small messages that exercise     *)
(* both openers, nesting, brackets and quotes inside strings, and escaped *)
(* and unescaped quotes after runs of backslashes.                        *)
EXTENDS JsonFramer

\* {}   []   {{}}   {"}"}   ["\"]"]   {"\\"}
MCPlain ==
    { <<"{", "}">>,
      <<"[", "]">>,
      <<"{", "{", "}", "}">>,
      <<"{", "\"", "}", "\"", "}">>,
      <<"[", "\"", "\\", "\"", "]", "\"", "]">>,
      <<"{", "\"", "\\", "\\", "\"", "}">> }

\* Values cut into chunks anywhere: a short and a nested one, and values
\* followed or preceded by a separator, as a newline-delimited peer
\* writes them.
MCChunks ==
    { <<"{", "}">>, <<"{", "{", "}", "}">>,
      <<"{", "}", " ">>, <<" ", "{", "}">> }
=============================================================================
