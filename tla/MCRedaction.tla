---------------------------- MODULE MCRedaction ----------------------------
(* Model-checking instance of RedactedRequest.                               *)
EXTENDS RedactedRequest

\* A surface with a quote in it; a character of two units, and one surface in two
\* spellings; placeholders the user wrote; a blank text, and a newline.
MCProbe == << <<"a", "\"", "a">>, <<>> >>
MCInputs ==
    {MCProbe,
     << <<"hi", "lo", "a", " ", "A">>, <<"a", ".">> >>,
     << <<"P_", "1", " ", "a">>, <<"[", "Q_", "1", "]", "a">> >>,
     << <<" ">>, <<"a", "nl", "a">> >>}
MCAlphabet == << {"[", "P_", "1", "]", "a"}, {"\\", "o", "c", "n", "P_", "1"} >>
=============================================================================
