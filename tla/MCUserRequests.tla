--------------------------- MODULE MCUserRequests ---------------------------
(* Instances of UserRequests for TLC: strings of a few characters.         *)
EXTENDS UserRequests

MCLetters == {"a", "b"}
MCIds == {<<"a", "b", "1">>, <<"2", "b", "a">>}
Short == <<"a">>
Plain == <<"a", "b">>
Quoted == <<"a", "'", "b">>
Long == <<"b", "b", "b", "b">>
MCInputs == {Short, Plain, Long}
MCTerms == {Short, Quoted}
MCZeroTime == -1
ClientSymmetry == Permutations(HTTPClients)
=============================================================================
