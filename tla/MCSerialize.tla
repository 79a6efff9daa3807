---------------------------- MODULE MCSerialize ----------------------------
EXTENDS Serialize, TLC

MCKeys == {<<"integer", 1>>, <<"string", "1">>}
MCScalars == {<<"number", 3>>, <<"string", "1">>, <<"string", "a">>, <<"boolean", TRUE>>}
MCNumerals == "1" :> 2

Symmetric == Permutations(Tables)
=============================================================================
