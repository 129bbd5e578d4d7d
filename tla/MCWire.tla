-------------------------------- MODULE MCWire --------------------------------
(* Instances of Wire for TLC. *)
EXTENDS Wire

LengthTopics == {<<"LENGTH", "a", "1">>}
AllTopics    == {<<"FROM">>} \cup LengthTopics
PlainBodies  == {<<"LENGTH", "nl">>}
AllBodies    == {<<>>, <<"LENGTH", "nl", "MESSAGE">>, <<"x", "nul", "y">>,
                 <<"w", "MESSAGE", "sp", "LENGTH", "sp", "0", "sp", "FROM", "sp", "sp", "nl">>}
Numbers      == [n \in 0..11 |-> ToString(n)]
Me           == <<"me">>
You          == {<<"you">>}

=============================================================================
