------------------------------- MODULE MCConf -------------------------------
EXTENDS Conf

MCTokens == {"sp", "nl", "#", "\\", "port", "led", "starfrit", "starfrit_url", "ON", "u", "v", "c", "4", "9"}
MCNumberOf == [t \in MCTokens |-> IF t = "4" THEN 4 ELSE IF t = "9" THEN 9 ELSE 0]

(* Entries, lines that continue or seem to, comments of every kind, a key  *)
(* without a value, and a line that fgets() cuts.                          *)
MCLines ==
    {<<"port", "sp", "4", "nl">>,
     <<"sp", "port", "sp", "sp", "9", "sp", "#", "sp", "c", "nl">>,
     <<"starfrit", "sp", "ON", "nl">>,
     <<"starfrit_url", "\\", "nl">>,
     <<"sp", "u", "sp", "\\", "\\", "nl">>,
     <<"v", "#", "c", "nl">>,
     <<"sp", "#", "c", "\\", "nl">>,
     <<"u", "sp", "#", "c", "\\", "nl">>,
     <<"nl">>,
     <<"led", "sp", "4", "\\", "sp", "nl">>,
     <<"\\", "nl">>,
     <<"led", "nl">>,
     <<"starfrit_url", "sp", "u", "sp", "v", "sp", "u", "sp", "v", "sp", "u", "nl">>}

MCFiles == UNION {[1..n -> MCLines] : n \in 0..4}
=============================================================================
