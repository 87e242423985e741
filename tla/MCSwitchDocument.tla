-------------------------- MODULE MCSwitchDocument --------------------------
EXTENDS SwitchDocument

\* Modules are told apart by their ids only.
Symmetry == Permutations(Id)

AnyText == UNION {[1 .. n -> {"on", "5"}] : n \in 1 .. 2}

\* A text that begins with a number is that number.
MCLong ==
    [t \in AnyText |->
        IF t[1] # "5" THEN 0 ELSE IF t = <<"5", "5">> THEN 55 ELSE 5]

\* A regular expression matches what it is the beginning of; that of two
\* fives is none.
MCCompiles == AnyText \ {<<"5", "5">>}
MCRegex == {<<r, t>> \in MCCompiles \X AnyText : IsPrefix(r, t)}

\* A list of one element for each piece.
MCList == [t \in AnyText |-> {<<t[n]>> : n \in DOMAIN t}]

\* A file that changed, an empty one, one that is only at home, and none.
MCRemote ==
    [t \in AnyText |-> CASE t = <<"on">> -> {<<"on">>, <<"5", "5">>}
                         [] t = <<"5">>  -> {}
                         [] OTHER        -> None]
MCLocal ==
    [t \in AnyText |-> CASE t = <<"on">>      -> {<<"5">>}
                         [] t = <<"5">>       -> {<<"5">>}
                         [] t = <<"5", "5">>  -> {<<"on">>}
                         [] OTHER             -> None]
=============================================================================
