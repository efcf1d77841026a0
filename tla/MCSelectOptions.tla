-------------------------- MODULE MCSelectOptions --------------------------
(* The two callers, "of seedwords:" (13) with the mnemonic lengths and     *)
(* "length:" (7) with the pin lengths, and their option lists and one of   *)
(* three-digit numbers behind every other prompt that leaves room.         *)
EXTENDS SelectOptions

Lengths == << <<"1", "2">>, <<"1", "5">>, <<"1", "8">>, <<"2", "4">>, <<"3">>, <<"6">>, <<"9">> >>
PinLengths == << <<"4">>, <<"5">>, <<"6">>, <<"7">>, <<"8">> >>
Bytes == << <<"2", "5", "5">>, <<"7">>, <<"6", "4">> >>

MCCallers ==
    [prompt : 0..13, options : {Lengths, PinLengths}] \cup [prompt : 0..12, options : {Bytes}]
=============================================================================
