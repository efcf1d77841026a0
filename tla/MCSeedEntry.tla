---------------------------- MODULE MCSeedEntry ----------------------------
(* Five letters and the end mark on two keys.  No word begins with the     *)
(* third letter; some words begin others, and one is alone with its first  *)
(* letter.                                                                 *)
EXTENDS SeedTyping

MCWords == << <<1, 2>>, <<1, 2, 5>>, <<1, 3, 2>>, <<2, 4>>, <<4, 1>>, <<4, 1, 1>>, <<4, 5>>, <<5, 3>> >>

MCList == [words |-> MCWords,
           first_char_index_map |->
              [c \in 1..6 |-> Cardinality({i \in 1..Len(MCWords) : MCWords[i][1] < c})]]

MCValid == {<<i>> : i \in {0, 3, 5}} \cup {<<i, j>> \in (0..7) \X (0..7) : (i + j) % 4 = 1}
=============================================================================
