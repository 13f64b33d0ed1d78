------------------------------ MODULE MCResults ------------------------------
(* Instances of Results for TLC. *)
EXTENDS Results

(* Complete; empty parts; separators in the data; cut short; empty.        *)
Ids == {<<"n", ";", "v", ";", "a", ";", "d">>, <<"n", ";", ";", ";">>,
        <<";", "v", ";", "a", ";", "d", ";", "e", ";">>,
        <<"n", ";", "v", ";", "a">>, <<"n", ";">>, <<"n">>, <<>>}
OneId == {<<"n", ";", "v", ";", "a", ";", "d">>}
=============================================================================
