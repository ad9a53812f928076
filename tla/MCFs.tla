-------------------------------- MODULE MCFs --------------------------------
(* Instances of Fs for TLC: blocks of 2 bytes, names of one or two         *)
(* characters, three places in files.                                        *)
EXTENDS Fs

(* Members one right behind the other. *)
Laid(members) ==
  LET at[k \in DOMAIN members] ==
        IF k = 1 THEN 0
        ELSE at[k - 1] + Block + Padded(members[k - 1].size)
  IN  [k \in DOMAIN members |->
         [name |-> members[k].name, at |-> at[k], size |-> members[k].size]]

MCArchives == { Laid(members) : members \in
  { <<>>,
    << [name |-> <<"a">>, size |-> 3] >>,
    << [name |-> <<"a", "b">>, size |-> 2], [name |-> <<"a">>, size |-> 1] >>,
    << [name |-> <<"b">>, size |-> 0], [name |-> <<"a", "b">>, size |-> 5],
       [name |-> <<"a">>, size |-> 1] >>,
    << [name |-> <<"b">>, size |-> 1], [name |-> <<"a", "b">>, size |-> 1],
       [name |-> <<"a">>, size |-> 1], [name |-> <<"c">>, size |-> 1] >> } }

MCNames == { <<"d">>, <<"a">> }

MCPaths ==
  { <<>>, <<"S">>, <<"S", ":", "/">>,
    <<"S", ":", "/", "a">>, <<"S", ":", "/", "a", "b">>, <<"/", "S", "/", "/", "b">>,
    <<"S", ":", "/", "a", "/", "b">>, <<"d", "/", "a">>, <<"d", "/", "d", "/", "a">>,
    <<"a">>, <<"x">> }
=============================================================================
