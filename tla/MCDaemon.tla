------------------------------ MODULE MCDaemon ------------------------------
(* An instance of Daemon for TLC: two specs of one name and a recipe file.    *)
EXTENDS Daemon

MCTarget == [u1 |-> "a", u2 |-> "b", u3 |-> "a", u4 |-> "r"]
MCName == [a |-> "n", b |-> "n"]
MCMixes == {[uses |-> U, writes |-> 1] : U \in {{"u1", "u2", "u3"}, {"u1", "u2", "u4"}}}
      \cup {[uses |-> {"u1", u}, writes |-> 2] : u \in {"u2", "u3", "u4"}}
MCWritable == {<<"a", p>> : p \in Parts} \cup {<<"r", "src">>}
=============================================================================
