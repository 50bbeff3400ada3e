------------------------------ MODULE MCGateway ------------------------------
(* The commands of the program, what they begin with and what begins with    *)
(* them.                                                                     *)
EXTENDS Gateway

CONSTANTS s1, s2

Lines == [s \in {s1, s2} |-> IF s = s1 THEN 3 ELSE 1]

Admin == <<"vandrare", "gateway", "ssh", "admin">>

Whoami == <<"vandrare", "whoami">>

Commands ==
  {SubSeq(Admin, 1, n) : n \in 0..4} \cup {SubSeq(Admin, 2, 4), Append(Admin, "admin")}
    \cup {Whoami, Append(Whoami, "admin"), <<"whoami">>, Append(Admin, "whoami")}
=============================================================================
