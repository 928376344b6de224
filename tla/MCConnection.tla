---------------------------- MODULE MCConnection ----------------------------
(* Two workstations that are one to the server: "bar" and "bart", when the text  *)
(* "server:port" has three letters; "pc1" is another.                            *)
EXTENDS Connection

Heard == [s \in Stations |-> IF s = "pc1" THEN "pc1" ELSE "bar"]
=============================================================================
