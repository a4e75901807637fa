------------------------------ MODULE MCProxy ------------------------------
(* A small instance of Proxy: an essential host and a passthrough one, whose *)
(* clients pin the host's certificate, a governed host, and the essential one *)
(* in capitals.                                                              *)
EXTENDS Proxy, TLC

MCNames4 == {"llm", "LLM", "app", "git"}
MCNames2 == {"llm", "LLM"}
MCNames3 == {"llm", "app", "git"}
MCLower == [n \in Names |-> IF n = "LLM" THEN "llm" ELSE n]

\* Down; up without a bundle; and with one that lets reads of git and tunnels
\* through.
MCOpaStates ==
  {[up |-> FALSE, loaded |-> FALSE, allows |-> {}],
   [up |-> TRUE,  loaded |-> FALSE, allows |-> {}],
   [up |-> TRUE,  loaded |-> TRUE,
    allows |-> (Names \cap {"git"}) \X {"read"} \cup (Names \ {"LLM"}) \X {"CONNECT"}]}

MCSymmetry == Permutations(Conns)
=============================================================================
