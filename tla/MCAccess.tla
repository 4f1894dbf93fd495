------------------------------ MODULE MCAccess ------------------------------
(* Instances of Access for TLC. *)
EXTENDS Access, TLC

\* Neither the users who are not the administrator nor the connections have
\* any order.
Symmetric == Permutations(Users \ {Admin}) \cup Permutations(Connections)

\* mbedtls_md_get_size
MCSize == [md \in {"SHA256", "SHA512"} |-> IF md = "SHA256" THEN 32 ELSE 64]
=============================================================================
