---------------------------- MODULE PasswordHash ----------------------------
(***************************************************************************)
(* How src/main/utils.c hashes a password, writes it to a string for NVS,  *)
(* reads it again after a boot and compares it with what a client sends.   *)
(*                                                                         *)
(* The firmware that reads a string need not be the one that wrote it: the *)
(* digest and the number of iterations are constants of a build.           *)
(*                                                                         *)
(* A digest is free: hashing puts its key in front of what is hashed, so   *)
(* that two results are the same only when everything they are made of is. *)
(***************************************************************************)
EXTENDS Integers, Sequences

CONSTANTS
    Salts,          \* what esp_fill_random may give
    Size,           \* the length of a hash, of each mbedtls_md_type_t
    MAX_ITERATIONS, \* bound on PASSWORD_HASH_ITERATIONS
    NO_PASSWORD     \* a password_data that is NULL

ASSUME PasswordAssumption == MAX_ITERATIONS \in Nat

Digests == DOMAIN Size

\* PASSWORD_HASH_FUNCTION and PASSWORD_HASH_ITERATIONS of a firmware, and the
\* digests its library knows.
Builds == {b \in [md : Digests, iterations : 0 .. MAX_ITERATIONS, known : SUBSET Digests] : b.md \in b.known}

Key(md, salt) == [md |-> md, salt |-> salt]

\* hmac_md, of data given as a sequence.
Hmac(md, salt, data) == <<Key(md, salt)>> \o data

HashLength(hash) == Size[hash[1].md]

-----------------------------------------------------------------------------
(* hmac_md_iterations: three buffers, two pointers and what is left to do.  *)

Unset == <<>>

\* The first iteration.
FirstHash(md, salt, data, iterations) ==
    LET dst == IF iterations = 1 THEN "output" ELSE "dst_buf"
    IN [memory |-> [b \in {"output", "dst_buf", "src_buf"} |->
                        IF b = dst THEN Hmac(md, salt, data) ELSE Unset],
        src |-> "src_buf", dst |-> dst]

\* Mutant: the target is changed one iteration too early.
RehashEarly(md, salt, h, iterations) ==
    LET dst == IF iterations = 2 THEN "output" ELSE h.src
    IN [memory |-> [h.memory EXCEPT ![dst] = Hmac(md, salt, h.memory[h.dst])],
        src |-> h.dst, dst |-> dst]

\* Another one, with so many iterations left, this one included: what was
\* written last is hashed into the other buffer, and at last into the output.
Rehash(md, salt, h, iterations) ==
    LET dst == IF iterations = 1 THEN "output" ELSE h.src
    IN [memory |-> [h.memory EXCEPT ![dst] = Hmac(md, salt, h.memory[h.dst])],
        src |-> h.dst, dst |-> dst]

\* The output; there is none without an iteration.
HmacIterations(md, salt, data, iterations) ==
    LET turn[i \in 1 .. iterations] ==
            IF i = 1 THEN FirstHash(md, salt, data, iterations)
                     ELSE Rehash(md, salt, turn[i - 1], iterations - i + 1)
    IN IF iterations = 0 THEN Unset ELSE turn[iterations].memory["output"]

-----------------------------------------------------------------------------
(* A password and the string it is stored as.                               *)

\* password_init, in a build.
PasswordInit(build, salt, cleartext) ==
    IF build.iterations = 0 THEN NO_PASSWORD
    ELSE [md |-> build.md, iterations |-> build.iterations, salt |-> salt,
          hash |-> HmacIterations(build.md, salt, <<cleartext>>, build.iterations)]

\* The four fields of password_to_string: the first two are those of the build.
PasswordToString(build, pwd) ==
    <<build.md, build.iterations, pwd.salt, pwd.hash>>

\* Mutant: the number of iterations is that of the build.
PasswordFromStringOwn(build, str) ==
    IF str[1] \in build.known /\ str[2] >= 1 /\ HashLength(str[4]) = Size[str[1]]
    THEN [md |-> str[1], iterations |-> build.iterations, salt |-> str[3], hash |-> str[4]]
    ELSE NO_PASSWORD

\* password_from_string
PasswordFromString(build, str) ==
    IF str[1] \in build.known /\ str[2] >= 1 /\ HashLength(str[4]) = Size[str[1]]
    THEN [md |-> str[1], iterations |-> str[2], salt |-> str[3], hash |-> str[4]]
    ELSE NO_PASSWORD

\* password_verify
PasswordVerify(pwd, cleartext) ==
    pwd.hash = HmacIterations(pwd.md, pwd.salt, <<cleartext>>, pwd.iterations)

-----------------------------------------------------------------------------
(* What is asked of them, of a password c among others.                     *)

\* The output holds the digest of c taken iterations times.
IsHashedRepeatedly(c) ==
    \A md \in Digests, salt \in Salts, n \in 1 .. MAX_ITERATIONS :
        HmacIterations(md, salt, <<c>>, n) = [i \in 1 .. n |-> Key(md, salt)] \o <<c>>

\* Set in a firmware, stored and read by any other, c is accepted and nothing else
\* is, but by a firmware that does not know the digest.
IsKept(c, others) ==
    \A writer, reader \in Builds, salt \in Salts :
        writer.iterations > 0 =>
            LET pwd == PasswordFromString(reader, PasswordToString(writer, PasswordInit(writer, salt, c)))
            IN IF writer.md \in reader.known
               THEN {tried \in others : PasswordVerify(pwd, tried)} = {c}
               ELSE pwd = NO_PASSWORD
=============================================================================
