------------------------------- MODULE Hashing -------------------------------
(***************************************************************************)
(* Stored password hashes and how the two programs judge them: the auth    *)
(* service (HashingService) and the library of the other services          *)
(* (HashingHandler of osauthlib), which reads the same table.              *)
(***************************************************************************)

CONSTANTS
    Password,
    Empty,      \* the empty string
    Null        \* no hash, which both programs treat like an empty one

\* A stored hash is judged by its form first: by the prefix "$argon2" and by a length
\* of 152.  The bad ones have the form only: an argon2 string that cannot be parsed, and
\* 152 characters whose second part is longer in bytes than a digest.
Hash == [alg : {"argon2", "badArgon2", "sha512", "badSha512", "other"}, of : Password]

IsArgon2Hash(hash) == hash.alg \in {"argon2", "badArgon2"}
IsSha512Hash(hash) == hash.alg \in {"sha512", "badSha512"}

\* Old passwords, to be migrated.
IsDeprecatedHash(hash) == hash # Null /\ IsSha512Hash(hash)

\* hash() of each program; the service leaves an empty string as it is.
LibraryHash(p) == [alg |-> "argon2", of |-> p]
ServiceHash(p) == IF p = Empty THEN Null ELSE LibraryHash(p)

\* isEquals of the service: verify() of argon2 and timingSafeEqual throw for a hash that
\* only looks like one.
IsEquals(toHash, toCompare) ==
    IF toHash = Empty \/ toCompare = Null \/ toCompare.alg = "other" THEN "no"
    ELSE IF toCompare.alg \in {"badArgon2", "badSha512"} THEN "throws"
    ELSE IF toCompare.of = toHash THEN "yes" ELSE "no"

\* Mutants of LibraryIsEqual: the library does not know the old format, or the new one.
WithoutSha512(toHash, toCompare) ==
    toHash # Empty /\ toCompare # Null /\ toCompare.alg = "argon2" /\ toCompare.of = toHash
WithoutArgon2(toHash, toCompare) ==
    toHash # Empty /\ toCompare # Null /\ toCompare.alg = "sha512" /\ toCompare.of = toHash

\* is_equal of the library catches what argon2 raises and compares strings of any length.
LibraryIsEqual(toHash, toCompare) ==
    /\ toHash # Empty /\ toCompare # Null
    /\ toCompare.alg \in {"argon2", "sha512"} /\ toCompare.of = toHash
=============================================================================
