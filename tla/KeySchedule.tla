------------------------------ MODULE KeySchedule -----------------------------
(***************************************************************************)
(* The key derivations, as free terms: HKDF of different inputs is         *)
(* different, and a Diffie-Hellman secret is the pair of its two keys.     *)
(* sl_hkdf.c, sl_ecdh.c, sl_handshake_secret.c, sl_session_keys.c,         *)
(* sl_finished.c and sl_rekey.c.                                           *)
(***************************************************************************)
EXTENDS Integers

\* An absent salt is 32 zero bytes.
NoSalt == [zeroes |-> 32]
hkdf(ikm, salt, info) == [ikm |-> ikm, salt |-> salt, info |-> info]

\* All zeroes, the value before a hello is taken, is no point of the curve.
validate_pubkey(pub) == pub # "zeroes"
compute_shared(mine, theirs) == {mine, theirs}

session_keys_derive(master, salt) ==
    [client_key |-> hkdf(master, salt, "c2s key"), client_iv |-> hkdf(master, salt, "c2s iv"),
     server_key |-> hkdf(master, salt, "s2c key"), server_iv |-> hkdf(master, salt, "s2c iv")]

finished_derive_key(master, is_server) ==
    hkdf(master, NoSalt, IF is_server THEN "s2c finished" ELSE "c2s finished")

handshake_secret_derive(shared, transcript) ==
    LET master == hkdf(shared, transcript, "master")
    IN  [master |-> master,
         client_finished_key |-> finished_derive_key(master, FALSE),
         server_finished_key |-> finished_derive_key(master, TRUE),
         app_keys |-> session_keys_derive(master, transcript)]

finished_compute(key, hash) == [mac_by |-> key, over |-> hash]
finished_verify(key, hash, mac) == mac = finished_compute(key, hash)

ed25519_sign(who, hash) == [sig_by |-> who, over |-> hash]
ed25519_verify(who, hash, sig) == sig = ed25519_sign(who, hash)

\* A traffic secret is told apart by the master secret and the number of times it was
\* advanced, since HKDF of different secrets is different.  The next one is also the
\* salt of the keys made from it.
traffic_secret(master, n) == [master |-> master, advanced |-> n]
next_secret(current) == traffic_secret(current.master, current.advanced + 1)
rekeyed(current) == session_keys_derive(next_secret(current), next_secret(current))
===============================================================================
