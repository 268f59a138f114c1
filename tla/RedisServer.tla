---------------------------- MODULE RedisServer ----------------------------
(***************************************************************************)
(* The Redis commands src/plugins/redisStore.ts sends, on one key of the   *)
(* server at server time t.  Redis is no part of the repository: this is   *)
(* how the store's code uses it.  A key is [value, expires]; `expires` is  *)
(* the last millisecond at which the key is there, or one of the codes     *)
(* PTTL answers for a key without an expiry and for a key that is gone.    *)
(***************************************************************************)
EXTENDS Integers

NoExpiry == -1
Gone     == -2

KeysHolding(V) == [value : V, expires : Nat \cup {NoExpiry, Gone}]

Alive(key, t) == key.expires = NoExpiry \/ t <= key.expires

Pttl(key, t) ==
    IF ~Alive(key, t) THEN Gone
    ELSE IF key.expires = NoExpiry THEN NoExpiry
    ELSE key.expires - t

Get(key, t, default) == IF Alive(key, t) THEN key.value ELSE default

Incrby(key, t, by) ==
    IF Alive(key, t) THEN [key EXCEPT !.value = @ + by]
    ELSE [value |-> by, expires |-> NoExpiry]

Pexpire(key, t, ttl) == IF Alive(key, t) THEN [key EXCEPT !.expires = t + ttl] ELSE key

Psetex(value, t, ttl) == [value |-> value, expires |-> t + ttl]

\* A key whose time is over, forgotten by the server.
Forgotten(key, t, blank) ==
    IF Alive(key, t) THEN key ELSE [value |-> blank, expires |-> Gone]
=============================================================================
