---------------------- MODULE RefreshTokenRegistry ----------------------
(***************************************************************************)
(* What refresh-token rotation promises to a client: a refresh token is    *)
(* exchanged for a new one at most once.  Nothing is said here of locks,   *)
(* sessions, devices or Redis; AuthSession is shown to implement it.       *)
(***************************************************************************)
CONSTANT Token

VARIABLES issued,     \* the tokens written to the session store so far
          exchanged   \* the exchanges so far: <<the token given, the new one>>

registryVars == <<issued, exchanged>>

RegistryInit == issued = {} /\ exchanged = {}

Unspent(t) == \A x \in exchanged : x[1] # t

(* A login hands out a token nobody held before. *)
Issue(t) ==
    /\ t \notin issued
    /\ issued' = issued \cup {t}
    /\ UNCHANGED exchanged

(* A refresh exchanges a token that was not exchanged before for a new one. *)
Redeem(old, new) ==
    /\ old \in issued /\ Unspent(old)
    /\ new \notin issued
    /\ issued' = issued \cup {new}
    /\ exchanged' = exchanged \cup {<<old, new>>}

RegistryNext ==
    \/ \E t \in Token : Issue(t)
    \/ \E old, new \in Token : Redeem(old, new)

RegistrySpec == RegistryInit /\ [][RegistryNext]_registryVars

(* No token was exchanged for two. *)
ExchangedOnce == \A x, y \in exchanged : x[1] = y[1] => x = y
=============================================================================
