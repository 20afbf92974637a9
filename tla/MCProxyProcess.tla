------------------------------- MODULE MCProxyProcess -------------------------------
(* ProxyProcess with two settings, of which a client writes one or the other. *)
EXTENDS ProxyProcess, TLC

CONSTANTS url, tokens, old, new

MCUpdates == {url :> new, tokens :> new}
Env(first, later) == [imported |-> url :> first @@ tokens :> old,
                      loaded |-> url :> later @@ tokens :> old]

\* Another URL in the environment from the start, or only in .env.
MCEnvironments == {Env(old, old), Env(new, new), Env(old, new)}
MCFirstFiles == {Absent, tokens :> new}
====================================================================================
