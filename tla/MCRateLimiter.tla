---------------------------- MODULE MCRateLimiter ---------------------------
(* One configured token and a made-up one on the first host, clients with   *)
(* no token on both: three keys, of which the limiter remembers two.        *)
EXTENDS RateLimiter

CONSTANTS op, fake, h1, h2

From(token, host) == [token |-> token, host |-> host]
Clients == {From(op, h1), From(fake, h1), From(NoToken, h1), From(NoToken, h2)}
=============================================================================
