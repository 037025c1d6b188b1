----------------------------- MODULE MCRateLimit -----------------------------
(* Small instances of RateLimit for TLC. *)
EXTENDS RateLimit, TLC

CONSTANTS fast, slow, c1, c2, login, stream, ip, ip_username, user_id, x, y

\* Two processes, one clock a unit ahead; two clients behind one ip address.
MCOffset == fast :> 1 @@ slow :> 0

\* public_auth_login has two sliding windows, stream_connect one token bucket.
MCRulesOf == login :> <<ip, ip_username>> @@ stream :> <<user_id>>
MCMaxRequests == ip :> 2 @@ ip_username :> 1
MCWindowSeconds == ip :> 2 @@ ip_username :> 1
MCCapacity == user_id :> 1
MCRefillTokens == user_id :> 1
MCRefillPeriod == user_id :> 2

\* The second client sends a login without a username, and is signed in.
MCSubjectOf ==
  ip :> (c1 :> x @@ c2 :> x) @@ ip_username :> (c1 :> y @@ c2 :> NoSubject)
    @@ user_id :> (c1 :> NoSubject @@ c2 :> x)

\* The keys of different policies have nothing to do with each other: a behaviour is about
\* one policy.
OnePolicy ==
  /\ \A p, q \in Process : (request'[p] # NoRequest /\ request'[q] # NoRequest) =>
       request'[p].policy = request'[q].policy
  /\ charges'[user_id, x] = <<>> \/ charges'[ip, x] = <<>>
=============================================================================
