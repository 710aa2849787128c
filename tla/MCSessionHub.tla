----------------------------- MODULE MCSessionHub -----------------------------
(* Instances of the session hub for TLC: sockets s1 and s2 are two connections *)
(* of client a (a reconnect, or two tabs), s3 is client b's.                   *)
EXTENDS SessionHub, TLC

CONSTANTS a, b, s1, s2, s3, h1, h2, t1

MCOwner == [s \in Sockets |-> IF s = s3 THEN b ELSE a]

\* The two sockets of client a are alike.
MCSameOwner == Permutations({s1, s2})

\* With a socket each, the two clients are alike: a renaming of clients and sockets that
\* leaves each socket with its owner changes nothing.
MCSameClients ==
  {p \in {f @@ g : f \in Permutations({a, b}), g \in Permutations({s1, s3})} :
     (p[s1] = s1) = (p[a] = a)}

=============================================================================
