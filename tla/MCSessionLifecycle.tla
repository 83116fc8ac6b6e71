-------------------------- MODULE MCSessionLifecycle --------------------------
(* A session that ends and one that follows it on the connection.          *)
EXTENDS SessionLifecycle

CONSTANTS s1, s2

TwoSessions == {s1, s2}
===============================================================================
