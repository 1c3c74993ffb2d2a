------------------------------ MODULE MCServices ------------------------------
(* Small services: two requests and keys, one page, one native session, one other *)
(* submission, one workspace.                                                     *)
EXTENDS Services

CONSTANTS r1, r2, k1, k2, c1, s1, w1

MCRequests == {r1, r2}
MCKeys == {k1, k2}
MCClients == {c1}
MCSessions == {s1}
MCWriters == {w1}
=============================================================================
