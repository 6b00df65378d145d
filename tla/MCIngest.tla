------------------------------ MODULE MCIngest ------------------------------
(* A small instance of Ingest for TLC: two producers that share a source   *)
(* and a key, and two payloads for one channel with one subscriber.        *)
EXTENDS Ingest, TLC

CONSTANTS p1, p2, s1, k1, m1, m2, c1, u1

MCMayPublish == {<<p1, s1>>, <<p2, s1>>}
MCChannelOf == (m1 :> c1) @@ (m2 :> c1)

(* The payloads are interchangeable, and so are the producers, so it is no *)
(* loss to say which payload the first producer has, and that it has a key *)
(* if the other one has.                                                   *)
MCInit ==
    /\ Init
    /\ req[p1].payload = m1
    /\ req[p2].key = k1 => req[p1].key = k1

MCSpec == MCInit /\ [][Next]_vars /\ Fairness
=============================================================================
