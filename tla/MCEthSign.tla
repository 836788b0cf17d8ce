----------------------------- MODULE MCEthSign -----------------------------
(* y^2 = x^3 + 7 over F_79: 67 points, a prime below 79, so that some points *)
(* have an x the order does not reach; 7-bit words, so that some high s     *)
(* reach the top bit.                                                       *)
EXTENDS EthSign, TLC

MCG == <<1, 18>>
MCPubPoint == [k \in 1..(Q - 1) |-> ec_mul(k, G)]
MCKeys == {1, 34, 66}
MCDigests == {0, 1, 67, 127}
\* r and s at and beyond the ends of their range, and inside it: 1 is the x of a
\* point and 40 is not; 33 and 34 are the last low s and the first high one.  Every
\* way for v and yParity to be right, wrong, missing or at odds.
MCR == {0, 1, 40, 67}
MCS == {0, 1, 33, 34, 66, 67}
MCPresented ==
  {Wire("packed65", r, s, v, Absent) : r \in MCR, s \in MCS, v \in {1, 26, 27, 28, 29, 37}}
  \cup {Wire("eip2098", r, s, Absent, Absent) : r \in MCR, s \in {0, 1, 33, 63, 64, 65, 127}}
  \cup {Wire("rsv", r, s, v, y) : r \in {1, 40, Absent}, s \in {-1, 1, 34, 68},
                                  v \in {27, 28, 35, Absent}, y \in {-1, 0, 1, 2, Absent}}
MCAddresses == {PubPoint[k] : k \in {1, 20, 66}}
=============================================================================
