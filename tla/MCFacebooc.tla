----------------------------- MODULE MCFacebooc -----------------------------
(* Facebooc on small instances.  Browsers and threads are interchangeable  *)
(* where Seed gives all browsers the same cookies; names are not, where a  *)
(* cookie cuts one of them.                                                *)
EXTENDS Facebooc, TLC

CONSTANTS u1, u2, plain1, plain2, angle, angleStored, p1, p2

Symmetry ==
    Permutations(Browser) \cup Permutations(Thread)
    \cup Permutations(Password)
ThreadSymmetry == Permutations(Thread)

\* Only one of the addresses has an angle bracket in it.
EscapeAngle == [e \in Email |-> IF e = angle THEN angleStored ELSE e]

\* u2 is u1 with a semicolon and something behind it.
CutToU1 == [u \in Username |-> u1]
KeepNames == [u \in Username |-> u]

\* The lines of web/route.conf: /connect and /about are not among them.
ShippedRoutes == Operation \ {"connect", "about"}
\* route.conf with a line for /connect, which profile.c:44 links to.
RoutesWithConnect == Operation \ {"about"}

EmptyDatabase == [accounts |-> <<>>, sessions |-> <<>>,
                  jar |-> [b \in Browser |-> NULL]]

\* Two users who have signed up and logged in before, in a browser each.
Account(u, e, p) == [username |-> u, email |-> e, password |-> p]
TwoUsers ==
    [accounts |-> <<Account(u1, plain1, p1), Account(u2, plain2, p1)>>,
     sessions |-> <<[account |-> 1, sid |-> <<0, u1>>], [account |-> 2, sid |-> <<1, u2>>]>>,
     jar |-> CHOOSE f \in [Browser -> {<<0, u1>>, <<1, u2>>}] :
                 \A b, c \in Browser : f[b] = f[c] => b = c]
=============================================================================
