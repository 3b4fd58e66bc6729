--------------------------- MODULE MC_HttpServer ----------------------------
\* The event loop with two clients.
EXTENDS HttpServer, TLC

\* one number for each client, and one for both: the second accept fails
TwoFds == {5, 6}
OneFd == {5}

\* connections are interchangeable, and so are heap addresses
Sym == Permutations(Conn) \cup Permutations(Addr)
=============================================================================
