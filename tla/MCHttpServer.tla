---------------------------- MODULE MCHttpServer ----------------------------
EXTENDS HttpServer, TLC

ConnSymmetry == Permutations(Conns)
=============================================================================
