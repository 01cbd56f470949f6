---------------------------- MODULE MCDpiServer ----------------------------
(* Instances of DpiServer for TLC.                                         *)
EXTENDS DpiServer, TLC

(* Transports, connections, handlers and downloads are interchangeable.    *)
Symmetry ==
  Permutations(Transport) \cup Permutations(Conn)
    \cup Permutations(Post) \cup Permutations(Download)
=============================================================================
