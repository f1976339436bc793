--------------------------- MODULE MCProxyFencing ---------------------------
(***************************************************************************)
(* ProxyFencing for TLC: proxies are interchangeable.                      *)
(***************************************************************************)
EXTENDS ProxyFencing, TLC

ProxySymmetry == Permutations(Proxies) \cup Permutations(DBs)
=============================================================================
