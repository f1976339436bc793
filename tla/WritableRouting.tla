--------------------------- MODULE WritableRouting ---------------------------
(***************************************************************************)
(* What the writable listeners of a set of proxies promise together: at    *)
(* any time the proxies that route client connections all route them to   *)
(* the same database, and the cluster moves to another database only       *)
(* through a state in which no proxy routes at all.                        *)
(*                                                                         *)
(* This is the abstract specification that the failover handshake between  *)
(* the sentinel and the proxies (module ProxyFencing) implements.          *)
(***************************************************************************)
CONSTANTS Proxies,   \* the proxy processes
          DBs,       \* the databases that may be a master
          NoDB       \* "no destination"

VARIABLE route       \* route[p]: the writable destination of proxy p

Init == route = [p \in Proxies |-> NoDB]

\* Proxy p starts routing to m: nobody routes anywhere else.
Connect(p, m) ==
    /\ \A q \in Proxies : route[q] \in {NoDB, m}
    /\ route' = [route EXCEPT ![p] = m]

\* Proxy p closes its destination.
Disconnect(p) == route' = [route EXCEPT ![p] = NoDB]

Next == \E p \in Proxies : Disconnect(p) \/ \E m \in DBs : Connect(p, m)

Spec == Init /\ [][Next]_route
=============================================================================
