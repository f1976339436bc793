-------------------------- MODULE ProxyConnections ---------------------------
(***************************************************************************)
(* The read-only side of a proxy and the TCP proxy below it: which databases  *)
(* a check selects, what becomes of connections when the selection changes    *)
(* while they are being set up or in use, and how new ones are spread.        *)
(*                                                                         *)
(* A database stands for its address.  A connection keeps the destination it  *)
(* was given; that destination is removed for it once it was dropped from the *)
(* set (its closeConns channel is closed), whatever becomes of the address.   *)
(***************************************************************************)
EXTENDS Integers, SequencesExt

CONSTANTS
    N,                \* number of databases, numbered in UID order
    Conns,            \* client connections
    Sync,             \* synchronous standbys of whoever is master
    ReplicaPriority,  \* "sync" | "async" | "any"
    MaxLag,
    IncludePrimary,
    NoFallback,
    StopListening,
    MaxPos            \* bound: reported WAL positions

NoDB == 0
DBs == 1..N

ASSUME ConnectionsAssumption ==
    /\ N \in Nat \ {0} /\ Sync \subseteq DBs
    /\ ReplicaPriority \in {"sync", "async", "any"}
    /\ MaxLag \in Nat /\ MaxPos \in Nat
    /\ IncludePrimary \in BOOLEAN /\ NoFallback \in BOOLEAN /\ StopListening \in BOOLEAN

VARIABLES
    master,      \* cluster data: Proxy.Spec.MasterDBUID
    eligible,    \* cluster data: standbys whose status is eligible for routing
    pos,         \* cluster data: pos[d], the reported XLogPos
    listening,   \* the listener of the proxy is up
    order,       \* destinationOrder
    nextDest,    \* nextDestination
    conn,        \* conn[c]: [state, dest, removed]
    recent       \* history: destinations given since the set changed

cdVars == <<master, eligible, pos>>
vars == <<cdVars, listening, order, nextDest, conn, recent>>

NoConn == [state |-> "none", dest |-> NoDB, removed |-> FALSE]

Init ==
    /\ master = NoDB
    /\ eligible = {}
    /\ pos = [d \in DBs |-> 0]
    /\ listening = FALSE
    /\ order = <<>>
    /\ nextDest = 0
    /\ conn = [c \in Conns |-> NoConn]
    /\ recent = <<>>

-----------------------------------------------------------------------------
\* Cluster data, as the sentinel and the keepers change them

NewMaster ==
    /\ \E m \in DBs \cup {NoDB} : m # master /\ master' = m /\ eligible' = eligible \ {m}
    /\ UNCHANGED <<pos, listening, order, nextDest, conn, recent>>

StandbyStatus ==
    /\ \E d \in DBs \ {master} :
        eligible' = IF d \in eligible THEN eligible \ {d} ELSE eligible \cup {d}
    /\ UNCHANGED <<master, pos, listening, order, nextDest, conn, recent>>

Progress ==
    /\ \E d \in DBs, p \in 0..MaxPos : p # pos[d] /\ pos' = [pos EXCEPT ![d] = p]
    /\ UNCHANGED <<master, eligible, listening, order, nextDest, conn, recent>>

-----------------------------------------------------------------------------
\* ClusterChecker: which databases may be read from

XLogLag(primary, standby) == IF primary > standby THEN primary - standby ELSE 0

\* readOnlyStandbyCandidates, all of them
Candidates == {d \in eligible \ {master} : XLogLag(pos[master], pos[d]) <= MaxLag}

SelectPriority(sync, async) ==
    CASE ReplicaPriority = "any" -> sync \o async
      [] ReplicaPriority = "async" -> IF async # <<>> THEN async ELSE sync
      [] ReplicaPriority = "sync" -> IF sync # <<>> THEN sync ELSE async

InOrder(S) == SelectSeq([i \in DBs |-> i], LAMBDA d : d \in S)

\* readOnlyDestinations
ReadOnlyDestinations ==
    LET standbys == SelectPriority(InOrder(Candidates \cap Sync), InOrder(Candidates \ Sync))
        selected == IF IncludePrimary THEN Append(standbys, master) ELSE standbys
    IN IF master = NoDB THEN <<>>
       ELSE IF selected = <<>> /\ ~NoFallback THEN <<master>> ELSE selected

-----------------------------------------------------------------------------
\* The TCP proxy

\* Mutant: a connection that is still being set up is not told.
RemovedOpen(S) ==
    [c \in Conns |-> IF conn[c].dest \in S /\ conn[c].state = "open"
                     THEN [conn[c] EXCEPT !.removed = TRUE] ELSE conn[c]]

\* closeConns is closed for the connections to these destinations.
Removed(S) ==
    [c \in Conns |-> IF conn[c].dest \in S THEN [conn[c] EXCEPT !.removed = TRUE] ELSE conn[c]]

\* Mutant: every destination of the new set is a new one.
SetDestinationsAnew(dests) ==
    IF dests = order THEN UNCHANGED <<order, nextDest, conn, recent>>
    ELSE /\ order' = dests
         /\ nextDest' = IF dests = <<>> THEN 0 ELSE nextDest % Len(dests)
         /\ conn' = Removed(ToSet(order))
         /\ recent' = <<>>

\* SetDestinations: connections to destinations that are dropped are closed.
SetDestinations(dests) ==
    IF dests = order THEN UNCHANGED <<order, nextDest, conn, recent>>
    ELSE /\ order' = dests
         /\ nextDest' = IF dests = <<>> THEN 0 ELSE nextDest % Len(dests)
         /\ conn' = Removed(ToSet(order) \ ToSet(dests))
         /\ recent' = <<>>

\* Stop: also what was accepted will not get a destination.
Stop ==
    /\ listening' = FALSE
    /\ order' = <<>> /\ nextDest' = 0 /\ recent' = <<>>
    /\ conn' = [c \in Conns |-> IF conn[c].state = "none" THEN conn[c]
                                ELSE [conn[c] EXCEPT !.removed = TRUE]]

\* Start: a connection is accepted.
Accept(c) ==
    /\ listening /\ conn[c].state = "none"
    /\ conn' = [conn EXCEPT ![c] = [NoConn EXCEPT !.state = "accepted"]]
    /\ UNCHANGED <<cdVars, listening, order, nextDest, recent>>

\* Mutant: the connection takes the destination at its turn, but not the turn.
DestinationStays(c) ==
    /\ conn[c].state = "accepted"
    /\ IF order = <<>> \/ conn[c].removed
       THEN conn' = [conn EXCEPT ![c] = NoConn] /\ UNCHANGED <<nextDest, recent>>
       ELSE LET d == order[nextDest + 1] IN
            /\ conn' = [conn EXCEPT ![c] = [state |-> "dialing", dest |-> d, removed |-> FALSE]]
            /\ nextDest' = nextDest
            /\ recent' = IF Len(recent) = Len(order) THEN Append(Tail(recent), d) ELSE Append(recent, d)
    /\ UNCHANGED <<cdVars, listening, order>>

\* proxyConn takes a destination in turn; without one the client is let go.
Destination(c) ==
    /\ conn[c].state = "accepted"
    /\ IF order = <<>> \/ conn[c].removed
       THEN conn' = [conn EXCEPT ![c] = NoConn] /\ UNCHANGED <<nextDest, recent>>
       ELSE LET d == order[(nextDest % Len(order)) + 1] IN
            /\ conn' = [conn EXCEPT ![c] = [state |-> "dialing", dest |-> d, removed |-> FALSE]]
            /\ nextDest' = (nextDest + 1) % Len(order)
            /\ recent' = IF Len(recent) = Len(order) THEN Append(Tail(recent), d) ELSE Append(recent, d)
    /\ UNCHANGED <<cdVars, listening, order>>

\* The dial succeeds (even if it is being cancelled), or fails, or is cancelled.
Dial(c) ==
    /\ conn[c].state = "dialing"
    /\ \E s \in {"open", "none"} :
        conn' = [conn EXCEPT ![c] = IF s = "open" THEN [@ EXCEPT !.state = s] ELSE NoConn]
    /\ UNCHANGED <<cdVars, listening, order, nextDest, recent>>

\* The destination was removed: both ends are closed.
CloseRemoved(c) ==
    /\ conn[c].state = "open"
    /\ conn[c].removed
    /\ conn' = [conn EXCEPT ![c] = NoConn]
    /\ UNCHANGED <<cdVars, listening, order, nextDest, recent>>

\* The client or the server ends the connection.
ClosePeer(c) ==
    /\ conn[c].state = "open"
    /\ conn' = [conn EXCEPT ![c] = NoConn]
    /\ UNCHANGED <<cdVars, listening, order, nextDest, recent>>

-----------------------------------------------------------------------------
\* ClusterChecker.Start: a check succeeds, times out, or fails otherwise; in the
\* last case the destinations stay.

Check ==
    /\ listening' = TRUE
    /\ SetDestinations(ReadOnlyDestinations)
    /\ UNCHANGED cdVars

CheckTimeout ==
    /\ listening
    /\ IF StopListening THEN Stop
       ELSE SetDestinations(<<>>) /\ UNCHANGED listening
    /\ UNCHANGED cdVars

-----------------------------------------------------------------------------
Next ==
    \/ NewMaster \/ StandbyStatus \/ Progress
    \/ Check \/ CheckTimeout
    \/ \E c \in Conns : \/ Accept(c) \/ Destination(c) \/ Dial(c)
                        \/ CloseRemoved(c) \/ ClosePeer(c)

Spec == Init /\ [][Next]_vars

\* Checks succeed again and again; the goroutines of a connection run, a dial ends.
FairSpec ==
    /\ Spec
    /\ WF_vars(Check)
    /\ \A c \in Conns : WF_vars(Destination(c) \/ Dial(c) \/ CloseRemoved(c))

-----------------------------------------------------------------------------
\* Properties

\* Every variable has the shape of the Go state it stands for.
TypeOK ==
    /\ master \in DBs \cup {NoDB} /\ eligible \subseteq DBs /\ pos \in [DBs -> 0..MaxPos]
    /\ listening \in BOOLEAN
    /\ IsInjective(order) /\ ToSet(order) \subseteq DBs
    /\ nextDest \in 0..Len(order)
    /\ conn \in [Conns -> [state : {"none", "accepted", "dialing", "open"},
                           dest : DBs \cup {NoDB}, removed : BOOLEAN]]

\* Connections to databases that may not be read from any more do not last: what
\* routing selects in the cluster data becomes true of the connections.
ConnectionsFollow ==
    \A c \in Conns :
        (conn[c].state = "open" /\ conn[c].dest \notin ToSet(ReadOnlyDestinations))
            ~> (conn[c].state = "none" \/ conn[c].dest \in ToSet(ReadOnlyDestinations))

\* "Active connections to retained destinations keep using their selected backend"
\* (SetDestinations): a connection is given up only if its database was dropped.
RetainedUndisturbed ==
    [][\A c \in Conns : (conn[c].dest \in ToSet(order') /\ conn[c].dest = conn'[c].dest)
            => conn'[c].removed = conn[c].removed]_vars

\* New connections are spread: as long as the set does not change, as many in a row
\* as there are destinations all go to different ones.
Spread == IsInjective(recent)
=============================================================================
