------------------------------- MODULE Mesh -------------------------------
(***************************************************************************)
(* The transport of the operator network, engine/kobe-ecdsa/net/network.go *)
(* and transport.go: one connection per pair of operators, a read loop per *)
(* connection that feeds one inbox per operator, the channel of transport  *)
(* errors, and the FIN frames of the completion barrier.  The protocol     *)
(* drivers extend this module.                                             *)
(*                                                                         *)
(* A frame is a record; all the transport looks at is whether its tag is   *)
(* "Fin".  Between honest operators the checks of sender, session and      *)
(* signature always pass, so they are left out, as is TLS.                 *)
(***************************************************************************)
EXTENDS Integers, Sequences

CONSTANTS
    Operators,      \* the operators of this session, by index
    InboxCapacity   \* how many envelopes the inbox channel holds

ASSUME OperatorAssumption == Operators \subseteq Nat

ASSUME InboxAssumption == InboxCapacity \in Nat \ {0}

VARIABLES
    conns,      \* conns[i]: the peers i has registered a connection to
    wire,       \* wire[<<i, j>>]: sent by i, not yet read by j's read loop
    inbox,      \* inbox[i]: envelopes read and not yet taken by i's driver
    errs,       \* errs[i]: the peers whose loss has been raised to i's driver
    fins,       \* fins[i]: the peers whose FIN i has received
    finished,   \* finished[i]: i has produced its own result
    closed      \* closed[i]: i has closed its connections, or its process is gone

meshVars == <<conns, wire, inbox, errs, fins, finished, closed>>

Peers(i) == Operators \ {i}

Links == {link \in Operators \X Operators : link[1] # link[2]}

FinFrame == [tag |-> "Fin", valid |-> TRUE]

MeshInit ==
    /\ conns = [i \in Operators |-> {}]
    /\ wire = [link \in Links |-> <<>>]
    /\ inbox = [i \in Operators |-> <<>>]
    /\ errs = [i \in Operators |-> {}]
    /\ fins = [i \in Operators |-> {}]
    /\ finished = [i \in Operators |-> FALSE]
    /\ closed = [i \in Operators |-> FALSE]

----------------------------------------------------------------------------
\* Pieces of the drivers' actions.

\* The lower index dials; both ends register the connection they agreed on.
Handshake(i, j) ==
    /\ i < j /\ j \notin conns[i]
    /\ ~closed[i] /\ ~closed[j]
    /\ conns' = [conns EXCEPT ![i] = @ \cup {j}, ![j] = @ \cup {i}]
    /\ UNCHANGED <<wire, inbox, errs, fins, finished, closed>>

MeshComplete(i) == conns[i] = Peers(i)

\* What goes to a closed connection is lost; send may also report it.
Push(i, j, frame) ==
    wire' = IF closed[j] THEN wire
            ELSE [wire EXCEPT ![<<i, j>>] = Append(@, frame)]

\* Closing a socket that holds unread data resets it, and what was on its
\* way out may be cut short; otherwise all of it still arrives.
Surviving(i, j) ==
    IF wire[<<j, i>>] = <<>> THEN {Len(wire[<<i, j>>])} ELSE 0..Len(wire[<<i, j>>])

Teardown(i) ==
    /\ closed' = [closed EXCEPT ![i] = TRUE]
    /\ inbox' = [inbox EXCEPT ![i] = <<>>]
    /\ errs' = [errs EXCEPT ![i] = {}]
    /\ fins' = [fins EXCEPT ![i] = {}]
    /\ UNCHANGED <<conns, finished>>
    /\ \E kept \in [Peers(i) -> UNION {Surviving(i, j) : j \in Peers(i)}] :
          /\ \A j \in Peers(i) : kept[j] \in Surviving(i, j)
          /\ wire' = [link \in Links |->
                        IF link[2] = i THEN <<>>
                        ELSE IF link[1] = i THEN SubSeq(wire[link], 1, kept[link[2]])
                        ELSE wire[link]]

----------------------------------------------------------------------------
\* The read loops.

ReadPayload(i, j) ==
    /\ ~closed[i] /\ j \in conns[i]
    /\ wire[<<j, i>>] # <<>>
    /\ Head(wire[<<j, i>>]).tag # "Fin"
    /\ Len(inbox[i]) < InboxCapacity
    /\ inbox' = [inbox EXCEPT ![i] = Append(@, [from |-> j, frame |-> Head(wire[<<j, i>>])])]
    /\ wire' = [wire EXCEPT ![<<j, i>>] = Tail(@)]
    /\ UNCHANGED <<conns, errs, fins, finished, closed>>

\* Faulty variant: a FIN is put into the inbox like any other frame.
ReadFinAsPayload(i, j) ==
    /\ ~closed[i] /\ j \in conns[i]
    /\ wire[<<j, i>>] # <<>>
    /\ Head(wire[<<j, i>>]).tag = "Fin"
    /\ Len(inbox[i]) < InboxCapacity
    /\ inbox' = [inbox EXCEPT ![i] = Append(@, [from |-> j, frame |-> FinFrame])]
    /\ wire' = [wire EXCEPT ![<<j, i>>] = Tail(@)]
    /\ UNCHANGED <<conns, errs, fins, finished, closed>>

\* Faulty variant: a FIN that comes before the result is dropped.
ReadFinIfFinished(i, j) ==
    /\ ~closed[i] /\ j \in conns[i]
    /\ wire[<<j, i>>] # <<>>
    /\ Head(wire[<<j, i>>]).tag = "Fin"
    /\ fins' = IF finished[i] THEN [fins EXCEPT ![i] = @ \cup {j}] ELSE fins
    /\ wire' = [wire EXCEPT ![<<j, i>>] = Tail(@)]
    /\ UNCHANGED <<conns, inbox, errs, finished, closed>>

ReadFin(i, j) ==
    /\ ~closed[i] /\ j \in conns[i]
    /\ wire[<<j, i>>] # <<>>
    /\ Head(wire[<<j, i>>]).tag = "Fin"
    /\ fins' = [fins EXCEPT ![i] = @ \cup {j}]
    /\ wire' = [wire EXCEPT ![<<j, i>>] = Tail(@)]
    /\ UNCHANGED <<conns, inbox, errs, finished, closed>>

\* A disconnect is raised unless this operator has its own result already.
ReadError(i, j) ==
    /\ ~closed[i] /\ j \in conns[i]
    /\ closed[j] /\ wire[<<j, i>>] = <<>>
    /\ ~finished[i] /\ j \notin errs[i]
    /\ errs' = [errs EXCEPT ![i] = @ \cup {j}]
    /\ UNCHANGED <<conns, wire, inbox, fins, finished, closed>>

ReadLoop(i, j) == ReadPayload(i, j) \/ ReadFin(i, j) \/ ReadError(i, j)

\* The read loop of i on its connection to j has something to do, and where to
\* put it.
CanRead(i, j) ==
    /\ ~closed[i] /\ j \in conns[i]
    /\ \/ /\ wire[<<j, i>>] # <<>>
          /\ Head(wire[<<j, i>>]).tag = "Fin" \/ Len(inbox[i]) < InboxCapacity
       \/ /\ closed[j] /\ wire[<<j, i>>] = <<>>
          /\ ~finished[i] /\ j \notin errs[i]
===========================================================================
