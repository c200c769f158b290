-------------------------- MODULE TransportSlotIndex --------------------------
(***************************************************************************)
(* How the server indexes its table of transport connections with the     *)
(* connection index a caller or the multitransport hands it.  The table   *)
(* has TableSize entries (NBD_SERVER_MAX_TRANSPORT_CONNECTIONS, 64); the  *)
(* index is a uint8.  Only the addressing is modelled: which entries are  *)
(* read or written, and what nimbleServerFeed returns.  Reading an entry  *)
(* beyond the table is undefined behaviour: its isUsed is either value.    *)
(***************************************************************************)
EXTENDS Integers

CONSTANTS
    TableSize,      \* entries of transportConnections
    ConnectionIds   \* connection indices the host or the transport passes

ASSUME TableSize \in Nat \ {0} /\ ConnectionIds \subseteq 0..255

VARIABLES
    used,       \* table entries whose isUsed is set
    addressed,  \* indices at which transportConnections was read or written
    result      \* the last return value of nimbleServerFeed

vars == <<used, addressed, result>>

Table == 0..TableSize - 1

(* The isUsed a read of entry i can see. *)
IsUsedAt(i) == IF i \in Table THEN {i \in used} ELSE BOOLEAN

(* nimbleServerConnectionConnected: entry i is addressed without a check; *)
(* an entry not in use is initialised.                                   *)
Connect(u, i) == IF i \in Table THEN u \cup {i} ELSE u

(* nimbleServerFeed: the check against the pool's capacity only logs; an  *)
(* index above TableSize returns -13; otherwise entry i is addressed by   *)
(* the ordered-in filter.                                                 *)
FeedRejects(i) == i > TableSize

FeedResult(i) == IF FeedRejects(i) THEN -13 ELSE 0

FeedAddresses(i) == IF FeedRejects(i) THEN {} ELSE {i}

(* The host calls nimbleServerFeed directly. *)
HostFeed(i) ==
    /\ addressed' = addressed \cup FeedAddresses(i)
    /\ result' = FeedResult(i)
    /\ UNCHANGED used

(* The host calls nimbleServerConnectionConnected. *)
HostConnect(i) ==
    /\ \E wasUsed \in IsUsedAt(i) :
         used' = IF wasUsed THEN used ELSE Connect(used, i)
    /\ addressed' = addressed \cup {i}
    /\ UNCHANGED result

(* One datagram of nimbleServerReadFromMultiTransport: isUsed of entry i  *)
(* is read, the slot is connected if it was not in use, and the datagram  *)
(* is fed.                                                                *)
ReceiveFrom(i) ==
    /\ \E wasUsed \in IsUsedAt(i) :
         used' = IF wasUsed THEN used ELSE Connect(used, i)
    /\ addressed' = addressed \cup {i} \cup FeedAddresses(i)
    /\ result' = FeedResult(i)

Init ==
    /\ used = {}
    /\ addressed = {}
    /\ result = 0

Next ==
    \E i \in ConnectionIds :
        \/ HostFeed(i)
        \/ HostConnect(i)
        \/ ReceiveFrom(i)

Spec == Init /\ [][Next]_vars

-----------------------------------------------------------------------------

TypeOK ==
    /\ used \subseteq Table
    /\ addressed \subseteq ConnectionIds
    /\ result \in {0, -13}

(* A connection index at or past the end of the table is refused (-13,    *)
(* spec sections 7 and 9) before any transport connection is read or      *)
(* written, whether it comes from the host or from the multitransport.   *)
OnlyTableEntriesAddressed == addressed \subseteq Table
=============================================================================
