------------------------------ MODULE RouteTable ------------------------------
(***************************************************************************)
(* The routing module SBR (modules/sbr) with the hash map: routes are kept *)
(* in an array in the order they are added and are never removed; a        *)
(* message ID is found through a map with linear probing.  All operations  *)
(* run under the SB lock.  The dump of the table to a file takes one       *)
(* record per cycle of a background task and interleaves with the rest.    *)
(***************************************************************************)
EXTENDS Naturals, Sequences

CONSTANTS
    MsgIds,           \* valid message IDs
    InvalidMsgId,     \* CFE_SB_INVALID_MSG_ID
    NoRoute,          \* CFE_SBR_INVALID_ROUTE_ID
    MAX_MSG_IDS,      \* CFE_PLATFORM_SB_MAX_MSG_IDS
    MAP_SIZE,         \* CFE_SBR_MSG_MAP_SIZE
    Hash,             \* [MsgIds -> map index]: CFE_SBR_MsgIdHash
    SEQ_MOD           \* sequence counts have 14 bits

RouteIds == 0..(MAX_MSG_IDS - 1)
MapIndex == 0..(MAP_SIZE - 1)

ASSUME RouteTableAssumption ==
    /\ MAX_MSG_IDS \in Nat \ {0} /\ MAP_SIZE \in Nat /\ MAX_MSG_IDS < MAP_SIZE
    /\ SEQ_MOD \in Nat \ {0}
    /\ Hash \in [MsgIds -> MapIndex]
    /\ InvalidMsgId \notin MsgIds /\ NoRoute \notin Nat

VARIABLES
    map,     \* [MapIndex -> RouteIds or NoRoute]: CFE_SBR_MSGMAP
    msgOf,   \* [RouteIds -> MsgIds or InvalidMsgId]: RoutingTbl[].MsgId
    top,     \* RouteIdxTop
    seq,     \* [RouteIds -> Nat]: RoutingTbl[].SeqCnt
    file,    \* sequence of the message IDs written by the dump in progress
    dump,    \* the number of records read so far by the dump, or NoRoute
    sent     \* history: [MsgIds -> Nat], transmissions with a sequence count

vars == <<map, msgOf, top, seq, file, dump, sent>>

Init ==
    /\ map = [i \in MapIndex |-> NoRoute]
    /\ msgOf = [r \in RouteIds |-> InvalidMsgId]
    /\ top = 0
    /\ seq = [r \in RouteIds |-> 0]
    /\ file = <<>> /\ dump = NoRoute
    /\ sent = [m \in MsgIds |-> 0]

(* The k-th index of the map that is probed for a message. *)
Probe(m, k) == (Hash[m] + k) % MAP_SIZE

(* Mutant of Stops: equal hashes are taken for equal messages. *)
StopsAtHash(m, k) ==
    \/ map[Probe(m, k)] = NoRoute
    \/ Hash[msgOf[map[Probe(m, k)]]] = Hash[m]

(* Where the loop of CFE_SBR_GetRouteId ends: an empty entry, or the entry  *)
(* of the message.                                                          *)
Stops(m, k) == \/ map[Probe(m, k)] = NoRoute
               \/ msgOf[map[Probe(m, k)]] = m

(* CFE_SBR_GetRouteId *)
Found(m, k) == Stops(m, k) /\ \A j \in 0..(k - 1) : ~Stops(m, j)
GetRouteId(m) == map[Probe(m, CHOOSE k \in MapIndex : Found(m, k))]

(* Where the loop of CFE_SBR_SetRouteId ends: the first empty entry. *)
Open(m, k) == /\ map[Probe(m, k)] = NoRoute
              /\ \A j \in 0..(k - 1) : map[Probe(m, j)] # NoRoute

(* Mutant of Room: one route too many. *)
RoomForOneMore == top <= MAX_MSG_IDS

Room == top < MAX_MSG_IDS

(* CFE_SBR_AddRoute, called by CFE_SB_SubscribeFull for a message without   *)
(* a route.                                                                 *)
AddRoute(m) ==
    /\ GetRouteId(m) = NoRoute
    /\ Room
    /\ \E k \in MapIndex : Open(m, k) /\ map' = [map EXCEPT ![Probe(m, k)] = top]
    /\ msgOf' = [msgOf EXCEPT ![top] = m]
    /\ top' = top + 1
    /\ UNCHANGED <<seq, file, dump, sent>>

(* CFE_SB_BroadcastBufferToRoute numbers a telemetry message with the       *)
(* counter of its route, if it has one.                                     *)
IncrementSequenceCounter(m) ==
    LET r == GetRouteId(m)
    IN  /\ r # NoRoute
        /\ seq' = [seq EXCEPT ![r] = (@ + 1) % SEQ_MOD]
        /\ sent' = [sent EXCEPT ![m] = (@ + 1) % SEQ_MOD]
        /\ UNCHANGED <<map, msgOf, top, file, dump>>

(* CFE_SB_WriteRoutingInfoCmd: refused while a dump is in progress.         *)
StartDump ==
    /\ dump = NoRoute
    /\ dump' = 0 /\ file' = <<>>
    /\ UNCHANGED <<map, msgOf, top, seq, sent>>

(* Mutant of DumpEnds: the last record is left out. *)
DumpEndsEarly(n) == n + 2 >= top

(* CFE_SBR_ForEachRouteId with MaxLoop 1: no next index.                    *)
DumpEnds(n) == n + 1 >= top

(* One call of CFE_SB_WriteRouteInfoDataGetter: the record at index `dump', *)
(* if there is one.                                                         *)
DumpRecord ==
    /\ dump # NoRoute
    /\ file' = IF dump < top THEN Append(file, msgOf[dump]) ELSE file
    /\ dump' = IF DumpEnds(dump) THEN NoRoute ELSE dump + 1
    /\ UNCHANGED <<map, msgOf, top, seq, sent>>

Next ==
    \/ \E m \in MsgIds : AddRoute(m) \/ IncrementSequenceCounter(m)
    \/ StartDump \/ DumpRecord

Spec == Init /\ [][Next]_vars

-----------------------------------------------------------------------------
(* The array, the map and the counters keep their types; RouteIdxTop never  *)
(* passes the end of the array.                                             *)
TypeOK ==
    /\ map \in [MapIndex -> RouteIds \cup {NoRoute}]
    /\ msgOf \in [RouteIds -> MsgIds \cup {InvalidMsgId}]
    /\ top \in 0..MAX_MSG_IDS
    /\ seq \in [RouteIds -> Nat]
    /\ file \in Seq(MsgIds)
    /\ dump \in Nat \cup {NoRoute}
    /\ sent \in [MsgIds -> Nat]

(* CFE_SBR_GetRouteId finds exactly the messages that have a route, and     *)
(* their own, however their hashes collide and the probes overlap.          *)
LookupExact ==
    /\ \A r \in RouteIds : r < top => GetRouteId(msgOf[r]) = r
    /\ \A m \in MsgIds : (\A r \in RouteIds : msgOf[r] # m)
                            => GetRouteId(m) = NoRoute

(* "Since map is larger than possible routes this will never deadlock"      *)
(* (CFE_SBR_SetRouteId and CFE_SBR_GetRouteId): every probe ends.           *)
ProbesEnd == \E i \in MapIndex : map[i] = NoRoute

(* Every message is numbered by itself: its route's counter counts its own  *)
(* transmissions and no other message's.                                    *)
NumberedAlone == \A r \in RouteIds : r < top => seq[r] = sent[msgOf[r]]

(* A dump that ends has written the routes that existed when it began, and  *)
(* those added meanwhile, once each and in order.                           *)
DumpFaithful ==
    [][dump # NoRoute /\ dump' = NoRoute =>
          file' = [i \in 1..top |-> msgOf[i - 1]]]_vars
=============================================================================
