---------------------------- MODULE HandlerLists ----------------------------
(***************************************************************************)
(* The lists of handlers an application hangs on a tNMEA2000 object        *)
(* (NMEA2000.cpp 2654-2761): handlers of received messages, sorted by PGN, *)
(* where PGN 0 asks for every message; and handlers of group functions,    *)
(* the library's own among them, of which one with PGN 0 takes what no     *)
(* other handler took.                                                     *)
(*                                                                         *)
(* A handler may attach and detach handlers, itself included, while        *)
(* RunMessageHandlers stands on it.                                        *)
(***************************************************************************)
EXTENDS Naturals, Sequences, FiniteSets

CONSTANTS
  Buses,            \* tNMEA2000 objects
  Handlers,         \* tMsgHandler objects
  HandlerPGN,       \* the PGN of each of them and of each group handler
  PGNs,             \* of the messages received
  MaxChanges,       \* bound: handlers attached or detached in one run
  UserGroup,        \* group function handlers of the application
  OwnGroup,         \* those Open() adds, in order; the last one takes all
  None              \* the null pointer

VARIABLES
  list,             \* [first, next, owner]: MsgHandlers, pNext, pNMEA2000
  run,              \* the run of RunMessageHandlers, or None
  group             \* [first, next, opened]: pGroupFunctionHandlers, pNext

vars == <<list, run, group>>

PGN(h) == HandlerPGN[h]
Range(s) == {s[k] : k \in DOMAIN s}
GroupHandlers == UserGroup \cup Range(OwnGroup)
DefaultGroup == OwnGroup[Len(OwnGroup)]

\* The library adds at least one handler with a PGN of its own before the
\* default one (Open(), NMEA2000.cpp 1242-1249).
ListsAssumption ==
  /\ HandlerPGN \in [Handlers \cup GroupHandlers -> Nat]
  /\ PGNs \subseteq Nat
  /\ None \notin Handlers \cup GroupHandlers \cup Buses
  /\ OwnGroup \in Seq(GroupHandlers) /\ Len(OwnGroup) >= 2
  /\ \A k \in DOMAIN OwnGroup :
       /\ OwnGroup[k] \notin UserGroup
       /\ PGN(OwnGroup[k]) = 0 <=> k = Len(OwnGroup)
       /\ \A i \in DOMAIN OwnGroup : OwnGroup[i] = OwnGroup[k] => i = k

Init ==
  /\ list = [first |-> [b \in Buses |-> None],
             next |-> [h \in Handlers |-> None],
             owner |-> [h \in Handlers |-> None]]
  /\ run = None
  /\ group = [first |-> None, next |-> [h \in GroupHandlers |-> None],
              opened |-> FALSE]

-----------------------------------------------------------------------------
(* DetachMsgHandler, AttachMsgHandler on the lists l *)

\* Seeded error: the handlers behind the detached one leave the list with it.
Detached_bug_rest_cut_off(l, h) ==
  LET before[m \in Handlers \cup {None}] ==
        IF m = None \/ l.next[m] = h THEN m ELSE before[l.next[m]]
      b == l.owner[h]
      cut == IF l.first[b] = h THEN [l EXCEPT !.first[b] = l.next[h]]
             ELSE IF before[l.first[b]] = None THEN l
             ELSE [l EXCEPT !.next[before[l.first[b]]] = None]
  IN IF b = None THEN l
     ELSE [cut EXCEPT !.next[h] = None, !.owner[h] = None]

Detached(l, h) ==
  LET before[m \in Handlers \cup {None}] ==
        IF m = None \/ l.next[m] = h THEN m ELSE before[l.next[m]]
      b == l.owner[h]
      cut == IF l.first[b] = h THEN [l EXCEPT !.first[b] = l.next[h]]
             ELSE IF before[l.first[b]] = None THEN l
             ELSE [l EXCEPT !.next[before[l.first[b]]] = l.next[h]]
  IN IF b = None THEN l
     ELSE [cut EXCEPT !.next[h] = None, !.owner[h] = None]

Inserted(l, h, b) ==
  LET first == l.first[b]
      after[m \in Handlers] ==
        IF l.next[m] # None /\ PGN(l.next[m]) < PGN(h)
        THEN after[l.next[m]] ELSE m
      linked == IF first = None THEN [l EXCEPT !.first[b] = h]
                ELSE IF PGN(first) > PGN(h)
                THEN [l EXCEPT !.next[h] = first, !.first[b] = h]
                ELSE [l EXCEPT !.next[h] = l.next[after[first]],
                               !.next[after[first]] = h]
  IN [linked EXCEPT !.owner[h] = b]

Attached(l, h, b) ==
  IF l.owner[h] = b THEN l ELSE Inserted(Detached(l, h), h, b)

-----------------------------------------------------------------------------
(* RunMessageHandlers *)

\* Where the two loops stop next, coming to m in the given one of them: the
\* handler called next, or None, and the loop it is called from.
Stop(l, pgn, loop, m) ==
  LET specific[x \in Handlers \cup {None}] ==
        IF x = None \/ PGN(x) > pgn THEN [loop |-> 2, at |-> None]
        ELSE IF PGN(x) = pgn THEN [loop |-> 2, at |-> x]
        ELSE specific[l.next[x]]
  IN IF loop = 1 /\ m # None /\ PGN(m) = 0 THEN [loop |-> 1, at |-> m]
     ELSE specific[m]

\* called counts the calls of each handler; stayed are the handlers that are
\* attached since the run began; tame says that none left its own call
\* detached.
BeginRun(b, pgn) ==
  /\ run = None
  /\ run' = [bus |-> b, pgn |-> pgn, stop |-> Stop(list, pgn, 1, list.first[b]),
             called |-> [h \in Handlers |-> 0],
             stayed |-> {h \in Handlers : list.owner[h] = b},
             tame |-> TRUE, changes |-> 0]
  /\ UNCHANGED <<list, group>>

InCall == run # None /\ run.stop.at # None

HandlerReturns ==
  /\ InCall
  /\ run' = [run EXCEPT
               !.called[run.stop.at] = @ + 1,
               !.stop = Stop(list, run.pgn, @.loop, list.next[@.at])]
  /\ UNCHANGED <<list, group>>

EndRun ==
  /\ run # None /\ run.stop.at = None
  /\ run' = None
  /\ UNCHANGED <<list, group>>

\* The application changes the lists, from a handler or between two runs.
Change(h, new) ==
  /\ \/ run = None /\ UNCHANGED run
     \/ /\ InCall /\ run.changes < MaxChanges
        /\ run' = [run EXCEPT !.changes = @ + 1, !.stayed = @ \ {h},
                              !.tame = @ /\ h # run.stop.at]
  /\ list' = new
  /\ UNCHANGED group

AttachMsgHandler(h, b) == list.owner[h] # b /\ Change(h, Attached(list, h, b))

DetachMsgHandler(h) == list.owner[h] # None /\ Change(h, Detached(list, h))

MsgNext ==
  \/ \E b \in Buses, pgn \in PGNs : BeginRun(b, pgn)
  \/ HandlerReturns
  \/ EndRun
  \/ \E h \in Handlers, b \in Buses : AttachMsgHandler(h, b)
  \/ \E h \in Handlers : DetachMsgHandler(h)

\* A message reaches every handler that asked for it exactly once and no
\* other one, whichever others are attached and detached meanwhile.  (tame:
\* walks in which a handler is detached inside its own call are excepted,
\* since the code then skips the rest of the list.)
HandlersServed ==
  run # None /\ run.stop.at = None /\ run.tame =>
    \A h \in Handlers :
      LET asked == PGN(h) \in {0, run.pgn}
      IN /\ ~asked => run.called[h] = 0
         /\ h \in run.stayed /\ asked => run.called[h] = 1

-----------------------------------------------------------------------------
(* RemoveGroupFunctionHandler, AddGroupFunctionHandler *)

Removed(g, h) ==
  LET before[m \in GroupHandlers \cup {None}] ==
        IF m = None \/ g.next[m] = h THEN m ELSE before[g.next[m]]
      cut == IF g.first = h THEN [g EXCEPT !.first = g.next[h]]
             ELSE IF before[g.first] = None THEN g
             ELSE [g EXCEPT !.next[before[g.first]] = g.next[h]]
  IN IF g.first = None THEN g ELSE [cut EXCEPT !.next[h] = None]

Added(g, h) ==
  LET r == Removed(g, h)
      last[m \in GroupHandlers] ==
        IF r.next[m] # None /\ PGN(r.next[m]) # 0 THEN last[r.next[m]] ELSE m
  IN IF r.first = None THEN [r EXCEPT !.first = h]
     ELSE [r EXCEPT !.next[h] = r.next[last[r.first]],
                    !.next[last[r.first]] = h]

\* Open() adds the library's handlers when it is called for the first time.
Open ==
  LET with[k \in 0 .. Len(OwnGroup)] ==
        IF k = 0 THEN group ELSE Added(with[k - 1], OwnGroup[k])
  IN /\ ~group.opened
     /\ group' = [with[Len(OwnGroup)] EXCEPT !.opened = TRUE]
     /\ UNCHANGED <<list, run>>

AddGroupFunctionHandler(h) ==
  group' = Added(group, h) /\ UNCHANGED <<list, run>>

RemoveGroupFunctionHandler(h) ==
  group' = Removed(group, h) /\ UNCHANGED <<list, run>>

GroupNext ==
  \/ Open
  \/ \E h \in UserGroup :
       AddGroupFunctionHandler(h) \/ RemoveGroupFunctionHandler(h)

GroupList ==
  LET from[h \in GroupHandlers \cup {None}] ==
        IF h = None THEN <<>> ELSE <<h>> \o from[group.next[h]]
  IN from[group.first]

\* Once open, every handler of the library stays in the list, and the
\* handlers with a PGN of their own, the application's too, whenever they are
\* added, stand before the default handler, which answers whatever it is
\* asked.  (A handler of the application with PGN 0 may end up behind it.)
SpecificAskedFirst ==
  LET at(h) == CHOOSE k \in DOMAIN GroupList : GroupList[k] = h
  IN group.opened =>
       /\ Range(OwnGroup) \subseteq Range(GroupList)
       /\ Len(GroupList) = Cardinality(Range(GroupList))
       /\ \A h \in Range(GroupList) : PGN(h) # 0 => at(h) < at(DefaultGroup)
=============================================================================
