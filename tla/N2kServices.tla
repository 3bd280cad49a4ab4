----------------------------- MODULE N2kServices -----------------------------
(***************************************************************************)
(* Nodes that run tNMEA2000, one that keeps a list of the devices on the   *)
(* bus, and group functions sent by one node to another: what is asked is  *)
(* answered, commands change the NAME and the descriptions of a node, and  *)
(* the list follows the nodes while they change their addresses.           *)
(*                                                                         *)
(* The bus holds the messages that have been sent; all nodes parse a       *)
(* message before the next one.  Odd events are a message that is lost,    *)
(* buffers that are full, a commanded address, a silent minute, two        *)
(* messages of a node within a second, a group function, and a clock in    *)
(* the upper half of its range; each of them happens at most once, and     *)
(* MaxOdd of them in all.  A command while messages are on their way, and  *)
(* the questions that are not in Mixed, go with no other (Alone).          *)
(***************************************************************************)
EXTENDS DeviceList

CONSTANTS
  Nodes, FirstNode,     \* each node, and what it is when it begins
  Me,                   \* the address of the node with the list
  Questions,            \* group functions: [to, body], to a node or to all
  Mixed,                \* those that may go with another odd event
  Leftovers,            \* what may be in a string buffer before it is written
  AskedBy,              \* the node that sends them
  MaxOdd, MaxBus        \* bounds: odd events, messages that wait on the bus

VARIABLES
  node,     \* the record of each node, see GroupFunction
  dl,       \* the list, see DeviceList
  late,     \* the half of its range in which the clock is
  bus,      \* messages sent, [by |-> node or "list", m |-> message]
  due,      \* nodes whose heartbeat is due
  odd       \* the odd events that have happened

vars == <<node, dl, late, bus, due, odd>>

Init ==
  /\ node = FirstNode
  /\ dl = NewList
  /\ late \in BOOLEAN
  /\ bus = <<>> /\ due = {}
  /\ odd = IF late THEN {"late"} ELSE {}

Odd(event) ==
  /\ event \notin odd /\ Cardinality(odd) < MaxOdd /\ "alone" \notin odd
  /\ odd' = odd \cup {event}

\* One that nothing may go with but a question before it.
Alone(event) ==
  /\ odd \subseteq {"asked"} /\ event \notin odd
  /\ odd' = odd \cup {event, "alone"}

\* The buffers of full, a node or the list, have no room for what it has to
\* send; Nobody has full buffers as a rule.
Nobody == "nobody"
Senders == Nodes \cup {"list"}
Room(full) == IF full = Nobody THEN UNCHANGED odd ELSE Odd("full")

Sent(by, out) == [k \in DOMAIN out |-> [by |-> by, m |-> out[k]]]

-----------------------------------------------------------------------------
(* The claim of another node for one's own address: the smaller NAME stays *)

NameValue(name) ==
  <<name.IndustryGroup, name.SystemInstance, name.DeviceClass, name.DeviceFunction,
    name.DeviceInstance, name.ManufacturerCode, name.UniqueNumber>>

Smaller(a, b) ==
  \E k \in 1..7 : /\ NameValue(a)[k] < NameValue(b)[k]
                  /\ \A j \in 1..(k - 1) : NameValue(a)[j] = NameValue(b)[j]

\* The search for an address ends with the one before the last that was kept.
UpdateAddressClaimEndSource(nd) ==
  [nd EXCEPT !.end = (nd.src + MaxBusDevices - 1) % MaxBusDevices]

GetNextAddress(nd) ==
  IF nd.src = NullAddress THEN nd
  ELSE [nd EXCEPT !.src = IF @ = nd.end THEN NullAddress ELSE (@ + 1) % MaxBusDevices,
                  !.changed = @ \cup {"Address"}]

NextInstance(nd) ==
  [nd EXCEPT !.name.DeviceInstance = (@ + 1) % 256,
             !.changed = @ \cup {"DeviceInformation"}]

StartAddressClaim(nd, sent) ==
  Result([nd EXCEPT !.claiming = TRUE], IF sent THEN <<ClaimOf(nd)>> ELSE <<>>)

HandleISOAddressClaim(nd, m, sent) ==
  IF m.src # nd.src \/ m.src = NullAddress THEN Result(nd, <<>>)
  ELSE IF Smaller(nd.name, m.body.name) THEN SendIsoAddressClaim(nd, sent)
  ELSE StartAddressClaim(IF nd.name = m.body.name /\ nd.claiming THEN NextInstance(nd)
                         ELSE GetNextAddress(nd), sent)

-----------------------------------------------------------------------------
(* HandleReceivedSystemMessage, and the messages no system handler takes *)
Parse(nd, m, sent, old) ==
  CASE m.pgn = 59904  -> HandleISORequest(nd, m, sent)
    [] m.pgn = 60928  -> HandleISOAddressClaim(nd, m, sent)
    [] m.pgn = 126208 -> HandleGroupFunction(nd, m, sent, old)
    [] OTHER -> Result(nd, <<>>)

\* The next message of the bus reaches every node but its sender.
Deliver(full, old, unset) ==
  LET by == bus[1].by
      m  == bus[1].m
      result == [n \in Nodes |-> IF n = by THEN Result(node[n], <<>>)
                                 ELSE Parse(node[n], m, n # full, old)]
      listed == IF by = "list" THEN After(dl, <<>>)
                ELSE HandleMsg(dl, m, Me, full # "list", late, unset)
      answers[S \in SUBSET Nodes] ==
        IF S = {} THEN <<>>
        ELSE LET n == CHOOSE n \in S : TRUE
             IN Sent(n, result[n].out) \o answers[S \ {n}]
  IN /\ bus # <<>> /\ Room(full)
     /\ m.pgn = 126208 \/ old = CHOOSE x \in Leftovers : TRUE
     /\ node' = [n \in Nodes |-> result[n].nd]
     /\ dl' = listed.dl
     /\ bus' = Tail(bus) \o answers[Nodes] \o Sent("list", listed.out)
     /\ UNCHANGED <<late, due>>

\* A message does not arrive.
Lose ==
  /\ bus # <<>> /\ Odd(IF bus[1].m.pgn = 60928 THEN "claim lost" ELSE "lost")
  /\ bus' = Tail(bus)
  /\ UNCHANGED <<node, dl, late, due>>

-----------------------------------------------------------------------------
(* What a node does by itself *)

Acts(n, result) ==
  /\ node' = [node EXCEPT ![n] = result.nd]
  /\ bus' = bus \o Sent(n, result.out)
  /\ UNCHANGED <<dl, late>>

\* SendPendingInformation; a claim is not tried again.
SendPending(n, what, full) ==
  /\ what \in node[n].pending /\ Len(bus) < MaxBus /\ Room(full) /\ UNCHANGED due
  /\ LET nd == node[n]
         sent == full = Nobody
         claim == SendIsoAddressClaim(ClearPending(nd, "claim"), sent)
     IN Acts(n, CASE what = "claim" -> claim
                  [] what = "product" -> SendProductInformation(nd, Broadcast, sent)
                  [] OTHER -> SendConfigurationInformation(nd, Broadcast, sent))

\* IsAddressClaimStarted finds that the time of the claim is over.
ClaimEnds(n) ==
  /\ node[n].claiming
  /\ Acts(n, Result(UpdateAddressClaimEndSource([node[n] EXCEPT !.claiming = FALSE]), <<>>))
  /\ UNCHANGED <<odd, due>>

\* A commanded address that is not the one the node has.
HandleCommandedAddress(n, a) ==
  /\ a # node[n].src /\ Len(bus) < MaxBus
  /\ IF bus = <<>> THEN Odd("moved") ELSE Alone("moved in traffic")
  /\ LET moved == [node[n] EXCEPT !.src = a, !.changed = @ \cup {"Address"}]
     IN Acts(n, StartAddressClaim(UpdateAddressClaimEndSource(moved), TRUE))
  /\ UNCHANGED due

\* A group function is sent, to a node or to all of them.
Ask(q) ==
  /\ bus = <<>> /\ ~node[AskedBy].claiming /\ UNCHANGED due
  /\ IF q \in Mixed THEN Odd("asked") ELSE Alone("asked")
  /\ LET dst == IF q.to = "all" THEN Broadcast ELSE node[q.to].src
     IN Acts(AskedBy, Result(node[AskedBy],
                             <<Message(node[AskedBy].src, dst, 126208, q.body)>>))

-----------------------------------------------------------------------------
(* Time.  A second is longer than all that follows from a message: claims   *)
(* take 250 ms, pending information at most 187 ms and a few more.          *)

Idle == bus = <<>> /\ \A n \in Nodes : ~node[n].claiming /\ node[n].pending = {}

\* A heartbeat, which stands for any message a node sends now and then.
Heartbeat(n) ==
  /\ n \in due /\ Idle
  /\ due' = due \ {n}
  /\ Acts(n, Result(node[n], SendHeartbeat(node[n], TRUE)))
  /\ UNCHANGED odd

\* All heartbeats are due again: after a second, sooner, or after a minute in
\* which nothing was heard.
Due(list) == Idle /\ due = {} /\ due' = Nodes /\ dl' = list /\ UNCHANGED <<node, late, bus>>
Second == Due(Aged(dl)) /\ UNCHANGED odd
Again == Due(dl) /\ Odd("again")
Minute == Due(Silent(dl)) /\ Odd("silent")

Next ==
  \/ \E full \in Senders \cup {Nobody}, unset \in BOOLEAN, old \in Leftovers :
       Deliver(full, old, unset)
  \/ Lose
  \/ \E n \in Nodes : \/ ClaimEnds(n)
                      \/ \E full \in {n, Nobody} : \E what \in node[n].pending :
                           SendPending(n, what, full)
                      \/ \E a \in Slots : HandleCommandedAddress(n, a)
                      \/ Heartbeat(n)
  \/ Second \/ Again \/ Minute
  \/ \E q \in Questions : Ask(q)

Spec == Init /\ [][Next]_vars

\* Every node calls ParseMessages() again and again, and time goes on.  The
\* first conjunct is WF_vars of Deliver, which is enabled as long as there is
\* a message, in words that TLC can evaluate at once.
FairSpec ==
  /\ Spec
  /\ \/ []<>(bus = <<>>)
     \/ []<><<\E full \in Senders \cup {Nobody}, unset \in BOOLEAN, old \in Leftovers :
                Deliver(full, old, unset)>>_vars
  /\ WF_vars(Second)
  /\ \A n \in Nodes :
       /\ WF_vars(ClaimEnds(n)) /\ WF_vars(Heartbeat(n))
       /\ WF_vars(\E full \in {n, Nobody} : \E what \in node[n].pending :
                    SendPending(n, what, full))

-----------------------------------------------------------------------------
(* The list *)

\* An application that repeats the search by product with the address it has
\* found comes by every entry that matches, and stops.
RECURSIVE SearchFrom(_, _, _)
SearchFrom(manufacturer, code, s) ==
  LET t == LocalFindDeviceByProduct(dl, manufacturer, code, s)
  IN IF t = NoDevice THEN <<>> ELSE <<t>> \o SearchFrom(manufacturer, code, t)

SearchesFind ==
  \A s \in Used(dl) :
    LET e == dl.Sources[s]
        found == SearchFrom(ManufacturerCode(e), ProductCode(e), 255)
        first == LocalFindDeviceByIDs(dl, ManufacturerCode(e), UniqueNumber(e))
    IN /\ LocalFindDeviceBySource(dl, s) = s
       /\ first <= s /\ UniqueNumber(dl.Sources[first]) = UniqueNumber(e)
       /\ \E k \in DOMAIN found : found[k] = s
       /\ Len(found) <= Count(dl)

\* The list finds a device under at most one address, and an entry that is
\* used lies below the end of the list (HandleIsoAddressClaim moves entries
\* in five ways), where the searches come by.
AddressBook ==
  /\ \A s, t \in Used(dl) :
       dl.Sources[s].name = dl.Sources[t].name /\ dl.Sources[s].name # NoName => s = t
  /\ \A s \in Slots : dl.Sources[s] # NoDevice => s < dl.MaxDevices
  /\ SearchesFind

\* The list shows a node, and what it says about itself, at its address.
Listed(n) ==
  LET e == dl.Sources[node[n].src]
  IN /\ node[n].src \in Slots /\ e # NoDevice
     /\ e.name = node[n].name /\ e.product = node[n].product
     /\ e.tx = node[n].tx /\ e.rx = node[n].rx
     /\ (\E f \in DOMAIN node[n].conf : node[n].conf[f] # NoString) => 126998 \in e.loaded

\* In the end every node is listed: the requests of HandleOther are repeated
\* until they are answered.  Not so if a request could not be sent, which may
\* be the last one (HasPendingRequests stays cleared); if a claim was lost, or
\* came while the owner of the address was answering (what one of the two says
\* is taken for the other's); and late in the range of the clock, when nothing
\* is requested, see Ready.
EventuallyListed ==
  \/ late \/ <>(odd \cap {"full", "claim lost", "moved in traffic"} # {})
  \/ <>[](\A n \in Nodes : Listed(n))

-----------------------------------------------------------------------------
(* Group functions.  A question carries, beside its bytes, the pairs they    *)
(* were made from: pairs[k] is [f |-> field, v |-> value].  What must be      *)
(* answered is said in terms of these.                                      *)

Code == tN2kGroupFunctionCode

\* The message that comes next is a group function, and there is room for the
\* answers.
Serve == /\ bus # <<>> /\ bus[1].m.pgn = 126208 /\ Len(bus') >= Len(bus) - 1
         /\ \E old \in Leftovers : Deliver(Nobody, old, FALSE)

\* What n sends in such a step.
Says(n) == LET new == SubSeq(bus', Len(bus), Len(bus'))
           IN {new[k].m : k \in {k \in DOMAIN new : new[k].by = n}}

\* Those who have to take notice.
Addressed(m) == {n \in Nodes : bus[1].by # n /\ m.dst \in {Broadcast, node[n].src}}

TextOf(str) == IF str = NoString THEN <<>> ELSE str

\* What n has in the fields of a message; fields 4 to 6 of the product
\* information are left out, the code compares all of them with the model.
ValueOf(n, pgn) ==
  LET a == node[n].name
      p == node[n].product
      c == node[n].conf
  IN CASE pgn = 60928 ->
            [f \in {1, 2, 3, 4, 5, 7, 8, 9} |->
               <<a.UniqueNumber, a.ManufacturerCode, a.DeviceInstance % 8,
                 a.DeviceInstance \div 8, a.DeviceFunction, 0, a.DeviceClass,
                 a.SystemInstance, a.IndustryGroup>>[f]]
       [] pgn = 126996 ->
            [f \in {1, 2, 3, 7, 8} |->
               <<p.N2kVersion, p.ProductCode, p.ModelID, 0, 0, 0,
                 p.CertificationLevel, p.LoadEquivalency>>[f]]
       [] pgn = 126998 -> [f \in 1..3 |-> TextOf(c[ConfFields[f]])]
       [] OTHER -> <<>>

Informing == {60928, 126464, 126996, 126998}

Fits(n, pgn, p) == IF pgn = 126464 THEN p.f = 1 /\ p.v \in {0, 1}
                   ELSE p.f \in DOMAIN ValueOf(n, pgn) /\ p.v = ValueOf(n, pgn)[p.f]

Accepted(n, q) ==
  /\ q.interval \in {NoChange, RestoreDefault, 0} /\ q.offset \in {65535, 0}
  /\ \A k \in DOMAIN q.pairs : Fits(n, q.pgn, q.pairs[k])

\* An acknowledge for m with two codes in a byte, and the code of a pair.
Acknowledges(a, m) ==
  /\ a.pgn = 126208 /\ a.body.code = Code.Acknowledge
  /\ a.dst = m.src /\ a.body.pgn = m.body.pgn
  /\ a.body.n = Len(m.body.pairs) /\ Len(a.body.codes) = (a.body.n + 1) \div 2

CodeOf(a, k) == LET byte == a.body.codes[(k + 1) \div 2]
                IN IF k % 2 = 1 THEN byte % 16 ELSE byte \div 16

\* The information a request asks for: sent, or owed.
Given(n, m) == IF m.body.pgn = 60928 THEN "claim" \in node'[n].pending
               ELSE \E x \in Says(n) : x.pgn = m.body.pgn /\ x.dst = m.src

\* A node that is asked answers with what it is asked for if all it is told
\* about it is so, and otherwise with one acknowledge that judges every pair;
\* if all nodes are asked, those answer of which it is so.  Commands, reads
\* and writes for all, and answers, are not answered (HandleGroupFunction and
\* the handlers of N2kGroupFunctionDefaultHandlers.cpp).
Answered(n, m) ==
  LET q    == m.body
      acks == {x \in Says(n) : x.pgn = 126208}
      one  == \E a \in acks : acks = {a} /\ Acknowledges(a, m)
      judged == \A a \in acks : \A k \in DOMAIN q.pairs :
                  LET known == \A j \in 1..k : q.pairs[j].f \in DOMAIN ValueOf(n, q.pgn)
                  IN q.pgn = 60928 /\ known =>
                       (CodeOf(a, k) = paramEc.Acknowledge <=> Fits(n, q.pgn, q.pairs[k]))
  IN CASE q.code = Code.Request /\ q.pgn \in Informing ->
            /\ Given(n, m) <=> Accepted(n, q)
            /\ IF Accepted(n, q) \/ m.dst = Broadcast THEN acks = {} ELSE one /\ judged
       [] q.code = Code.Request /\ q.pgn = 126993 ->
            IF \E x \in Says(n) : x.pgn = 126993 THEN acks = {}
            ELSE m.dst = Broadcast \/ one
       [] q.code \in {Code.Request, Code.Command, Code.Read, Code.Write} ->
            IF m.dst = Broadcast THEN Says(n) = {} ELSE Says(n) = acks /\ one
       [] OTHER -> Says(n) = {}

QuestionsAnswered ==
  [][Serve => LET m == bus[1].m
              IN \A n \in Addressed(m) : ~node[n].claiming => Answered(n, m)]_vars

\* The value a command gives to a field, or the one it had.
Commanded(q, f, old) ==
  LET given == {k \in DOMAIN q.pairs : q.pairs[k].f = f}
  IN IF given = {} THEN old ELSE q.pairs[CHOOSE k \in given : \A j \in given : j <= k].v

\* A command whose fields may all be set changes these and nothing else; a
\* node to which a command was not sent, and one that is asked something,
\* keeps its NAME and its descriptions.
Obeyed(n, m) ==
  LET q   == m.body
      a   == node[n].name
      obey == n \in Addressed(m) /\ m.dst # Broadcast /\ q.code = Code.Command
  IN IF obey /\ q.pgn = 60928
     THEN (\A k \in DOMAIN q.pairs : q.pairs[k].f \in {3, 4, 8}) =>
            /\ node'[n].name =
                 [a EXCEPT !.DeviceInstance = Commanded(q, 3, @ % 8) + 8 * Commanded(q, 4, @ \div 8),
                           !.SystemInstance = Commanded(q, 8, @)]
            /\ node'[n].conf = node[n].conf
            /\ "claim" \in node'[n].pending
     ELSE IF obey /\ q.pgn = 126998
     THEN (\A k \in DOMAIN q.pairs : q.pairs[k].f \in {1, 2} /\ q.pairs[k].v # NoString) =>
            /\ node'[n].name = a
            /\ \A f \in 1..3 : TextOf(node'[n].conf[ConfFields[f]])
                               = Commanded(q, f, TextOf(node[n].conf[ConfFields[f]]))
     ELSE /\ node'[n].name = a /\ node'[n].conf = node[n].conf
          /\ q.pgn = 126993 \/ node'[n].hb = node[n].hb

CommandsObeyed == [][Serve => \A n \in Nodes : Obeyed(n, bus[1].m)]_vars

=============================================================================
