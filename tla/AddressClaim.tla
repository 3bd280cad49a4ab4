---------------------------- MODULE AddressClaim ----------------------------
(***************************************************************************)
(* Address claiming between nodes that run tNMEA2000: a device claims its  *)
(* address with its NAME, the smaller NAME keeps a contested address and   *)
(* the other device goes on to the next one (NMEA2000.cpp, HandleISO-      *)
(* AddressClaim, GetNextAddress).  A node may have several devices.        *)
(*                                                                         *)
(* Every node receives the claims of the others in the order of the bus,   *)
(* some time after they were sent: inbox is what it has not yet parsed.    *)
(* The driver may refuse a claim while the ring of frames is full, and a   *)
(* node may have no slot for one it receives: nobody tries again.  The     *)
(* bus itself loses nothing.  The claim timer may run out at any moment.   *)
(* The flags that tell the application to save a changed address or name   *)
(* are left out.                                                           *)
(***************************************************************************)
EXTENDS Integers, Sequences, FiniteSets

CONSTANTS
  Devices,
  NodeOf,         \* the node, one tNMEA2000 object, a device belongs to
  Index,          \* the place of a device in the Devices array of its node
  UidChoices,     \* NAMEs below the device instance the devices may have
  InstModulus,    \* the device instance has 8 bits
  MaxAddress,     \* N2kMaxCanBusAddress, 251
  RestartAddress, \* 14: where a device without an address starts again
  FirstAddresses, \* addresses SetMode() may give the first device of a node
  MaxInst,        \* bound: changes of a device instance
  MaxCommands,    \* bound: commanded addresses
  MaxRestarts,    \* bound: calls of Restart()
  MaxLosses,      \* bound: claims refused by the driver or dropped by a receiver
  MaxOdd          \* bound: restarts, commands and losses together

Nodes == {NodeOf[d] : d \in Devices}
Addresses == 0 .. MaxAddress
Null == MaxAddress + 3      \* N2kNullCanBusAddress, 254

Own(n) == {d \in Devices : NodeOf[d] = n}
Count(n) == Cardinality(Own(n))

ASSUME ClaimAssumption ==
  /\ IsFiniteSet(Devices) /\ UidChoices \subseteq [Devices -> 0 .. 999]
  /\ \A d \in Devices : Index[d] \in 0 .. Count(NodeOf[d]) - 1
  /\ \A d, e \in Devices : NodeOf[d] = NodeOf[e] /\ Index[d] = Index[e] => d = e
  /\ InstModulus \in Nat \ {0}
  /\ MaxAddress \in Nat \ {0}
  /\ RestartAddress \in Addresses /\ FirstAddresses \subseteq Addresses
  /\ MaxInst \in Nat /\ MaxCommands \in Nat /\ MaxRestarts \in Nat /\ MaxLosses \in Nat
  /\ MaxOdd \in Nat

VARIABLES
  open,      \* per node: OpenState, with "opening" while its devices claim
             \* an address for the first time
  starting,  \* per node: the next device in the loop of StartAddressClaim()
  src,       \* N2kSource, per device
  endSrc,    \* AddressClaimEndSource
  uid,       \* the NAME below the device instance, constant
  inst,      \* device instance, the upper part of the NAME
  claiming,  \* AddressClaimTimer.IsEnabled()
  inbox,     \* per node: claims received and not yet parsed
  lost,      \* history: per device, addresses given up since it had one
  ownClash,  \* history: a device was commanded to the address of another of its node
  missed,    \* history: per node, the addresses whose last claim never reached it
  commands, restarts, losses   \* counts, bounded by the constants

vars == <<open, starting, src, endSrc, uid, inst, claiming, inbox, lost, ownClash,
          missed, commands, restarts, losses>>

NameOf(d, i) == i * 1000 + uid[d]
Name(d) == NameOf(d, inst[d])
Odd == restarts + commands + losses < MaxOdd

EndFor(a) == IF a > 0 THEN a - 1 ELSE MaxAddress    \* UpdateAddressClaimEndSource()

Init ==
  /\ open = [n \in Nodes |-> "closed"] /\ starting = [n \in Nodes |-> 0]
  /\ src \in [Devices -> Addresses]
  /\ \A n \in Nodes : \E a \in FirstAddresses : \A d \in Own(n) : src[d] = a + Index[d]
  /\ endSrc = [d \in Devices |-> EndFor(src[d])]
  /\ uid \in UidChoices /\ inst = [d \in Devices |-> 0]
  /\ claiming = [d \in Devices |-> FALSE]
  /\ inbox = [n \in Nodes |-> <<>>]
  /\ lost = [d \in Devices |-> {}]
  /\ missed = [n \in Nodes |-> {}]
  /\ ownClash = FALSE /\ commands = 0 /\ restarts = 0 /\ losses = 0

-----------------------------------------------------------------------------
(* GetNextAddress(): the next address, round to the end source, that no    *)
(* other device of the node has; without one, the null address.  A device  *)
(* with the null address begins at RestartAddress when asked to.           *)
Nth(a, k) == (a + k) % (MaxAddress + 1)
Steps(from, to) == (to - from) % (MaxAddress + 1)
Others(d) == {src[e] : e \in Own(NodeOf[d]) \ {d}}
Vacant(d, a) == a \notin Others(d)

FirstVacant(d, from, low, high) ==
  LET good == {k \in low .. high : Vacant(d, Nth(from, k))} IN
  IF good = {} THEN Null
  ELSE Nth(from, CHOOSE k \in good : \A j \in good : k <= j)

NextAddress(d) ==
  IF src[d] = Null THEN Null
  ELSE FirstVacant(d, src[d], 1, Steps(src[d], endSrc[d]))

RestartFrom(d) ==
  FirstVacant(d, RestartAddress, 0, Steps(RestartAddress, EndFor(RestartAddress)))

Idle(n) == open[n] = "open" /\ starting[n] = Count(n)

(* SendIsoAddressClaim() to all: the claim goes to every other open node,  *)
(* or SendMsg() returns FALSE, which is not looked at: no claim is sent    *)
(* and none is pending.  A claim of the null address says that there is    *)
(* none; receivers ignore it, and it is left out.                          *)
Claim(d, a, i) == [src |-> a, name |-> NameOf(d, i)]

Hearers(d, a) ==
  IF a = Null THEN {} ELSE {m \in Nodes \ {NodeOf[d]} : open[m] # "closed"}

Sent(box, d, a, i) ==
  /\ inbox' = [m \in Nodes |->
                 IF m \in Hearers(d, a) THEN Append(box[m], Claim(d, a, i)) ELSE box[m]]
  /\ missed' = [m \in Nodes |-> IF m \in Hearers(d, a) THEN missed[m] \ {a} ELSE missed[m]]
  /\ losses' = losses

Refused(box, d, a) ==
  /\ losses < MaxLosses /\ Odd /\ losses' = losses + 1
  /\ inbox' = box
  /\ missed' = [m \in Nodes |-> IF m \in Hearers(d, a) THEN missed[m] \cup {a} ELSE missed[m]]

Send(box, d, a, i) == Sent(box, d, a, i) \/ Refused(box, d, a)

(* StartAddressClaim(iDev): device d claims address a with instance i. *)
StartAddressClaim(box, d, a, i) ==
  /\ src' = [src EXCEPT ![d] = a]
  /\ inst' = [inst EXCEPT ![d] = i]
  /\ claiming' = [claiming EXCEPT ![d] = TRUE]
  /\ Send(box, d, a, i)

-----------------------------------------------------------------------------
(* The library opens, or the application calls Restart(): the loop over    *)
(* the devices begins; OpenDevice is one round of it.                      *)
Open(n) ==
  /\ open[n] = "closed"
  /\ open' = [open EXCEPT ![n] = "opening"]
  /\ UNCHANGED <<starting, src, endSrc, uid, inst, claiming, inbox, lost, ownClash>>
  /\ UNCHANGED <<missed, commands, restarts, losses>>

Restart(n) ==
  /\ Idle(n) /\ restarts < MaxRestarts /\ Odd
  /\ restarts' = restarts + 1
  /\ starting' = [starting EXCEPT ![n] = 0]
  /\ UNCHANGED <<open, src, endSrc, uid, inst, claiming, inbox, lost, ownClash>>
  /\ UNCHANGED <<missed, commands, losses>>

StartDevice(d) ==
  LET n == NodeOf[d] IN
  /\ open[n] # "closed" /\ starting[n] = Index[d]
  /\ starting' = [starting EXCEPT ![n] = @ + 1]
  /\ open' = [open EXCEPT ![n] = IF starting[n] + 1 = Count(n) THEN "open" ELSE @]
  /\ IF src[d] = Null
     THEN /\ StartAddressClaim(inbox, d, RestartFrom(d), inst[d])
          /\ endSrc' = [endSrc EXCEPT ![d] = EndFor(RestartAddress)]
          /\ lost' = [lost EXCEPT ![d] = Others(d)]
     ELSE StartAddressClaim(inbox, d, src[d], inst[d]) /\ UNCHANGED <<endSrc, lost>>
  /\ UNCHANGED <<uid, ownClash, commands, restarts>>

(* IsAddressClaimStarted(), called before anything is sent: the timer has  *)
(* run out, the address is claimed.                                        *)
ClaimTimeout(d) ==
  /\ claiming[d]
  /\ claiming' = [claiming EXCEPT ![d] = FALSE]
  /\ endSrc' = [endSrc EXCEPT ![d] = EndFor(src[d])]
  /\ lost' = [lost EXCEPT ![d] = IF src[d] = Null THEN @ ELSE {}]
  /\ UNCHANGED <<open, starting, src, uid, inst, inbox, ownClash>>
  /\ UNCHANGED <<missed, commands, restarts, losses>>

(* FindSourceDeviceIndex(): the first device of the node at the address. *)
DeviceAt(n, a) ==
  {d \in Own(n) : src[d] = a /\ \A e \in Own(n) : src[e] = a => Index[d] <= Index[e]}

-----------------------------------------------------------------------------
(* HandleISOAddressClaim() on the claim c of another node that reaches     *)
(* device d: d keeps its address and claims it again if its NAME is        *)
(* smaller; with the same NAME, in the middle of claiming, it changes its  *)
(* instance; otherwise it goes on to the next address.                     *)
Keep_bug_greater(d, c) == Name(d) > c.name
Keep_bug_always(d, c) == TRUE
Keep(d, c) == Name(d) < c.name

(* a device that keeps its address says nothing *)
Reclaim_bug_silent(box, d) == inbox' = box /\ UNCHANGED <<missed, losses>>
Reclaim(box, d) == Send(box, d, src[d], inst[d])

HandleISOAddressClaim(box, d, c) ==
  \/ /\ Keep(d, c)
     /\ Reclaim(box, d)
     /\ UNCHANGED <<src, inst, claiming, lost>>
  \/ /\ Name(d) = c.name /\ claiming[d] /\ inst[d] < MaxInst
     /\ StartAddressClaim(box, d, src[d], (inst[d] + 1) % InstModulus)
     /\ UNCHANGED lost
  \/ /\ ~Keep(d, c) /\ ~(Name(d) = c.name /\ claiming[d])
     /\ StartAddressClaim(box, d, NextAddress(d), inst[d])
     /\ lost' = [lost EXCEPT ![d] = @ \cup {src[d]} \cup Others(d)]

(* ParseMessages() on the next claim: nothing is done unless a device of   *)
(* the node has the claimed address.                                       *)
ParseClaim(n) ==
  /\ Idle(n) /\ inbox[n] # <<>>
  /\ LET c == Head(inbox[n])
         box == [inbox EXCEPT ![n] = Tail(@)]
     IN \/ /\ DeviceAt(n, c.src) = {} /\ inbox' = box
           /\ UNCHANGED <<src, inst, claiming, lost, missed, losses>>
        \/ \E d \in DeviceAt(n, c.src) : HandleISOAddressClaim(box, d, c)
  /\ UNCHANGED <<open, starting, endSrc, uid, ownClash, commands, restarts>>

(* SetN2kCANBufMsg(): every slot holds a part of another message, none of  *)
(* them timed out: the claim is dropped.                                   *)
DropClaim(n) ==
  /\ Idle(n) /\ inbox[n] # <<>>
  /\ losses < MaxLosses /\ Odd /\ losses' = losses + 1
  /\ inbox' = [inbox EXCEPT ![n] = Tail(@)]
  /\ LET a == Head(inbox[n]).src
         later == \E i \in DOMAIN inbox'[n] : inbox'[n][i].src = a
     IN missed' = [missed EXCEPT ![n] = IF later THEN @ ELSE @ \cup {a}]
  /\ UNCHANGED <<open, starting, src, endSrc, uid, inst, claiming, lost, ownClash>>
  /\ UNCHANGED <<commands, restarts>>

(* HandleCommandedAddress(): another tool gives device d a new address. *)
CommandAddress(d) ==
  \E a \in Addresses \ {src[d]} :
    /\ Idle(NodeOf[d]) /\ commands < MaxCommands /\ Odd
    /\ commands' = commands + 1
    /\ StartAddressClaim(inbox, d, a, inst[d])
    /\ endSrc' = [endSrc EXCEPT ![d] = EndFor(a)]
    /\ lost' = [lost EXCEPT ![d] = {}]
    /\ ownClash' = (ownClash \/ ~Vacant(d, a))
    /\ UNCHANGED <<open, starting, uid, restarts>>

Next ==
  \/ \E n \in Nodes : Open(n) \/ Restart(n) \/ ParseClaim(n) \/ DropClaim(n)
  \/ \E d \in Devices : StartDevice(d) \/ ClaimTimeout(d) \/ CommandAddress(d)

Spec == Init /\ [][Next]_vars

(* Every node opens, goes through its devices and calls ParseMessages().   *)
FairSpec ==
  /\ Spec
  /\ \A n \in Nodes : WF_vars(Open(n)) /\ WF_vars(ParseClaim(n))
  /\ \A d \in Devices : WF_vars(StartDevice(d)) /\ WF_vars(ClaimTimeout(d))

-----------------------------------------------------------------------------
(* The types.  A device with an address has an end source it will reach. *)
ClaimTypeOK ==
  /\ open \in [Nodes -> {"closed", "opening", "open"}]
  /\ \A n \in Nodes : starting[n] \in 0 .. Count(n)
  /\ src \in [Devices -> Addresses \cup {Null}]
  /\ endSrc \in [Devices -> Addresses \cup {Null - 1}]
  /\ \A d \in Devices : src[d] # Null => endSrc[d] \in Addresses
  /\ inst \in [Devices -> 0 .. InstModulus - 1] /\ uid \in UidChoices
  /\ claiming \in [Devices -> BOOLEAN]
  /\ inbox \in [Nodes -> Seq([src : Addresses, name : Nat])]
  /\ lost \in [Devices -> SUBSET (Addresses \cup {Null})] /\ ownClash \in BOOLEAN
  /\ missed \in [Nodes -> SUBSET Addresses] /\ losses \in 0 .. MaxLosses
  /\ commands \in 0 .. MaxCommands /\ restarts \in 0 .. MaxRestarts

(* Two devices of different nodes share an address only while a claim for  *)
(* that address is on its way to one of them, or the last one that should  *)
(* have reached one of them was refused or dropped: a conflict is          *)
(* forgotten only with a lost claim, whatever claims cross each other, and *)
(* the next claim that gets through shows it again.  When every claim has  *)
(* been parsed and none was missed, all claimed addresses differ.  (Unless *)
(* a device was commanded to the address of another of its node: see       *)
(* OwnDevicesDiffer.)                                                      *)
Claimed(d) ==
  LET n == NodeOf[d] IN
  open[n] = "open" \/ (open[n] = "opening" /\ Index[d] < starting[n])
ClaimOnItsWay(n, a) == \E i \in DOMAIN inbox[n] : inbox[n][i].src = a
ConflictInFlight ==
  \A d, e \in Devices :
    /\ NodeOf[d] # NodeOf[e] /\ Claimed(d) /\ Claimed(e)
    /\ src[d] = src[e] /\ src[d] # Null /\ ~ownClash
    => \E n \in {NodeOf[d], NodeOf[e]} : ClaimOnItsWay(n, src[d]) \/ src[d] \in missed[n]

(* The devices of one node, which do not hear each other's claims, have    *)
(* different addresses.  (HandleCommandedAddress() does not look at the    *)
(* node's other devices: after it, this may be false for good.)            *)
OwnDevicesDiffer ==
  ~ownClash =>
    \A d, e \in Devices :
      d # e /\ NodeOf[d] = NodeOf[e] /\ src[d] # Null => src[d] # src[e]

(* A device ends without an address only after it has lost every address,  *)
(* or found it taken by another device of its node: the walk round the     *)
(* addresses leaves none out, wherever it began.                           *)
NullMeansAllTried ==
  \A d \in Devices : src[d] = Null => Addresses \subseteq lost[d]

(* With different NAMEs, a device is driven from its address only by one    *)
(* with a smaller NAME, or by a command: the device with the smallest NAME *)
(* stays where it is, however claims cross and restarts fall.              *)
DistinctNames == \A d, e \in Devices : d # e => uid[d] # uid[e]
SmallestNameStays ==
  [][DistinctNames =>
       \A d \in Devices :
         src'[d] # src[d] /\ src[d] # Null /\ commands' = commands =>
           \E e \in Devices : uid[e] < uid[d]]_vars

(* Claiming has come to an end: every node has gone through its devices,   *)
(* nothing is left to parse, no timer runs, and the devices of two nodes   *)
(* have one address only if one of the nodes missed the last claim for it. *)
ClaimsSettled ==
  /\ \A n \in Nodes : Idle(n) /\ inbox[n] = <<>>
  /\ \A d \in Devices : ~claiming[d]
  /\ \A d, e \in Devices :
       /\ NodeOf[d] # NodeOf[e] /\ src[d] = src[e] /\ src[d] # Null /\ ~ownClash
       => src[d] \in missed[NodeOf[d]] \cup missed[NodeOf[e]]

(* With different NAMEs claiming comes to an end, also after claims that    *)
(* were refused or dropped, restarts and commands; and with an address for  *)
(* each, every device ends with one.  (After a command not: the commanded   *)
(* device frees an address that another has already tried, and will not     *)
(* try again.)                                                              *)
ClaimsEndWell ==
  DistinctNames =>
    <>[](ClaimsSettled /\ (commands > 0 \/ \A d \in Devices : src[d] # Null))

(* The types, no conflict forgotten but by a lost claim, no address left out. *)
ClaimInv ==
  ClaimTypeOK /\ ConflictInFlight /\ OwnDevicesDiffer /\ NullMeansAllTried
=============================================================================
