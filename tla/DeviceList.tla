----------------------------- MODULE DeviceList -----------------------------
(***************************************************************************)
(* The list of the devices on the bus, tN2kDeviceList of N2kDeviceList.cpp *)
(* as functions of the list and a message: each yields the list behind it  *)
(* and the ISO requests the list sends.  A device it hears for the first   *)
(* time is asked for its NAME, and every device in turn for its product    *)
(* information, its configuration information and its PGN lists.           *)
(*                                                                         *)
(* Times are kept as what the code asks of them: recent says that the last *)
(* request of a kind is less than a second old, young that the entry is,   *)
(* heard when the device was last heard ("unset": never written, so the    *)
(* comparison may have either outcome).  late says that the clock          *)
(* N2kMillis() is in the upper half of its 32 bits: N2kHasElapsed then     *)
(* takes the time 0 of "never requested" for one that is still to come.    *)
(***************************************************************************)
EXTENDS GroupFunction, FiniteSets

CONSTANTS
  MaxBusDevices,      \* N2kMaxBusDevices, 254
  MaxNameRequests,    \* requests for a NAME, 20
  MaxRequests,        \* requests of each other kind, 4
  NoDevice, NoName, NoInformation

Slots == 0 .. MaxBusDevices - 1

\* In the order in which they are requested.
Kinds == <<126996, 126998, 126464>>
KindSet == {Kinds[k] : k \in 1..3}

-----------------------------------------------------------------------------
(* An entry: tInternalDevice *)

NoConfiguration == [ptr |-> [f \in {ConfFields[k] : k \in 1..3} |-> -1], mem |-> <<>>]

tInternalDevice(name) ==
  [name |-> name, young |-> TRUE, heard |-> "unset", nName |-> 0,
   product |-> NoInformation, conf |-> NoConfiguration,
   tx |-> NoInformation, rx |-> NoInformation,
   loaded |-> {}, tries |-> [k \in KindSet |-> 0], recent |-> {}]

\* The PGN lists have no flag of their own.
Has(e, kind) == IF kind = 126464 THEN e.tx # NoInformation /\ e.rx # NoInformation
                ELSE kind \in e.loaded

Should(e, kind) == ~Has(e, kind) /\ e.tries[kind] < MaxRequests

\* ReadyForRequestProductInformation, ...ConfigurationInformation,
\* ...PGNList: the second computes the time in another way.
Ready(e, kind, late) ==
  /\ Should(e, kind) /\ ~e.young /\ kind \notin e.recent
  /\ kind = 126998 \/ e.tries[kind] > 0 \/ ~late

\* SetProductInformationRequested and its like.
Requested(e, kind) == [e EXCEPT !.tries[kind] = @ + 1, !.recent = @ \cup {kind}]

ShouldRequestName(e) == e.name = NoName /\ e.nName < MaxNameRequests

ClearProductInformationLoaded(e) ==
  [e EXCEPT !.loaded = @ \ {126996}, !.tries[126996] = 0, !.recent = @ \ {126996}]

\* InitConfigurationInformation: one block for the three strings, each behind
\* the place of the one before it.  A block that is large enough is used
\* again, with the places the strings had in it.
InitConfigurationInformation(c, size) ==
  LET total == size.ManufacturerInformation + size.InstallationDescription1
                 + size.InstallationDescription2
      at(f, offset) == IF size[f] > 0 THEN offset ELSE -1
      d1 == size.ManufacturerInformation
  IN IF c.mem # <<>> /\ Len(c.mem) >= total THEN c
     ELSE [mem |-> [k \in 1..total |-> 0],
           ptr |-> [ManufacturerInformation |-> at("ManufacturerInformation", 0),
                    InstallationDescription1 |-> at("InstallationDescription1", d1),
                    InstallationDescription2 |->
                      at("InstallationDescription2", d1 + size.InstallationDescription1)]]

\* A string and the 0 behind it; what would lie behind the block is left out.
Write(c, f, str) ==
  IF str = <<>> \/ c.ptr[f] = -1 THEN c
  ELSE [c EXCEPT !.mem = [k \in DOMAIN @ |->
          IF k - c.ptr[f] \in 1..Len(str) THEN str[k - c.ptr[f]]
          ELSE IF k - c.ptr[f] = Len(str) + 1 THEN 0 ELSE @[k]]]

LoadConfiguration(c, info) ==
  LET size == [f \in DOMAIN info |-> IF info[f] = <<>> THEN 0 ELSE Len(info[f]) + 1]
      c1 == Write(InitConfigurationInformation(c, size),
                  "InstallationDescription1", info.InstallationDescription1)
      c2 == Write(c1, "InstallationDescription2", info.InstallationDescription2)
  IN Write(c2, "ManufacturerInformation", info.ManufacturerInformation)

\* What GetInstallationDescription1 and its like show.
Shown(c, f) == IF c.ptr[f] = -1 THEN <<>>
               ELSE UpTo(SubSeq(c.mem, c.ptr[f] + 1, Len(c.mem)), Len(c.mem))

-----------------------------------------------------------------------------
(* The list *)

NewList ==
  [Sources |-> [s \in Slots |-> NoDevice], MaxDevices |-> 0,
   ListUpdated |-> FALSE, HasPendingRequests |-> TRUE]

Used(dl) == {s \in Slots : s < dl.MaxDevices /\ dl.Sources[s] # NoDevice}

SaveDevice(dl, e, s) ==
  [dl EXCEPT !.Sources[s] = e, !.MaxDevices = IF s >= @ THEN s + 1 ELSE @]

Remove(dl, s) == [dl EXCEPT !.Sources[s] = NoDevice]

First(set) == CHOOSE s \in set : \A t \in set : s <= t

\* The searches of an application yield the address of the first entry that
\* matches; NoDevice stands for the null pointer and for a code that is not
\* given.  A device without a NAME, or product information, has zeros there.
Found(set) == IF set = {} THEN NoDevice ELSE First(set)

ManufacturerCode(e) == IF e.name = NoName THEN 0 ELSE e.name.ManufacturerCode
UniqueNumber(e)     == IF e.name = NoName THEN 0 ELSE e.name.UniqueNumber
ProductCode(e) ==
  IF e.product = NoInformation THEN 0 ELSE e.product.ProductCode

LocalFindDeviceBySource(dl, s) ==
  IF s >= MaxBusDevices \/ dl.Sources[s] = NoDevice THEN NoDevice ELSE s

LocalFindDeviceByIDs(dl, manufacturer, unique) ==
  IF manufacturer = NoDevice /\ unique = NoDevice THEN NoDevice
  ELSE Found({s \in Used(dl) :
                /\ manufacturer \in {NoDevice, ManufacturerCode(dl.Sources[s])}
                /\ unique \in {NoDevice, UniqueNumber(dl.Sources[s])}})

\* The search goes on behind the address s; 255 begins at the first one.
LocalFindDeviceByProduct(dl, manufacturer, code, s) ==
  LET first == IF s < dl.MaxDevices THEN s + 1 ELSE 0
  IN IF manufacturer = NoDevice \/ code = NoDevice THEN NoDevice
     ELSE Found({t \in Used(dl) : /\ t >= first
                                  /\ ManufacturerCode(dl.Sources[t]) = manufacturer
                                  /\ ProductCode(dl.Sources[t]) = code})

Count(dl) == Cardinality(Used(dl))

\* LocalFindDeviceByName
Named(dl, name) == {s \in Used(dl) : dl.Sources[s].name = name}

\* A list, the requests it sends, and the source of the message they follow.
After(dl, out) == [dl |-> dl, out |-> out]

\* RequestIsoAddressClaim, RequestProductInformation, ...; me is the address
\* of the node the list belongs to.
Request(me, dst, pgn) == Message(me, dst, 59904, [pgn |-> pgn])

AddDevice(dl, s, me, sent) ==
  IF ~sent THEN After(dl, <<>>)
  ELSE After([SaveDevice(dl, tInternalDevice(NoName), s) EXCEPT !.HasPendingRequests = TRUE],
             <<Request(me, s, 60928)>>)

\* One of the three loops of HandleOther over the list: the first device that
\* may be asked now is, unless the request cannot be sent.
Round(dl, kind, me, sent, late) ==
  LET ready == {s \in Used(dl) : Ready(dl.Sources[s], kind, late)}
      wait  == \E s \in Used(dl) \ ready : Should(dl.Sources[s], kind)
  IN IF sent /\ ready # {}
     THEN LET s == First(ready)
          IN After([dl EXCEPT !.Sources[s] = Requested(@, kind), !.HasPendingRequests = TRUE],
                   <<Request(me, s, kind)>>)
     ELSE After([dl EXCEPT !.HasPendingRequests = @ \/ wait], <<>>)

\* Seeded error: the flag is not set again while a device has to wait.
HandleOther_bug_forgets(dl, s, me, sent, late) ==
  IF ~dl.HasPendingRequests THEN After(dl, <<>>)
  ELSE LET r == Round([dl EXCEPT !.HasPendingRequests = FALSE], Kinds[1], me, sent, late)
       IN After([r.dl EXCEPT !.HasPendingRequests = r.out # <<>>], r.out)

\* A kind is begun when nothing of the kinds before it is pending.
HandleOther(dl, s, me, sent, late) ==
  LET ask  == ShouldRequestName(dl.Sources[s]) /\ sent
      dl0  == [dl EXCEPT !.Sources[s] = IF ask THEN [@ EXCEPT !.nName = @ + 1] ELSE @,
                         !.HasPendingRequests = ask]
      next(r, kind) ==
        IF r.dl.HasPendingRequests /\ kind # Kinds[1] THEN r
        ELSE LET q == Round(r.dl, kind, me, sent, late) IN After(q.dl, r.out \o q.out)
      r0   == After(dl0, IF ask THEN <<Request(me, s, 60928)>> ELSE <<>>)
  IN IF ~dl.HasPendingRequests THEN After(dl, <<>>)
     ELSE next(next(next(r0, Kinds[1]), Kinds[2]), Kinds[3])

\* An entry moves to the address its device has claimed.
Move(dl, from, to) == SaveDevice(Remove(dl, from), dl.Sources[from], to)

\* The device that has lost its address to another one is kept in the first
\* free place and everyone is asked to claim; without a free place it is
\* forgotten.
Displace(dl, s, me, sent) ==
  LET free == {t \in Slots : dl.Sources[t] = NoDevice}
  IN IF free = {} THEN After(Remove(dl, s), <<>>)
     ELSE After(Remove(SaveDevice(dl, dl.Sources[s], First(free)), s),
                IF sent THEN <<Request(me, Broadcast, 60928)>> ELSE <<>>)

\* Seeded error: a device that is listed with another address is listed twice.
Register_bug_twice(dl, name, s) ==
  IF dl.Sources[s] # NoDevice THEN [dl EXCEPT !.Sources[s].name = name]
  ELSE SaveDevice(dl, tInternalDevice(name), s)

\* The claimant is moved here, or the entry made for it gets its NAME.
Register(dl, name, s) ==
  LET known == Named(dl, name)
  IN IF known # {} THEN Move(dl, First(known), s)
     ELSE IF dl.Sources[s] # NoDevice THEN [dl EXCEPT !.Sources[s].name = name]
     ELSE SaveDevice(dl, tInternalDevice(name), s)

HandleIsoAddressClaim(dl, m, me, sent) ==
  LET s == m.src
      e == dl.Sources[s]
      named == e # NoDevice /\ e.name # NoName
      r  == IF named THEN Displace(dl, s, me, sent) ELSE After(dl, <<>>)
      dl1 == Register(r.dl, m.body.name, s)
  IN IF named /\ e.name = m.body.name THEN After(dl, <<>>)
     ELSE After([dl1 EXCEPT !.Sources[s] = ClearProductInformationLoaded(@),
                            !.HasPendingRequests = TRUE, !.ListUpdated = TRUE], r.out)

\* Information that is loaded is not replaced; the same information as
\* before is only marked as loaded.
HandleProductInformation(dl, m) ==
  LET e == dl.Sources[m.src]
  IN IF e = NoDevice \/ 126996 \in e.loaded THEN dl
     ELSE [dl EXCEPT !.Sources[m.src].product = m.body,
                     !.Sources[m.src].loaded = @ \cup {126996},
                     !.ListUpdated = @ \/ e.product # m.body]

HandleConfigurationInformation(dl, m) ==
  IF dl.Sources[m.src] = NoDevice THEN dl
  ELSE [dl EXCEPT !.Sources[m.src].conf = LoadConfiguration(@, m.body),
                  !.Sources[m.src].loaded = @ \cup {126998},
                  !.ListUpdated = TRUE]

HandleSupportedPGNList(dl, m) ==
  IF dl.Sources[m.src] = NoDevice THEN dl
  ELSE [dl EXCEPT !.Sources[m.src].tx = IF m.body.list = 0 THEN m.body.pgns ELSE @,
                  !.Sources[m.src].rx = IF m.body.list = 1 THEN m.body.pgns ELSE @,
                  !.ListUpdated = TRUE]

\* The end of HandleMsg: a device without a NAME that was away for a minute
\* is asked for it again.
Heard(dl, s, unset) ==
  LET e == dl.Sources[s]
      again == e.name = NoName /\ e.nName > 0 /\ (e.heard = "long" \/ (e.heard = "unset" /\ unset))
  IN IF e = NoDevice THEN dl
     ELSE [dl EXCEPT !.Sources[s].heard = "recent",
                     !.Sources[s].nName = IF again THEN 0 ELSE @,
                     !.HasPendingRequests = @ \/ again]

\* HandleMsg.  The first message of an unknown device only makes an entry,
\* unless it holds something to keep.
HandleMsg(dl, m, me, sent, late, unset) ==
  LET s     == m.src
      new   == dl.Sources[s] = NoDevice /\ m.pgn # 60928
      a     == IF new THEN AddDevice(dl, s, me, sent) ELSE After(dl, <<>>)
      r     == CASE m.pgn = 60928  -> HandleIsoAddressClaim(a.dl, m, me, sent)
                 [] m.pgn = 126996 -> After(HandleProductInformation(a.dl, m), <<>>)
                 [] m.pgn = 126998 -> After(HandleConfigurationInformation(a.dl, m), <<>>)
                 [] m.pgn = 126464 -> After(HandleSupportedPGNList(a.dl, m), <<>>)
                 [] OTHER -> HandleOther(a.dl, s, me, sent, late)
  IN IF s \notin Slots THEN After(dl, <<>>)
     ELSE IF new /\ m.pgn \notin KindSet THEN a
     ELSE After(Heard(r.dl, s, unset), a.out \o r.out)

-----------------------------------------------------------------------------
(* Time *)

\* A second has passed, a minute in which nothing was heard.
Aged(dl) ==
  [dl EXCEPT !.Sources = [s \in Slots |-> IF @[s] = NoDevice THEN NoDevice
                            ELSE [@[s] EXCEPT !.young = FALSE, !.recent = {}]]]

Silent(dl) ==
  [dl EXCEPT !.Sources = [s \in Slots |-> IF @[s] = NoDevice THEN NoDevice
                            ELSE [@[s] EXCEPT !.young = FALSE, !.recent = {},
                                    !.heard = IF @ = "recent" THEN "long" ELSE @]]]

=============================================================================
