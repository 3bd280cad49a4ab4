------------------------ MODULE AddressClaim_proofs ------------------------
(***************************************************************************)
(* AddressClaim for any number of nodes and devices, of addresses, of      *)
(* commands, restarts and lost claims, and any NAMEs.                      *)
(*                                                                         *)
(* ClaimInv becomes inductive with three facts (ClaimIInv): a closed node  *)
(* has not begun its loop (LoopKept), an address a device has not lost is  *)
(* ahead of it on its way to the end source (WalkKept), and with different *)
(* NAMEs a claim on its way names a device of another node (NamesKept).    *)
(* The arithmetic round the circle of addresses comes first.               *)
(***************************************************************************)
EXTENDS AddressClaim, FiniteSetTheorems, WellFoundedInduction,
        TLAPS

-----------------------------------------------------------------------------
(* Walking round the addresses. *)

LEMMA ModIs ==
  ASSUME NEW m \in Nat \ {0}, NEW x \in Int
  PROVE  /\ x \in 0 .. m - 1 => x % m = x
         /\ x \in m .. 2 * m - 1 => x % m = x - m
         /\ x \in -m .. -1 => x % m = x + m
  OBVIOUS

LEMMA NthIs ==
  ASSUME NEW a \in Addresses, NEW k \in 0 .. MaxAddress
  PROVE  Nth(a, k) = IF a + k <= MaxAddress THEN a + k ELSE a + k - (MaxAddress + 1)
<1>1. MaxAddress \in Nat /\ a \in 0 .. MaxAddress
  BY ClaimAssumption DEF Addresses
<1>2. PICK m \in Nat \ {0}, x \in Int : m = MaxAddress + 1 /\ x \in 0 .. 2 * m - 1 /\ x = a + k
  BY <1>1
<1>3. x % m = IF x < m THEN x ELSE x - m
  BY <1>2, ModIs
<1>4. Nth(a, k) = x % m
  BY <1>2 DEF Nth
<1> QED
  BY <1>1, <1>2, <1>3, <1>4

LEMMA StepsIs ==
  ASSUME NEW a \in Addresses, NEW b \in Addresses
  PROVE  Steps(a, b) = IF a <= b THEN b - a ELSE b - a + (MaxAddress + 1)
<1>1. MaxAddress \in Nat /\ a \in 0 .. MaxAddress /\ b \in 0 .. MaxAddress
  BY ClaimAssumption DEF Addresses
<1>2. PICK m \in Nat \ {0}, x \in Int : m = MaxAddress + 1 /\ x \in -m .. m - 1 /\ x = b - a
  BY <1>1
<1>3. x % m = IF x < 0 THEN x + m ELSE x
  BY <1>2, ModIs
<1>4. Steps(a, b) = x % m
  BY <1>2 DEF Steps
<1> QED
  BY <1>1, <1>2, <1>3, <1>4

LEMMA StepsType ==
  ASSUME NEW a \in Addresses, NEW b \in Addresses
  PROVE  Steps(a, b) \in 0 .. MaxAddress /\ Nth(a, Steps(a, b)) = b
<1>1. MaxAddress \in Nat /\ a \in 0 .. MaxAddress /\ b \in 0 .. MaxAddress
  BY ClaimAssumption DEF Addresses
<1>2. PICK k : k = Steps(a, b)
  OBVIOUS
<1>3. k \in 0 .. MaxAddress
      /\ (IF a + k <= MaxAddress THEN a + k ELSE a + k - (MaxAddress + 1)) = b
  BY <1>1, <1>2, StepsIs
<1> QED
  BY <1>2, <1>3, NthIs

LEMMA NthType ==
  ASSUME NEW a \in Addresses, NEW k \in 0 .. MaxAddress
  PROVE  Nth(a, k) \in Addresses
  BY NthIs, ClaimAssumption DEF Addresses

(* k steps on, an address at least k steps away is k steps nearer. *)
LEMMA StepsOn ==
  ASSUME NEW a \in Addresses, NEW b \in Addresses, NEW k \in 0 .. Steps(a, b)
  PROVE  Nth(a, k) \in Addresses /\ Steps(Nth(a, k), b) = Steps(a, b) - k
<1>1. MaxAddress \in Nat /\ a \in 0 .. MaxAddress /\ b \in 0 .. MaxAddress
      /\ Steps(a, b) \in 0 .. MaxAddress /\ k \in 0 .. MaxAddress
  BY ClaimAssumption, StepsType DEF Addresses
<1>2. PICK n : n = Nth(a, k)
  OBVIOUS
<1>3. n \in Addresses
      /\ n = IF a + k <= MaxAddress THEN a + k ELSE a + k - (MaxAddress + 1)
  BY <1>1, <1>2, NthIs, NthType
<1>4. n \in 0 .. MaxAddress
  BY <1>3 DEF Addresses
<1>5. /\ Steps(n, b) = IF n <= b THEN b - n ELSE b - n + (MaxAddress + 1)
      /\ Steps(a, b) = IF a <= b THEN b - a ELSE b - a + (MaxAddress + 1)
  BY <1>3, StepsIs
<1>6. Steps(n, b) = Steps(a, b) - k
  BY <1>1, <1>3, <1>4, <1>5
<1> QED
  BY <1>2, <1>3, <1>6

(* From an address to the one before it, the way leads past all.           *)
LEMMA RoundToEnd ==
  ASSUME NEW a \in Addresses
  PROVE  EndFor(a) \in Addresses /\ Steps(a, EndFor(a)) = MaxAddress
<1>1. MaxAddress \in Nat \ {0} /\ a \in 0 .. MaxAddress
  BY ClaimAssumption DEF Addresses
<1>2. EndFor(a) \in Addresses
  BY <1>1 DEF EndFor, Addresses
<1> QED
  BY <1>1, <1>2, StepsIs DEF EndFor

(* The least element, from the well-foundedness of < on Nat. *)
LEMMA LeastExists ==
  ASSUME NEW S \in SUBSET Nat, S # {}
  PROVE  \E i \in S : \A j \in S : i <= j
<1>1. PICK i \in S : \A j \in S : <<j, i>> \notin OpToRel(<, Nat)
  BY NatLessThanWellFounded, WFMin
<1>2. ASSUME NEW j \in S PROVE i <= j
  <2>1. ~(j < i)
    BY <1>1 DEF OpToRel
  <2> QED
    BY <2>1
<1> QED
  BY <1>2

(* A walk that finds an address has passed only those taken by others of   *)
(* the node; one that finds none has passed all.                           *)
LEMMA FirstVacantIs ==
  ASSUME NEW d, NEW from \in Addresses, NEW low \in Nat, NEW high \in 0 .. MaxAddress
  PROVE  LET a == FirstVacant(d, from, low, high) IN
         \/ /\ a = Null
            /\ \A k \in low .. high : Nth(from, k) \in Others(d)
         \/ \E n \in low .. high :
              /\ a = Nth(from, n) /\ a \in Addresses /\ Vacant(d, a)
              /\ \A k \in low .. n - 1 : Nth(from, k) \in Others(d)
<1> DEFINE good == {k \in low .. high : Vacant(d, Nth(from, k))}
<1>1. CASE good = {}
  BY <1>1 DEF FirstVacant, Vacant
<1>2. CASE good # {}
  <2>1. \E n \in good : \A k \in good : n <= k
    <3>1. good \subseteq Nat /\ good # {} /\ high \in Nat
      BY <1>2, ClaimAssumption
    <3> HIDE DEF good
    <3>2. \E n \in good : \A k \in good : n <= k
      BY <3>1, LeastExists
    <3> QED
      BY <3>2
  <2>2. PICK n \in good : n = (CHOOSE k \in good : \A j \in good : k <= j)
    BY <2>1
  <2>3. n \in low .. high /\ Vacant(d, Nth(from, n)) /\ \A k \in good : n <= k
    BY <2>1, <2>2
  <2>4. n \in 0 .. MaxAddress
    BY <2>3, ClaimAssumption
  <2>5. FirstVacant(d, from, low, high) = Nth(from, n)
    BY <1>2, <2>2 DEF FirstVacant
  <2>6. ASSUME NEW k \in low .. n - 1 PROVE Nth(from, k) \in Others(d)
    <3>1. k \in low .. high /\ ~(n <= k)
      BY <2>3, ClaimAssumption
    <3> QED
      BY <2>3, <3>1 DEF Vacant
  <2> QED
    BY <2>3, <2>4, <2>5, <2>6, NthType
<1> QED
  BY <1>1, <1>2

(* What a walk from one address to another has passed: an address of the   *)
(* way is another device's or still ahead.                                 *)
LEMMA WalkOn ==
  ASSUME NEW d, NEW from \in Addresses, NEW end \in Addresses, NEW low \in Nat,
         NEW b \in Addresses, low <= Steps(from, b), Steps(from, b) <= Steps(from, end)
  PROVE  LET a == FirstVacant(d, from, low, Steps(from, end)) IN
         \/ b \in Others(d)
         \/ a \in Addresses /\ Steps(a, b) <= Steps(a, end)
<1>1. /\ Steps(from, b) \in 0 .. MaxAddress /\ Nth(from, Steps(from, b)) = b
      /\ Steps(from, end) \in 0 .. MaxAddress
  BY StepsType
<1>2. PICK a : a = FirstVacant(d, from, low, Steps(from, end))
  OBVIOUS
<1>3. \/ \A k \in low .. Steps(from, end) : Nth(from, k) \in Others(d)
      \/ \E n \in low .. Steps(from, end) :
           /\ a = Nth(from, n) /\ a \in Addresses
           /\ \A k \in low .. n - 1 : Nth(from, k) \in Others(d)
  BY <1>1, <1>2, FirstVacantIs
<1>4. Steps(from, b) \in low .. Steps(from, end)
  BY <1>1
<1>5. ASSUME NEW n \in low .. Steps(from, end), a = Nth(from, n),
             \A k \in low .. n - 1 : Nth(from, k) \in Others(d)
      PROVE  b \in Others(d) \/ Steps(a, b) <= Steps(a, end)
  <2>1. CASE Steps(from, b) <= n - 1
    <3>1. Steps(from, b) \in low .. n - 1
      BY <1>4, <2>1
    <3> QED
      BY <1>1, <1>5, <3>1
  <2>2. CASE n <= Steps(from, b)
    <3>1. n \in 0 .. Steps(from, b) /\ n \in 0 .. Steps(from, end)
      BY <1>1, <2>2
    <3>2. Steps(a, b) = Steps(from, b) - n /\ Steps(a, end) = Steps(from, end) - n
      BY <1>5, <3>1, StepsOn
    <3> QED
      BY <1>1, <3>2
  <2> QED
    BY <1>1, <2>1, <2>2
<1> QED
  BY <1>1, <1>2, <1>3, <1>4, <1>5

LEMMA FoundAddress ==
  ASSUME NEW d, NEW from \in Addresses, NEW low \in Nat, NEW high \in 0 .. MaxAddress
  PROVE  LET a == FirstVacant(d, from, low, high) IN
         a = Null \/ (a \in Addresses /\ Vacant(d, a))
  BY FirstVacantIs

-----------------------------------------------------------------------------
(* The inductive invariant. *)

Claims == [src : Addresses, name : Nat]

(* A node whose library is closed has not begun its loop over the devices. *)
LoopKept ==
  /\ starting \in [Nodes -> Nat]
  /\ \A n \in Nodes : open[n] = "closed" => starting[n] = 0

(* An address a device has not lost lies between its address and its end   *)
(* source, on the way it is going.                                         *)
WalkKept ==
  \A d \in Devices : src[d] # Null =>
    \A a \in Addresses :
      a \in lost[d] \/ Steps(src[d], a) <= Steps(src[d], endSrc[d])

(* With different NAMEs no device instance is ever changed, and a claim on *)
(* its way to a node has the NAME of a device of another.                  *)
NamesKept ==
  DistinctNames =>
    /\ \A d \in Devices : inst[d] = 0
    /\ \A n \in Nodes : \A i \in DOMAIN inbox[n] :
         \E e \in Devices : NodeOf[e] # n /\ inbox[n][i].name = uid[e]

ClaimIInv == ClaimInv /\ LoopKept /\ WalkKept /\ NamesKept

LEMMA NodeFacts ==
  /\ Null \notin Addresses /\ Null - 1 \notin Addresses
  /\ \A d \in Devices : NodeOf[d] \in Nodes /\ d \in Own(NodeOf[d])
                        /\ Count(NodeOf[d]) \in Nat /\ Index[d] \in Nat
                        /\ Index[d] + 1 <= Count(NodeOf[d])
  /\ \A n \in Nodes : Count(n) \in Nat
<1>1. \A n : Count(n) \in Nat
  BY ClaimAssumption, FS_Subset, FS_CardinalityType DEF Count, Own
<1>2. Null \notin Addresses /\ Null - 1 \notin Addresses
  BY ClaimAssumption DEF Null, Addresses
<1>3. \A d \in Devices : NodeOf[d] \in Nodes /\ d \in Own(NodeOf[d])
  BY DEF Nodes, Own
<1>4. \A d \in Devices : Index[d] \in Nat /\ Index[d] + 1 <= Count(NodeOf[d])
  BY <1>1, ClaimAssumption
<1> QED
  BY <1>1, <1>2, <1>3, <1>4

LEMMA NameIsNat ==
  ASSUME uid \in UidChoices, NEW d \in Devices, NEW i \in Nat
  PROVE  NameOf(d, i) \in Nat /\ NameOf(d, 0) = uid[d]
<1>1. PICK u \in 0 .. 999 : u = uid[d]
  BY ClaimAssumption
<1>2. i * 1000 + u \in Nat /\ 0 * 1000 + u = u
  OBVIOUS
<1>3. NameOf(d, i) = i * 1000 + u /\ NameOf(d, 0) = 0 * 1000 + u
  BY <1>1 DEF NameOf
<1> QED
  BY <1>1, <1>2, <1>3

-----------------------------------------------------------------------------
(* Sending a claim. *)

OnWay(box, n, a) == \E i \in DOMAIN box[n] : box[n][i].src = a

(* A claim for address a is on its way to node n, or the last one never    *)
(* reached it.                                                             *)
Shown(box, lacks, n, a) == OnWay(box, n, a) \/ a \in lacks[n]

Lacking == [Nodes -> SUBSET Addresses]

(* The claims of t are those of s and that of device d, unless the node n  *)
(* is its own.                                                             *)
SentTo(n, s, t, d, i) ==
  \A k \in DOMAIN t :
    (k \in DOMAIN s /\ t[k] = s[k]) \/ (n # NodeOf[d] /\ t[k].name = NameOf(d, i))

LEMMA SentEffect ==
  ASSUME uid \in UidChoices, NEW box \in [Nodes -> Seq(Claims)], NEW d \in Devices,
         NEW a \in Addresses \cup {Null}, NEW i \in Nat, Sent(box, d, a, i)
  PROVE  /\ inbox' \in [Nodes -> Seq(Claims)]
         /\ \A n \in Nodes : \A b : OnWay(box, n, b) => OnWay(inbox', n, b)
         /\ \A n \in Hearers(d, a) : OnWay(inbox', n, a)
         /\ \A n \in Nodes : SentTo(n, box[n], inbox'[n], d, i)
<1>1. PICK c : c = Claim(d, a, i)
  OBVIOUS
<1>2. a # Null => c \in Claims /\ c.src = a /\ c.name = NameOf(d, i)
  BY <1>1, NameIsNat DEF Claims, Claim
<1>3. inbox' = [m \in Nodes |-> IF m \in Hearers(d, a) THEN Append(box[m], c) ELSE box[m]]
  BY <1>1 DEF Sent
<1>h. \A n \in Hearers(d, a) : n \in Nodes /\ n # NodeOf[d] /\ a # Null
  BY DEF Hearers
<1>4. ASSUME NEW n \in Nodes
      PROVE  /\ inbox'[n] \in Seq(Claims)
             /\ \A b : OnWay(box, n, b) => OnWay(inbox', n, b)
             /\ n \in Hearers(d, a) => OnWay(inbox', n, a)
             /\ SentTo(n, box[n], inbox'[n], d, i)
  <2>1. CASE n \in Hearers(d, a)
    <3>1. PICK s \in Seq(Claims) : s = box[n]
      OBVIOUS
    <3>2. PICK t : t = Append(s, c)
      OBVIOUS
    <3>3. inbox'[n] = t
      BY <1>3, <2>1, <3>1, <3>2
    <3>4. c \in Claims
      BY <1>2, <1>h, <2>1
    <3>5. /\ t \in Seq(Claims) /\ DOMAIN t = 1 .. Len(s) + 1 /\ DOMAIN s = 1 .. Len(s)
          /\ t[Len(s) + 1] = c /\ \A k \in 1 .. Len(s) : t[k] = s[k]
          /\ Len(s) \in Nat
      BY <3>2, <3>4
    <3>6. \A b : OnWay(box, n, b) => OnWay(inbox', n, b)
      BY <3>1, <3>3, <3>5 DEF OnWay
    <3>7. OnWay(inbox', n, a)
      BY <1>2, <1>h, <2>1, <3>3, <3>5 DEF OnWay
    <3>8. ASSUME NEW k \in DOMAIN inbox'[n]
          PROVE  \/ k \in DOMAIN box[n] /\ inbox'[n][k] = box[n][k]
                 \/ inbox'[n][k].name = NameOf(d, i)
      <4>1. k \in 1 .. Len(s) \/ k = Len(s) + 1
        BY <3>3, <3>5, <3>8
      <4> QED
        BY <1>2, <1>h, <2>1, <3>1, <3>3, <3>5, <4>1
    <3> QED
      BY <1>h, <2>1, <3>3, <3>5, <3>6, <3>7, <3>8 DEF SentTo
  <2>2. CASE n \notin Hearers(d, a)
    <3>1. inbox'[n] = box[n] /\ box[n] \in Seq(Claims)
      BY <1>3, <2>2
    <3> QED
      BY <2>2, <3>1 DEF OnWay, SentTo
  <2> QED
    BY <2>1, <2>2
<1> QED
  BY <1>3, <1>4, <1>h

(* What was shown stays shown, and the claim is shown to all that hear it, *)
(* sent or refused.                                                        *)
LEMMA SendEffect ==
  ASSUME uid \in UidChoices, NEW box \in [Nodes -> Seq(Claims)], NEW d \in Devices,
         NEW a \in Addresses \cup {Null}, NEW i \in Nat, Send(box, d, a, i),
         missed \in Lacking, losses \in 0 .. MaxLosses
  PROVE  /\ inbox' \in [Nodes -> Seq(Claims)] /\ missed' \in Lacking
         /\ losses' \in 0 .. MaxLosses
         /\ \A n \in Nodes : \A b : Shown(box, missed, n, b) => Shown(inbox', missed', n, b)
         /\ \A n \in Hearers(d, a) : Shown(inbox', missed', n, a)
         /\ \A n \in Nodes : SentTo(n, box[n], inbox'[n], d, i)
<1>h. \A n \in Hearers(d, a) : n \in Nodes /\ a \in Addresses
  BY DEF Hearers
<1>1. CASE Sent(box, d, a, i)
  <2>1. /\ inbox' \in [Nodes -> Seq(Claims)]
        /\ \A n \in Nodes : \A b : OnWay(box, n, b) => OnWay(inbox', n, b)
        /\ \A n \in Hearers(d, a) : OnWay(inbox', n, a)
        /\ \A n \in Nodes : SentTo(n, box[n], inbox'[n], d, i)
    BY <1>1, SentEffect
  <2>2. /\ missed' \in Lacking /\ losses' = losses
        /\ \A n \in Nodes : \A b :
             b \in missed[n] => b \in missed'[n] \/ (n \in Hearers(d, a) /\ b = a)
    BY <1>1 DEF Sent, Lacking
  <2> QED
    BY <2>1, <2>2, <1>h DEF Shown
<1>2. CASE Refused(box, d, a)
  <2>1. inbox' = box /\ losses' \in 0 .. MaxLosses
    BY <1>2, ClaimAssumption DEF Refused
  <2>2. /\ missed' \in Lacking
        /\ \A n \in Nodes : \A b : b \in missed[n] => b \in missed'[n]
        /\ \A n \in Hearers(d, a) : a \in missed'[n]
    BY <1>2, <1>h DEF Refused, Lacking
  <2> QED
    BY <2>1, <2>2, <1>h DEF Shown, SentTo, OnWay
<1> QED
  BY <1>1, <1>2 DEF Send

(* The claim parsed next is gone; what follows it stays.                   *)
Parsed(n, c, box) ==
  /\ c \in Claims /\ box \in [Nodes -> Seq(Claims)]
  /\ 1 \in DOMAIN inbox[n] /\ c = inbox[n][1]
  /\ \A m \in Nodes : \A a : OnWay(inbox, m, a) /\ (m = n => a # c.src) => OnWay(box, m, a)
  /\ \A m \in Nodes : \A k \in DOMAIN box[m] :
       \E j \in DOMAIN inbox[m] : box[m][k] = inbox[m][j]

LEMMA ParsedEffect ==
  ASSUME inbox \in [Nodes -> Seq(Claims)], NEW n \in Nodes, inbox[n] # <<>>,
         NEW c, c = Head(inbox[n]), NEW box \in [Nodes -> Seq(Claims)],
         box[n] = Tail(inbox[n]), \A m \in Nodes \ {n} : box[m] = inbox[m]
  PROVE  Parsed(n, c, box)
<1>1. PICK s \in Seq(Claims) : s = inbox[n]
  OBVIOUS
<1>2. PICK t : t = Tail(s)
  OBVIOUS
<1>4. s # <<>> /\ Len(s) \in Nat \ {0} /\ DOMAIN s = 1 .. Len(s)
  BY <1>1
<1>5. /\ t \in Seq(Claims) /\ DOMAIN t = 1 .. Len(s) - 1
      /\ \A k \in 1 .. Len(s) - 1 : t[k] = s[k + 1]
      /\ Head(s) = s[1] /\ 1 \in DOMAIN s /\ s[1] \in Claims
  BY <1>2, <1>4
<1>6. box[n] = t
  BY <1>1, <1>2
<1>7. ASSUME NEW m \in Nodes, NEW a, OnWay(inbox, m, a), m = n => a # Head(s).src
      PROVE  OnWay(box, m, a)
  <2>1. CASE m # n
    BY <1>6, <1>7, <2>1 DEF OnWay
  <2>2. CASE m = n
    <3>1. PICK k \in 1 .. Len(s) : s[k].src = a
      BY <1>1, <1>4, <1>7, <2>2 DEF OnWay
    <3>2. k # 1
      BY <1>5, <1>7, <2>2, <3>1
    <3>3. k - 1 \in 1 .. Len(s) - 1 /\ t[k - 1] = s[k]
      <4>1. k - 1 \in 1 .. Len(s) - 1 /\ (k - 1) + 1 = k
        BY <1>4, <3>2
      <4> QED
        BY <1>5, <4>1
    <3> QED
      BY <1>5, <1>6, <2>2, <3>1, <3>3 DEF OnWay
  <2> QED
    BY <2>1, <2>2
<1>8. ASSUME NEW m \in Nodes, NEW k \in DOMAIN box[m]
      PROVE  \E j \in DOMAIN inbox[m] : box[m][k] = inbox[m][j]
  <2>1. CASE m # n
    BY <1>6, <2>1
  <2>2. CASE m = n
    <3>1. k \in 1 .. Len(s) - 1 /\ k + 1 \in 1 .. Len(s)
      BY <1>4, <1>5, <1>6, <2>2
    <3> QED
      BY <1>1, <1>4, <1>5, <1>6, <2>2, <3>1
  <2> QED
    BY <2>1, <2>2
<1>10. c = s[1] /\ c = Head(s)
  BY <1>1, <1>5
<1>11. /\ c \in Claims
       /\ 1 \in DOMAIN inbox[n] /\ c = inbox[n][1]
  BY <1>1, <1>5, <1>6, <1>10
<1>12. \A m \in Nodes : \A a : OnWay(inbox, m, a) /\ (m = n => a # c.src) => OnWay(box, m, a)
  BY <1>7, <1>10
<1> QED
  BY <1>8, <1>11, <1>12 DEF Parsed

-----------------------------------------------------------------------------
(* What a step does to the addresses. *)

LEMMA NextAddressIs ==
  ASSUME ClaimTypeOK, NEW d \in Devices, src[d] # Null
  PROVE  /\ src[d] \in Addresses /\ endSrc[d] \in Addresses
         /\ NextAddress(d) = FirstVacant(d, src[d], 1, Steps(src[d], endSrc[d]))
         /\ NextAddress(d) = Null \/ (NextAddress(d) \in Addresses /\ Vacant(d, NextAddress(d)))
<1>1. src[d] \in Addresses /\ endSrc[d] \in Addresses
  BY DEF ClaimTypeOK
<1>2. NextAddress(d) = FirstVacant(d, src[d], 1, Steps(src[d], endSrc[d]))
  BY DEF NextAddress
<1>3. Steps(src[d], endSrc[d]) \in 0 .. MaxAddress
  BY <1>1, StepsType
<1> QED
  BY <1>1, <1>2, <1>3, FoundAddress

LEMMA RestartFromIs ==
  ASSUME NEW d \in Devices
  PROVE  LET end == EndFor(RestartAddress) IN
         /\ RestartAddress \in Addresses /\ end \in Addresses
         /\ Steps(RestartAddress, end) = MaxAddress
         /\ RestartFrom(d) = FirstVacant(d, RestartAddress, 0, Steps(RestartAddress, end))
         /\ RestartFrom(d) = Null \/ (RestartFrom(d) \in Addresses /\ Vacant(d, RestartFrom(d)))
<1>1. /\ RestartAddress \in Addresses /\ EndFor(RestartAddress) \in Addresses
      /\ Steps(RestartAddress, EndFor(RestartAddress)) = MaxAddress
  BY ClaimAssumption, RoundToEnd
<1>2. RestartFrom(d) =
        FirstVacant(d, RestartAddress, 0, Steps(RestartAddress, EndFor(RestartAddress)))
  BY DEF RestartFrom
<1>3. MaxAddress \in 0 .. MaxAddress
  BY ClaimAssumption
<1>4. RestartFrom(d) = Null \/ (RestartFrom(d) \in Addresses /\ Vacant(d, RestartFrom(d)))
  BY <1>1, <1>2, <1>3, FoundAddress
<1> QED
  BY <1>1, <1>2, <1>4

(* A claim is parsed in one of four ways.                                  *)
Ignored(n, c, box) ==
  /\ DeviceAt(n, c.src) = {} /\ inbox' = box
  /\ UNCHANGED <<src, inst, claiming, lost, missed, losses>>
Kept(d, c, box) ==
  /\ Name(d) < c.name /\ Send(box, d, src[d], inst[d])
  /\ UNCHANGED <<src, inst, claiming, lost>>
Renamed(d, c, box) ==
  /\ Name(d) = c.name /\ UNCHANGED lost
  /\ StartAddressClaim(box, d, src[d], (inst[d] + 1) % InstModulus)
Moved(d, c, box) ==
  /\ ~(Name(d) < c.name) /\ ~(Name(d) = c.name /\ claiming[d])
  /\ StartAddressClaim(box, d, NextAddress(d), inst[d])
  /\ lost' = [lost EXCEPT ![d] = @ \cup {src[d]} \cup Others(d)]

LEMMA ParseKinds ==
  ASSUME ClaimTypeOK, NEW n \in Nodes, ParseClaim(n)
  PROVE  \E c, box :
           /\ Parsed(n, c, box)
           /\ \/ Ignored(n, c, box)
              \/ \E d \in DeviceAt(n, c.src) :
                   Kept(d, c, box) \/ Renamed(d, c, box) \/ Moved(d, c, box)
<1>1. PICK c, box : c = Head(inbox[n]) /\ box = [inbox EXCEPT ![n] = Tail(@)]
  OBVIOUS
<1>2. Parsed(n, c, box)
  <2>1. inbox \in [Nodes -> Seq(Claims)] /\ inbox[n] # <<>> /\ c = Head(inbox[n])
    BY <1>1 DEF ParseClaim, ClaimTypeOK, Claims
  <2>2. /\ box \in [Nodes -> Seq(Claims)] /\ box[n] = Tail(inbox[n])
        /\ \A m \in Nodes \ {n} : box[m] = inbox[m]
    BY <1>1, <2>1
  <2> QED
    BY <2>1, <2>2, ParsedEffect
<1>3. \/ Ignored(n, c, box)
      \/ \E d \in DeviceAt(n, c.src) : HandleISOAddressClaim(box, d, c)
  BY <1>1 DEF ParseClaim, Ignored
<1>4. ASSUME NEW d \in DeviceAt(n, c.src), HandleISOAddressClaim(box, d, c)
      PROVE  Kept(d, c, box) \/ Renamed(d, c, box) \/ Moved(d, c, box)
  BY <1>4 DEF HandleISOAddressClaim, Keep, Reclaim, Kept, Renamed, Moved
<1> QED
  BY <1>2, <1>3, <1>4

(* StartAddressClaim keeps the types. *)
LEMMA StartEffect ==
  ASSUME ClaimTypeOK, NEW box \in [Nodes -> Seq(Claims)], NEW d \in Devices,
         NEW a \in Addresses \cup {Null}, NEW i \in 0 .. InstModulus - 1,
         StartAddressClaim(box, d, a, i)
  PROVE  /\ src' \in [Devices -> Addresses \cup {Null}] /\ src'[d] = a
         /\ \A e \in Devices : e # d => src'[e] = src[e]
         /\ inst' \in [Devices -> 0 .. InstModulus - 1]
         /\ claiming' \in [Devices -> BOOLEAN]
         /\ inbox' \in [Nodes -> Seq(Claims)]
         /\ missed' \in [Nodes -> SUBSET Addresses] /\ losses' \in 0 .. MaxLosses
<1>1. i \in Nat /\ missed \in Lacking
  BY ClaimAssumption DEF ClaimTypeOK, Lacking
<1>2. /\ inbox' \in [Nodes -> Seq(Claims)]
      /\ missed' \in [Nodes -> SUBSET Addresses] /\ losses' \in 0 .. MaxLosses
  BY <1>1, SendEffect DEF StartAddressClaim, ClaimTypeOK, Lacking
<1> QED
  BY <1>2 DEF StartAddressClaim, ClaimTypeOK

-----------------------------------------------------------------------------
(* The types. *)

LEMMA ClaimTypeStep ==
  ASSUME ClaimTypeOK, LoopKept, [Next]_vars
  PROVE  ClaimTypeOK' /\ LoopKept'
<1> USE DEF ClaimTypeOK, LoopKept
<1>1. ASSUME NEW n \in Nodes, Open(n) PROVE ClaimTypeOK' /\ LoopKept'
  BY <1>1 DEF Open
<1>2. ASSUME NEW n \in Nodes, Restart(n) PROVE ClaimTypeOK' /\ LoopKept'
  <2>1. restarts' \in 0 .. MaxRestarts
    BY <1>2, ClaimAssumption DEF Restart
  <2>2. /\ starting' \in [Nodes -> Nat]
        /\ \A m \in Nodes : starting'[m] \in 0 .. Count(m)
        /\ \A m \in Nodes : starting[m] = 0 => starting'[m] = 0
    BY <1>2, NodeFacts DEF Restart
  <2> QED
    BY <1>2, <2>1, <2>2 DEF Restart
<1>3. ASSUME NEW n \in Nodes, ParseClaim(n) PROVE ClaimTypeOK' /\ LoopKept'
  <2>1. PICK c, box :
          /\ Parsed(n, c, box)
          /\ \/ Ignored(n, c, box)
             \/ \E d \in DeviceAt(n, c.src) :
                  Kept(d, c, box) \/ Renamed(d, c, box) \/ Moved(d, c, box)
    BY <1>3, ParseKinds
  <2>2. UNCHANGED <<open, starting, endSrc, uid, ownClash, commands, restarts>>
    BY <1>3 DEF ParseClaim
  <2>3. ASSUME /\ src' \in [Devices -> Addresses \cup {Null}]
               /\ \A d \in Devices : src'[d] # Null => src[d] # Null
               /\ inst' \in [Devices -> 0 .. InstModulus - 1]
               /\ claiming' \in [Devices -> BOOLEAN]
               /\ inbox' \in [Nodes -> Seq(Claims)]
               /\ lost' \in [Devices -> SUBSET (Addresses \cup {Null})]
               /\ missed' \in [Nodes -> SUBSET Addresses] /\ losses' \in 0 .. MaxLosses
        PROVE  ClaimTypeOK' /\ LoopKept'
    BY <2>2, <2>3 DEF Claims
  <2>4. CASE Ignored(n, c, box)
    BY <2>1, <2>3, <2>4 DEF Ignored, Parsed
  <2>5. ASSUME NEW d \in DeviceAt(n, c.src)
        PROVE  d \in Devices /\ src[d] # Null
    BY <2>1, NodeFacts DEF DeviceAt, Own, Parsed, Claims
  <2>6. ASSUME NEW d \in DeviceAt(n, c.src), Kept(d, c, box)
        PROVE  ClaimTypeOK' /\ LoopKept'
    <3>1. inst[d] \in Nat /\ src[d] \in Addresses \cup {Null} /\ missed \in Lacking
      BY <2>5, <2>6, ClaimAssumption DEF Lacking
    <3>2. /\ inbox' \in [Nodes -> Seq(Claims)]
          /\ missed' \in [Nodes -> SUBSET Addresses] /\ losses' \in 0 .. MaxLosses
      BY <2>1, <2>5, <2>6, <3>1, SendEffect DEF Kept, Parsed, Lacking
    <3> QED
      BY <2>3, <2>6, <3>2 DEF Kept
  <2>7. ASSUME NEW d \in DeviceAt(n, c.src), Renamed(d, c, box)
        PROVE  ClaimTypeOK' /\ LoopKept'
    <3>1. (inst[d] + 1) % InstModulus \in 0 .. InstModulus - 1
      <4>1. inst[d] + 1 \in Nat /\ InstModulus \in Nat \ {0}
        BY <2>5, ClaimAssumption
      <4> QED
        BY <4>1
    <3>2. /\ StartAddressClaim(box, d, src[d], (inst[d] + 1) % InstModulus)
          /\ UNCHANGED lost /\ box \in [Nodes -> Seq(Claims)]
      BY <2>1, <2>7 DEF Renamed, Parsed
    <3>3. /\ src' \in [Devices -> Addresses \cup {Null}]
          /\ src'[d] = src[d] /\ \A e \in Devices : e # d => src'[e] = src[e]
          /\ inst' \in [Devices -> 0 .. InstModulus - 1]
          /\ claiming' \in [Devices -> BOOLEAN]
          /\ inbox' \in [Nodes -> Seq(Claims)]
          /\ missed' \in [Nodes -> SUBSET Addresses] /\ losses' \in 0 .. MaxLosses
      BY <2>5, <3>1, <3>2, StartEffect
    <3> QED
      BY <2>3, <3>2, <3>3
  <2>8. ASSUME NEW d \in DeviceAt(n, c.src), Moved(d, c, box)
        PROVE  ClaimTypeOK' /\ LoopKept'
    <3>1. NextAddress(d) \in Addresses \cup {Null}
      BY <2>5, NextAddressIs
    <3>2. Others(d) \subseteq Addresses \cup {Null}
      BY DEF Others, Own
    <3>3. /\ StartAddressClaim(box, d, NextAddress(d), inst[d])
          /\ lost' = [lost EXCEPT ![d] = @ \cup {src[d]} \cup Others(d)]
          /\ box \in [Nodes -> Seq(Claims)] /\ inst[d] \in 0 .. InstModulus - 1
      BY <2>1, <2>5, <2>8 DEF Moved, Parsed
    <3>4. /\ src' \in [Devices -> Addresses \cup {Null}]
          /\ \A e \in Devices : e # d => src'[e] = src[e]
          /\ inst' \in [Devices -> 0 .. InstModulus - 1]
          /\ claiming' \in [Devices -> BOOLEAN]
          /\ inbox' \in [Nodes -> Seq(Claims)]
          /\ missed' \in [Nodes -> SUBSET Addresses] /\ losses' \in 0 .. MaxLosses
      BY <2>5, <3>1, <3>3, StartEffect
    <3>5. \A e \in Devices : src'[e] # Null => src[e] # Null
      BY <2>5, <3>4
    <3>6. lost' \in [Devices -> SUBSET (Addresses \cup {Null})]
      BY <2>5, <3>2, <3>3
    <3> QED
      BY <2>3, <3>4, <3>5, <3>6
  <2> QED
    BY <2>1, <2>4, <2>6, <2>7, <2>8
<1>4. ASSUME NEW d \in Devices, StartDevice(d) PROVE ClaimTypeOK' /\ LoopKept'
  <2> DEFINE n == NodeOf[d]
  <2>1. /\ n \in Nodes /\ starting[n] = Index[d] /\ starting[n] + 1 \in 0 .. Count(n)
        /\ starting' = [starting EXCEPT ![n] = @ + 1]
        /\ open[n] # "closed"
        /\ open' = [open EXCEPT ![n] = IF starting[n] + 1 = Count(n) THEN "open" ELSE @]
    BY <1>4, NodeFacts DEF StartDevice
  <2>2. /\ open' \in [Nodes -> {"closed", "opening", "open"}]
        /\ \A m \in Nodes : starting'[m] \in 0 .. Count(m)
        /\ LoopKept'
    BY <2>1
  <2>3. UNCHANGED <<uid, ownClash, commands, restarts>>
    BY <1>4 DEF StartDevice
  <2>4. inbox \in [Nodes -> Seq(Claims)] /\ inst[d] \in 0 .. InstModulus - 1
    BY DEF Claims
  <2>5. CASE src[d] = Null
    <3>1. /\ StartAddressClaim(inbox, d, RestartFrom(d), inst[d])
          /\ endSrc' = [endSrc EXCEPT ![d] = EndFor(RestartAddress)]
          /\ lost' = [lost EXCEPT ![d] = Others(d)]
      BY <1>4, <2>5 DEF StartDevice
    <3>2. Others(d) \subseteq Addresses \cup {Null}
      BY DEF Others, Own
    <3>3. RestartFrom(d) \in Addresses \cup {Null} /\ EndFor(RestartAddress) \in Addresses
      BY RestartFromIs
    <3>4. /\ src' \in [Devices -> Addresses \cup {Null}]
          /\ \A e \in Devices : e # d => src'[e] = src[e]
          /\ inst' \in [Devices -> 0 .. InstModulus - 1]
          /\ claiming' \in [Devices -> BOOLEAN]
          /\ inbox' \in [Nodes -> Seq(Claims)]
          /\ missed' \in [Nodes -> SUBSET Addresses] /\ losses' \in 0 .. MaxLosses
      BY <2>4, <3>1, <3>3, StartEffect
    <3> QED
      BY <2>2, <2>3, <3>1, <3>2, <3>3, <3>4 DEF Claims
  <2>6. CASE src[d] # Null
    <3>1. /\ StartAddressClaim(inbox, d, src[d], inst[d])
          /\ UNCHANGED <<endSrc, lost>>
      BY <1>4, <2>6 DEF StartDevice
    <3>2. /\ src' \in [Devices -> Addresses \cup {Null}] /\ src'[d] = src[d]
          /\ \A e \in Devices : e # d => src'[e] = src[e]
          /\ inst' \in [Devices -> 0 .. InstModulus - 1]
          /\ claiming' \in [Devices -> BOOLEAN]
          /\ inbox' \in [Nodes -> Seq(Claims)]
          /\ missed' \in [Nodes -> SUBSET Addresses] /\ losses' \in 0 .. MaxLosses
      BY <2>4, <3>1, StartEffect
    <3> QED
      BY <2>2, <2>3, <3>1, <3>2 DEF Claims
  <2> QED
    BY <2>5, <2>6
<1>5. ASSUME NEW d \in Devices, ClaimTimeout(d) PROVE ClaimTypeOK' /\ LoopKept'
  <2>1. EndFor(src[d]) \in Addresses \cup {Null - 1}
        /\ (src[d] # Null => EndFor(src[d]) \in Addresses)
    <3>1. CASE src[d] # Null
      BY <3>1, RoundToEnd
    <3>2. CASE src[d] = Null
      BY <3>2, ClaimAssumption DEF EndFor, Null
    <3> QED
      BY <3>1, <3>2
  <2> QED
    BY <1>5, <2>1 DEF ClaimTimeout
<1>6. ASSUME NEW d \in Devices, CommandAddress(d) PROVE ClaimTypeOK' /\ LoopKept'
  <2>1. PICK a \in Addresses :
          /\ commands < MaxCommands /\ commands' = commands + 1
          /\ StartAddressClaim(inbox, d, a, inst[d])
          /\ endSrc' = [endSrc EXCEPT ![d] = EndFor(a)]
          /\ lost' = [lost EXCEPT ![d] = {}]
          /\ ownClash' = (ownClash \/ ~Vacant(d, a))
          /\ UNCHANGED <<open, starting, uid, restarts>>
    BY <1>6 DEF CommandAddress
  <2>2. EndFor(a) \in Addresses
    BY RoundToEnd
  <2>3. commands' \in 0 .. MaxCommands
    BY <2>1, ClaimAssumption
  <2>4. ownClash' \in BOOLEAN
    BY <2>1 DEF Vacant
  <2>5. inbox \in [Nodes -> Seq(Claims)] /\ inst[d] \in 0 .. InstModulus - 1
    BY DEF Claims
  <2>6. /\ src' \in [Devices -> Addresses \cup {Null}]
        /\ \A e \in Devices : e # d => src'[e] = src[e]
        /\ inst' \in [Devices -> 0 .. InstModulus - 1]
        /\ claiming' \in [Devices -> BOOLEAN]
        /\ inbox' \in [Nodes -> Seq(Claims)]
        /\ missed' \in [Nodes -> SUBSET Addresses] /\ losses' \in 0 .. MaxLosses
    BY <2>1, <2>5, StartEffect
  <2> QED
    BY <2>1, <2>2, <2>3, <2>4, <2>6 DEF Claims
<1>7. ASSUME NEW n \in Nodes, DropClaim(n) PROVE ClaimTypeOK' /\ LoopKept'
  <2>1. PICK box : box = [inbox EXCEPT ![n] = Tail(@)]
    OBVIOUS
  <2>2. box \in [Nodes -> Seq(Claims)] /\ Head(inbox[n]).src \in Addresses
    <3>1. inbox \in [Nodes -> Seq(Claims)] /\ inbox[n] # <<>>
      BY <1>7 DEF DropClaim, Claims
    <3>2. PICK s \in Seq(Claims) : s = inbox[n]
      BY <3>1
    <3>3. Tail(s) \in Seq(Claims) /\ Head(s) \in Claims
      BY <3>1, <3>2
    <3> QED
      BY <2>1, <3>1, <3>2, <3>3 DEF Claims
  <2>3. losses' \in 0 .. MaxLosses
    BY <1>7, ClaimAssumption DEF DropClaim
  <2>4. inbox' \in [Nodes -> Seq(Claims)] /\ missed' \in [Nodes -> SUBSET Addresses]
    BY <1>7, <2>1, <2>2 DEF DropClaim
  <2> QED
    BY <1>7, <2>3, <2>4 DEF DropClaim, Claims
<1>8. CASE UNCHANGED vars
  BY <1>8 DEF vars
<1> QED
  BY <1>1, <1>2, <1>3, <1>4, <1>5, <1>6, <1>7, <1>8 DEF Next

-----------------------------------------------------------------------------
(* The devices of one node. *)

LEMMA OwnKept ==
  ASSUME OwnDevicesDiffer, ownClash => ownClash', NEW d \in Devices,
         \A e \in Devices : e # d => src'[e] = src[e],
         src'[d] = src[d] \/ src'[d] = Null \/ Vacant(d, src'[d]) \/ ownClash'
  PROVE  OwnDevicesDiffer'
<1> SUFFICES ASSUME ~ownClash', NEW e \in Devices, NEW f \in Devices,
                    e # f, NodeOf[e] = NodeOf[f], src'[e] # Null, src'[e] = src'[f]
             PROVE  FALSE
  BY DEF OwnDevicesDiffer
<1>1. ~ownClash
  OBVIOUS
<1>2. ASSUME NEW g \in Devices, g # d, NodeOf[g] = NodeOf[d], src'[g] = src'[d], src'[d] # Null
      PROVE  FALSE
  <2>1. src'[d] = src[g] /\ src[g] \in Others(d)
    BY <1>2 DEF Others, Own
  <2>2. src'[d] = src[d]
    BY <1>2, <2>1 DEF Vacant
  <2> QED
    BY <1>1, <1>2, <2>1, <2>2 DEF OwnDevicesDiffer
<1>3. e # d /\ f # d
  BY <1>2
<1> QED
  BY <1>1, <1>3 DEF OwnDevicesDiffer

LEMMA OwnStep ==
  ASSUME ClaimTypeOK, LoopKept, OwnDevicesDiffer, [Next]_vars
  PROVE  OwnDevicesDiffer'
<1>1. ASSUME NEW n \in Nodes, Open(n) \/ Restart(n) \/ DropClaim(n) PROVE OwnDevicesDiffer'
  BY <1>1 DEF Open, Restart, DropClaim, OwnDevicesDiffer
<1>2. ASSUME NEW n \in Nodes, ParseClaim(n) PROVE OwnDevicesDiffer'
  <2>1. PICK c, box :
          /\ Parsed(n, c, box)
          /\ \/ Ignored(n, c, box)
             \/ \E d \in DeviceAt(n, c.src) :
                  Kept(d, c, box) \/ Renamed(d, c, box) \/ Moved(d, c, box)
    BY <1>2, ParseKinds
  <2>2. ownClash' = ownClash
    BY <1>2 DEF ParseClaim
  <2>3. CASE UNCHANGED src
    BY <2>2, <2>3 DEF OwnDevicesDiffer
  <2>4. ASSUME NEW d \in DeviceAt(n, c.src), Renamed(d, c, box) PROVE UNCHANGED src
    BY <2>4 DEF Renamed, StartAddressClaim, ClaimTypeOK
  <2>5. ASSUME NEW d \in DeviceAt(n, c.src), Moved(d, c, box) PROVE OwnDevicesDiffer'
    <3>1. d \in Devices /\ src[d] # Null
      BY <2>1, NodeFacts DEF DeviceAt, Own, Parsed, Claims
    <3>2. src' = [src EXCEPT ![d] = NextAddress(d)]
      BY <2>5 DEF Moved, StartAddressClaim
    <3>3. src'[d] = Null \/ Vacant(d, src'[d])
      BY <3>1, <3>2, NextAddressIs DEF ClaimTypeOK
    <3>4. \A e \in Devices : e # d => src'[e] = src[e]
      BY <3>2 DEF ClaimTypeOK
    <3> QED
      BY <2>2, <3>1, <3>3, <3>4, OwnKept
  <2> QED
    BY <2>1, <2>3, <2>4, <2>5 DEF Ignored, Kept
<1>3. ASSUME NEW d \in Devices, StartDevice(d) PROVE OwnDevicesDiffer'
  <2>1. ownClash' = ownClash
    BY <1>3 DEF StartDevice
  <2>2. \A e \in Devices : e # d => src'[e] = src[e]
    BY <1>3 DEF StartDevice, StartAddressClaim, ClaimTypeOK
  <2>3. src'[d] = src[d] \/ src'[d] = Null \/ Vacant(d, src'[d])
    <3>1. CASE src[d] = Null
      <4>1. src'[d] = RestartFrom(d)
        BY <1>3, <3>1 DEF StartDevice, StartAddressClaim, ClaimTypeOK
      <4> QED
        BY <4>1, RestartFromIs
    <3>2. CASE src[d] # Null
      BY <1>3, <3>2 DEF StartDevice, StartAddressClaim, ClaimTypeOK
    <3> QED
      BY <3>1, <3>2
  <2> QED
    BY <2>1, <2>2, <2>3, OwnKept
<1>4. ASSUME NEW d \in Devices, ClaimTimeout(d) PROVE OwnDevicesDiffer'
  BY <1>4 DEF ClaimTimeout, OwnDevicesDiffer
<1>5. ASSUME NEW d \in Devices, CommandAddress(d) PROVE OwnDevicesDiffer'
  <2>1. PICK a \in Addresses :
          /\ StartAddressClaim(inbox, d, a, inst[d])
          /\ ownClash' = (ownClash \/ ~Vacant(d, a))
    BY <1>5 DEF CommandAddress
  <2>2. src'[d] = a /\ \A e \in Devices : e # d => src'[e] = src[e]
    BY <2>1 DEF StartAddressClaim, ClaimTypeOK
  <2>3. (ownClash => ownClash') /\ (Vacant(d, src'[d]) \/ ownClash')
    BY <2>1, <2>2
  <2> QED
    BY <2>2, <2>3, OwnKept
<1>6. CASE UNCHANGED vars
  BY <1>6 DEF vars, OwnDevicesDiffer
<1> QED
  BY <1>1, <1>2, <1>3, <1>4, <1>5, <1>6 DEF Next

-----------------------------------------------------------------------------
(* The walk round the addresses. *)

LEMMA WalkStep ==
  ASSUME ClaimTypeOK, WalkKept, NullMeansAllTried, [Next]_vars
  PROVE  WalkKept' /\ NullMeansAllTried'
<1> DEFINE Walked(d) ==
      IF src'[d] = Null THEN Addresses \subseteq lost'[d]
      ELSE \A a \in Addresses :
             a \in lost'[d] \/ Steps(src'[d], a) <= Steps(src'[d], endSrc'[d])
<1>1. SUFFICES ASSUME NEW d \in Devices PROVE Walked(d)
  BY DEF WalkKept, NullMeansAllTried
<1>2. CASE src'[d] = src[d] /\ endSrc'[d] = endSrc[d] /\ lost'[d] = lost[d]
  BY <1>2 DEF WalkKept, NullMeansAllTried
<1>3. ASSUME NEW n \in Nodes, Open(n) \/ Restart(n) \/ DropClaim(n) PROVE Walked(d)
  BY <1>2, <1>3 DEF Open, Restart, DropClaim
<1>4. ASSUME NEW n \in Nodes, ParseClaim(n) PROVE Walked(d)
  <2>1. PICK c, box :
          /\ Parsed(n, c, box)
          /\ \/ Ignored(n, c, box)
             \/ \E e \in DeviceAt(n, c.src) :
                  Kept(e, c, box) \/ Renamed(e, c, box) \/ Moved(e, c, box)
    BY <1>4, ParseKinds
  <2>2. endSrc' = endSrc
    BY <1>4 DEF ParseClaim
  <2>3. CASE UNCHANGED <<src, lost>>
    BY <1>2, <2>2, <2>3
  <2>4. ASSUME NEW e \in DeviceAt(n, c.src), Renamed(e, c, box) PROVE UNCHANGED <<src, lost>>
    BY <2>4 DEF Renamed, StartAddressClaim, ClaimTypeOK
  <2>5. ASSUME NEW e \in DeviceAt(n, c.src), Moved(e, c, box) PROVE Walked(d)
    <3>1. e \in Devices /\ src[e] # Null
      BY <2>1, NodeFacts DEF DeviceAt, Own, Parsed, Claims
    <3>2. /\ src' = [src EXCEPT ![e] = NextAddress(e)]
          /\ lost' = [lost EXCEPT ![e] = @ \cup {src[e]} \cup Others(e)]
      BY <2>5 DEF Moved, StartAddressClaim
    <3>3. CASE d # e
      BY <1>2, <2>2, <3>2, <3>3 DEF ClaimTypeOK
    <3>4. CASE d = e
      <4>1. src'[d] = NextAddress(d) /\ lost'[d] = lost[d] \cup {src[d]} \cup Others(d)
        BY <3>1, <3>2, <3>4 DEF ClaimTypeOK
      <4>2. /\ src[d] \in Addresses /\ endSrc[d] \in Addresses
            /\ NextAddress(d) = FirstVacant(d, src[d], 1, Steps(src[d], endSrc[d]))
        BY <3>1, <3>4, NextAddressIs
      <4>3. ASSUME NEW a \in Addresses
            PROVE  \/ a \in lost'[d]
                   \/ src'[d] \in Addresses /\ Steps(src'[d], a) <= Steps(src'[d], endSrc[d])
        <5>1. a \in lost[d] \/ Steps(src[d], a) <= Steps(src[d], endSrc[d])
          BY <3>1, <3>4 DEF WalkKept
        <5>2. Steps(src[d], a) \in 0 .. MaxAddress /\ Nth(src[d], Steps(src[d], a)) = a
          BY <4>2, StepsType
        <5>3. CASE Steps(src[d], a) = 0
          <6>1. Nth(src[d], 0) = src[d]
            BY <4>2, NthIs, ClaimAssumption DEF Addresses
          <6> QED
            BY <4>1, <5>2, <5>3, <6>1
        <5>4. CASE 1 <= Steps(src[d], a) /\ Steps(src[d], a) <= Steps(src[d], endSrc[d])
          BY <4>1, <4>2, <5>4, WalkOn
        <5>5. Steps(src[d], a) = 0 \/ 1 <= Steps(src[d], a)
          BY <5>2, ClaimAssumption
        <5> QED
          BY <4>1, <5>1, <5>3, <5>4, <5>5
      <4> QED
        BY <2>2, <4>3, NodeFacts
    <3> QED
      BY <3>3, <3>4
  <2> QED
    BY <2>1, <2>3, <2>4, <2>5 DEF Ignored, Kept
<1>5. ASSUME NEW e \in Devices, StartDevice(e) PROVE Walked(d)
  <2>1. CASE src[e] = Null
    <3>1. /\ src' = [src EXCEPT ![e] = RestartFrom(e)]
          /\ endSrc' = [endSrc EXCEPT ![e] = EndFor(RestartAddress)]
          /\ lost' = [lost EXCEPT ![e] = Others(e)]
      BY <1>5, <2>1 DEF StartDevice, StartAddressClaim
    <3>2. CASE d # e
      BY <1>2, <3>1, <3>2 DEF ClaimTypeOK
    <3>3. CASE d = e
      <4>1. PICK end : end = EndFor(RestartAddress)
        OBVIOUS
      <4>2. src'[d] = RestartFrom(d) /\ endSrc'[d] = end /\ lost'[d] = Others(d)
        BY <3>1, <3>3, <4>1 DEF ClaimTypeOK
      <4>3. /\ RestartAddress \in Addresses /\ end \in Addresses
            /\ Steps(RestartAddress, end) = MaxAddress
            /\ RestartFrom(d) = FirstVacant(d, RestartAddress, 0, Steps(RestartAddress, end))
        BY <4>1, RestartFromIs
      <4>4. ASSUME NEW a \in Addresses
            PROVE  \/ a \in lost'[d]
                   \/ src'[d] \in Addresses /\ Steps(src'[d], a) <= Steps(src'[d], end)
        <5>1. Steps(RestartAddress, a) \in 0 .. MaxAddress
          BY <4>3, StepsType
        <5>2. /\ 0 <= Steps(RestartAddress, a)
              /\ Steps(RestartAddress, a) <= Steps(RestartAddress, end)
          BY <4>3, <5>1, ClaimAssumption
        <5> QED
          BY <4>2, <4>3, <5>2, WalkOn
      <4> QED
        BY <4>2, <4>4, NodeFacts
    <3> QED
      BY <3>2, <3>3
  <2>2. CASE src[e] # Null
    BY <1>2, <1>5, <2>2 DEF StartDevice, StartAddressClaim, ClaimTypeOK
  <2> QED
    BY <2>1, <2>2
<1>6. ASSUME src'[d] \in Addresses, endSrc'[d] = EndFor(src'[d]) PROVE Walked(d)
  <2>1. ASSUME NEW a \in Addresses PROVE Steps(src'[d], a) <= Steps(src'[d], endSrc'[d])
    <3>1. Steps(src'[d], a) \in 0 .. MaxAddress
      BY <1>6, StepsType
    <3>2. Steps(src'[d], EndFor(src'[d])) = MaxAddress
      BY <1>6, RoundToEnd
    <3> QED
      BY <1>6, <3>1, <3>2, ClaimAssumption
  <2> QED
    BY <1>6, <2>1, NodeFacts
<1>7. ASSUME NEW e \in Devices, ClaimTimeout(e) PROVE Walked(d)
  <2>1. /\ src' = src /\ endSrc' = [endSrc EXCEPT ![e] = EndFor(src[e])]
        /\ lost' = [lost EXCEPT ![e] = IF src[e] = Null THEN @ ELSE {}]
    BY <1>7 DEF ClaimTimeout
  <2>2. CASE d # e
    BY <1>2, <2>1, <2>2 DEF ClaimTypeOK
  <2>3. CASE d = e /\ src[d] = Null
    BY <2>1, <2>3 DEF ClaimTypeOK, NullMeansAllTried
  <2>4. CASE d = e /\ src[d] # Null
    BY <1>6, <2>1, <2>4 DEF ClaimTypeOK
  <2> QED
    BY <2>2, <2>3, <2>4
<1>8. ASSUME NEW e \in Devices, CommandAddress(e) PROVE Walked(d)
  <2>1. PICK a \in Addresses :
          /\ src' = [src EXCEPT ![e] = a]
          /\ endSrc' = [endSrc EXCEPT ![e] = EndFor(a)]
          /\ lost' = [lost EXCEPT ![e] = {}]
    BY <1>8 DEF CommandAddress, StartAddressClaim
  <2>2. CASE d # e
    BY <1>2, <2>1, <2>2 DEF ClaimTypeOK
  <2>3. CASE d = e
    BY <1>6, <2>1, <2>3 DEF ClaimTypeOK
  <2> QED
    BY <2>2, <2>3
<1>9. CASE UNCHANGED vars
  BY <1>2, <1>9 DEF vars
<1> QED
  BY <1>3, <1>4, <1>5, <1>7, <1>8, <1>9 DEF Next

-----------------------------------------------------------------------------
(* No conflict is forgotten but by a lost claim. *)

LEMMA ConflictHas ==
  ConflictInFlight <=>
    \A d, e \in Devices :
      /\ NodeOf[d] # NodeOf[e] /\ Claimed(d) /\ Claimed(e)
      /\ src[d] = src[e] /\ src[d] # Null /\ ~ownClash
      => Shown(inbox, missed, NodeOf[d], src[d]) \/ Shown(inbox, missed, NodeOf[e], src[e])
  BY DEF ConflictInFlight, ClaimOnItsWay, Shown, OnWay

LEMMA ConflictHasNext ==
  ASSUME \A d, e \in Devices :
           /\ NodeOf[d] # NodeOf[e] /\ Claimed(d)' /\ Claimed(e)'
           /\ src'[d] = src'[e] /\ src'[d] # Null /\ ~ownClash'
           => \/ Shown(inbox', missed', NodeOf[d], src'[d])
              \/ Shown(inbox', missed', NodeOf[e], src'[e])
  PROVE  ConflictInFlight'
  BY DEF ConflictInFlight, ClaimOnItsWay, Shown, OnWay

(* A device whose node is closed has not claimed its address.              *)
LEMMA ClaimedIsOpen ==
  ASSUME NEW d \in Devices, Claimed(d)
  PROVE  open[NodeOf[d]] # "closed"
  BY DEF Claimed

(* Device d claims an address: whoever has it too will hear of it.  For    *)
(* the others a claim on its way must still be on its way.                 *)
LEMMA ConflictKept ==
  ASSUME ClaimTypeOK, ConflictInFlight, ownClash => ownClash', NEW d \in Devices,
         NEW box \in [Nodes -> Seq(Claims)], NEW i \in Nat,
         src'[d] \in Addresses \cup {Null}, \A e \in Devices : e # d => src'[e] = src[e],
         Send(box, d, src'[d], i),
         \A e \in Devices : e # d /\ Claimed(e)' => Claimed(e),
         \A n \in Nodes : open'[n] # "closed" => open[n] # "closed",
         \A e \in Devices : e # d /\ ~ownClash' /\ Shown(inbox, missed, NodeOf[e], src[e])
           => Shown(box, missed, NodeOf[e], src[e])
  PROVE  ConflictInFlight'
<1> SUFFICES ASSUME NEW e \in Devices, NEW f \in Devices, NodeOf[e] # NodeOf[f],
                    Claimed(e)', Claimed(f)', src'[e] = src'[f], src'[e] # Null, ~ownClash'
             PROVE  \/ Shown(inbox', missed', NodeOf[e], src'[e])
                    \/ Shown(inbox', missed', NodeOf[f], src'[f])
  BY DEF ConflictInFlight, ClaimOnItsWay, Shown, OnWay
<1>2. /\ NodeOf[e] \in Nodes /\ NodeOf[f] \in Nodes
      /\ open[NodeOf[e]] # "closed" /\ open[NodeOf[f]] # "closed"
  BY NodeFacts DEF Claimed
<1>3. PICK a \in Addresses \cup {Null} : a = src'[d]
  OBVIOUS
<1>4. /\ \A n \in Nodes : \A b : Shown(box, missed, n, b) => Shown(inbox', missed', n, b)
      /\ \A n \in Nodes : n # NodeOf[d] /\ open[n] # "closed" /\ a # Null
           => Shown(inbox', missed', n, a)
  <2>1. /\ Send(box, d, a, i) /\ uid \in UidChoices
        /\ missed \in Lacking /\ losses \in 0 .. MaxLosses
    BY <1>3 DEF ClaimTypeOK, Lacking
  <2> QED
    BY <2>1, SendEffect DEF Hearers
<1>5. CASE e = d
  BY <1>2, <1>3, <1>4, <1>5
<1>6. CASE f = d
  BY <1>2, <1>3, <1>4, <1>6
<1>7. CASE e # d /\ f # d
  <2>1. Claimed(e) /\ Claimed(f) /\ src'[e] = src[e] /\ src'[f] = src[f] /\ ~ownClash
    BY <1>7
  <2>2. Shown(inbox, missed, NodeOf[e], src[e]) \/ Shown(inbox, missed, NodeOf[f], src[f])
    BY <2>1, ConflictHas
  <2>3. Shown(box, missed, NodeOf[e], src[e]) \/ Shown(box, missed, NodeOf[f], src[f])
    BY <1>7, <2>2
  <2> QED
    BY <1>2, <1>4, <2>1, <2>3
<1> QED
  BY <1>5, <1>6, <1>7

LEMMA ConflictStep ==
  ASSUME ClaimTypeOK, LoopKept, OwnDevicesDiffer, ConflictInFlight, [Next]_vars
  PROVE  ConflictInFlight'
<1>t. /\ inbox \in [Nodes -> Seq(Claims)]
      /\ \A d \in Devices : inst[d] \in Nat
  <2>1. 0 .. InstModulus - 1 \subseteq Nat
    BY ClaimAssumption
  <2> QED
    BY <2>1 DEF ClaimTypeOK, Claims
<1>1. ASSUME NEW n \in Nodes, Open(n) PROVE ConflictInFlight'
  <2>1. /\ open[n] = "closed" /\ open' = [open EXCEPT ![n] = "opening"]
        /\ UNCHANGED <<starting, src, inbox, missed, ownClash>>
    BY <1>1 DEF Open
  <2>2. ASSUME NEW d \in Devices, Claimed(d)' PROVE Claimed(d)
    <3>1. CASE NodeOf[d] = n
      <4>1. open'[n] = "opening" /\ starting'[n] = 0
        BY <2>1 DEF ClaimTypeOK, LoopKept
      <4>2. ~(Index[d] < 0)
        BY NodeFacts
      <4> QED
        BY <2>2, <3>1, <4>1, <4>2 DEF Claimed
    <3>2. CASE NodeOf[d] # n
      BY <2>1, <2>2, <3>2, NodeFacts DEF Claimed, ClaimTypeOK
    <3> QED
      BY <3>1, <3>2
  <2> QED
    BY <2>1, <2>2 DEF ConflictInFlight, ClaimOnItsWay
<1>2. ASSUME NEW n \in Nodes, Restart(n) PROVE ConflictInFlight'
  <2>1. /\ open[n] = "open" /\ starting' = [starting EXCEPT ![n] = 0]
        /\ UNCHANGED <<open, src, inbox, missed, ownClash>>
    BY <1>2 DEF Restart, Idle
  <2>2. ASSUME NEW d \in Devices, Claimed(d)' PROVE Claimed(d)
    BY <2>1, <2>2, NodeFacts DEF Claimed, LoopKept
  <2> QED
    BY <2>1, <2>2 DEF ConflictInFlight, ClaimOnItsWay
<1>3. ASSUME NEW n \in Nodes, ParseClaim(n) PROVE ConflictInFlight'
  <2>1. PICK c, box :
          /\ Parsed(n, c, box)
          /\ \/ Ignored(n, c, box)
             \/ \E d \in DeviceAt(n, c.src) :
                  Kept(d, c, box) \/ Renamed(d, c, box) \/ Moved(d, c, box)
    BY <1>3, ParseKinds
  <2>2. UNCHANGED <<open, starting, ownClash>>
    BY <1>3 DEF ParseClaim
  <2>3. \A d \in Devices : Claimed(d)' => Claimed(d)
    BY <2>2 DEF Claimed
  <2>4. /\ box \in [Nodes -> Seq(Claims)]
        /\ \A m \in Nodes : \A a : Shown(inbox, missed, m, a) /\ (m = n => a # c.src)
             => Shown(box, missed, m, a)
    BY <2>1 DEF Parsed, Shown
  <2>5. CASE Ignored(n, c, box)
    <3>1. \A d \in Devices : NodeOf[d] = n => src[d] # c.src
      <4> SUFFICES ASSUME NEW d \in Devices, NodeOf[d] = n, src[d] = c.src PROVE FALSE
        OBVIOUS
      <4>1. PICK S : S = {Index[e] : e \in {g \in Own(n) : src[g] = c.src}}
        OBVIOUS
      <4>2. S \in SUBSET Nat /\ S # {}
        BY <4>1, NodeFacts DEF Own
      <4>3. PICK k \in S : \A j \in S : k <= j
        BY <4>2, LeastExists
      <4>4. PICK e \in Own(n) : src[e] = c.src /\ k = Index[e]
        BY <4>1, <4>3
      <4>5. \A g \in Own(n) : src[g] = c.src => Index[e] <= Index[g]
        BY <4>1, <4>3, <4>4
      <4> QED
        BY <2>5, <4>4, <4>5 DEF Ignored, DeviceAt
    <3>2. \A d \in Devices :
            Shown(inbox, missed, NodeOf[d], src[d]) => Shown(box, missed, NodeOf[d], src[d])
      BY <2>4, <3>1, NodeFacts
    <3>3. inbox' = box /\ src' = src /\ missed' = missed
      BY <2>5 DEF Ignored
    <3> QED
      BY <2>2, <2>3, <3>2, <3>3, ConflictHas, ConflictHasNext
  <2>6. ASSUME NEW d \in DeviceAt(n, c.src) PROVE
          /\ d \in Devices /\ NodeOf[d] = n /\ src[d] = c.src /\ src[d] # Null
          /\ \A e \in Devices : e # d /\ ~ownClash' /\ Shown(inbox, missed, NodeOf[e], src[e])
               => Shown(box, missed, NodeOf[e], src[e])
    <3>1. d \in Devices /\ NodeOf[d] = n /\ src[d] = c.src /\ src[d] # Null
      BY <2>1, <2>6, NodeFacts DEF DeviceAt, Own, Parsed, Claims
    <3>2. \A e \in Devices : e # d /\ ~ownClash' /\ NodeOf[e] = n => src[e] # c.src
      BY <2>2, <3>1 DEF OwnDevicesDiffer
    <3> QED
      BY <2>4, <3>1, <3>2, NodeFacts
  <2>7. ASSUME NEW d \in DeviceAt(n, c.src), NEW i \in Nat,
               src'[d] \in Addresses \cup {Null}, \A e \in Devices : e # d => src'[e] = src[e],
               Send(box, d, src'[d], i)
        PROVE  ConflictInFlight'
    <3>1. d \in Devices
      BY <2>6
    <3> QED
      BY <2>2, <2>3, <2>4, <2>6, <2>7, <3>1, ConflictKept
  <2>8. ASSUME NEW d \in DeviceAt(n, c.src), Kept(d, c, box) PROVE ConflictInFlight'
    <3>1. src'[d] = src[d] /\ Send(box, d, src'[d], inst[d])
      BY <2>8 DEF Kept
    <3>2. inst[d] \in Nat /\ src'[d] \in Addresses \cup {Null}
      BY <1>t, <2>6, <3>1 DEF ClaimTypeOK
    <3>3. \A e \in Devices : e # d => src'[e] = src[e]
      BY <2>8 DEF Kept
    <3> QED
      BY <2>7, <3>1, <3>2, <3>3
  <2>9. ASSUME NEW d \in DeviceAt(n, c.src), NEW a \in Addresses \cup {Null}, NEW i \in Nat,
               StartAddressClaim(box, d, a, i)
        PROVE  ConflictInFlight'
    <3>1. d \in Devices
      BY <2>6
    <3>2. src'[d] = a /\ \A e \in Devices : e # d => src'[e] = src[e]
      BY <2>9, <3>1 DEF StartAddressClaim, ClaimTypeOK
    <3>3. Send(box, d, src'[d], i)
      BY <2>9, <3>2 DEF StartAddressClaim
    <3> QED
      BY <2>7, <3>2, <3>3
  <2>10. ASSUME NEW d \in DeviceAt(n, c.src), Renamed(d, c, box) PROVE ConflictInFlight'
    <3>1. (inst[d] + 1) % InstModulus \in Nat
      <4>1. inst[d] + 1 \in Nat /\ InstModulus \in Nat \ {0}
        BY <1>t, <2>6, ClaimAssumption
      <4> QED
        BY <4>1
    <3>2. src[d] \in Addresses \cup {Null}
      BY <2>6 DEF ClaimTypeOK
    <3> QED
      BY <2>9, <2>10, <3>1, <3>2 DEF Renamed
  <2>11. ASSUME NEW d \in DeviceAt(n, c.src), Moved(d, c, box) PROVE ConflictInFlight'
    <3>1. NextAddress(d) \in Addresses \cup {Null}
      BY <2>6, NextAddressIs
    <3>2. inst[d] \in Nat
      BY <1>t, <2>6
    <3> QED
      BY <2>9, <2>11, <3>1, <3>2 DEF Moved
  <2> QED
    BY <2>1, <2>5, <2>8, <2>10, <2>11
<1>4. ASSUME NEW d \in Devices, NEW a \in Addresses \cup {Null},
             StartAddressClaim(inbox, d, a, inst[d]), ownClash => ownClash',
             \A e \in Devices : e # d /\ Claimed(e)' => Claimed(e),
             \A n \in Nodes : open'[n] # "closed" => open[n] # "closed"
      PROVE  ConflictInFlight'
  <2>1. src'[d] = a /\ \A e \in Devices : e # d => src'[e] = src[e]
    BY <1>4 DEF StartAddressClaim, ClaimTypeOK
  <2>2. Send(inbox, d, src'[d], inst[d])
    BY <1>4, <2>1 DEF StartAddressClaim
  <2> QED
    BY <1>t, <1>4, <2>1, <2>2, ConflictKept
<1>5. ASSUME NEW d \in Devices, StartDevice(d) PROVE ConflictInFlight'
  <2> DEFINE n == NodeOf[d]
  <2>1. /\ n \in Nodes /\ starting[n] = Index[d] /\ open[n] # "closed"
        /\ starting' = [starting EXCEPT ![n] = @ + 1]
        /\ open' = [open EXCEPT ![n] = IF starting[n] + 1 = Count(n) THEN "open" ELSE @]
        /\ ownClash' = ownClash
    BY <1>5, NodeFacts DEF StartDevice
  <2>2. ASSUME NEW e \in Devices, e # d, Claimed(e)' PROVE Claimed(e)
    <3>1. CASE NodeOf[e] # n
      BY <2>1, <2>2, <3>1, NodeFacts DEF Claimed, ClaimTypeOK, LoopKept
    <3>2. CASE NodeOf[e] = n
      <4>1. Index[e] # Index[d] /\ Index[e] \in Nat /\ Index[d] \in Nat
            /\ Index[e] + 1 <= Count(n) /\ Count(n) \in Nat
        BY <2>2, <3>2, ClaimAssumption, NodeFacts
      <4>2. starting'[n] = Index[d] + 1
        BY <2>1 DEF LoopKept
      <4>3. open[n] = "open" \/ open[n] = "opening"
        BY <2>1 DEF ClaimTypeOK
      <4>4. open'[n] = IF Index[d] + 1 = Count(n) THEN "open" ELSE open[n]
        BY <2>1 DEF ClaimTypeOK
      <4>5. open'[n] = "open" \/ Index[e] < starting'[n]
        BY <2>2, <3>2 DEF Claimed
      <4>6. open[n] = "open" \/ Index[e] < Index[d]
        BY <4>1, <4>2, <4>3, <4>4, <4>5
      <4> QED
        BY <2>1, <3>2, <4>3, <4>6 DEF Claimed
    <3> QED
      BY <3>1, <3>2
  <2>3. \A m \in Nodes : open'[m] # "closed" => open[m] # "closed"
    BY <2>1 DEF ClaimTypeOK
  <2>4. \E a \in Addresses \cup {Null} : StartAddressClaim(inbox, d, a, inst[d])
    <3>1. RestartFrom(d) \in Addresses \cup {Null}
      BY RestartFromIs
    <3>2. src[d] \in Addresses \cup {Null}
      BY DEF ClaimTypeOK
    <3> QED
      BY <1>5, <3>1, <3>2 DEF StartDevice
  <2> QED
    BY <1>4, <2>1, <2>2, <2>3, <2>4
<1>6. ASSUME NEW d \in Devices, ClaimTimeout(d) PROVE ConflictInFlight'
  BY <1>6 DEF ClaimTimeout, ConflictInFlight, ClaimOnItsWay, Claimed
<1>7. ASSUME NEW d \in Devices, CommandAddress(d) PROVE ConflictInFlight'
  <2>1. PICK a \in Addresses :
          /\ StartAddressClaim(inbox, d, a, inst[d])
          /\ ownClash' = (ownClash \/ ~Vacant(d, a))
          /\ UNCHANGED <<open, starting>>
    BY <1>7 DEF CommandAddress
  <2>2. \A e \in Devices : e # d /\ Claimed(e)' => Claimed(e)
    BY <2>1 DEF Claimed
  <2>3. (ownClash => ownClash') /\ \A n \in Nodes : open'[n] # "closed" => open[n] # "closed"
    BY <2>1
  <2> QED
    BY <1>4, <2>1, <2>2, <2>3
<1>8. ASSUME NEW n \in Nodes, DropClaim(n) PROVE ConflictInFlight'
  <2>1. PICK c : c = Head(inbox[n])
    OBVIOUS
  <2>2. /\ inbox[n] # <<>> /\ inbox' = [inbox EXCEPT ![n] = Tail(@)]
        /\ missed' = [missed EXCEPT ![n] = IF OnWay(inbox', n, c.src) THEN @
                                            ELSE @ \cup {c.src}]
        /\ UNCHANGED <<open, starting, src, ownClash>>
    BY <1>8, <2>1 DEF DropClaim, OnWay
  <2>3. Parsed(n, c, inbox')
    <3>1. PICK box : box = inbox'
      OBVIOUS
    <3>2. box \in [Nodes -> Seq(Claims)]
      BY <3>1, <1>8, ClaimTypeStep DEF ClaimTypeOK, Claims, Next
    <3>3. box[n] = Tail(inbox[n]) /\ \A m \in Nodes \ {n} : box[m] = inbox[m]
      BY <1>t, <2>2, <3>1
    <3>4. Parsed(n, c, box)
      BY <1>t, <2>1, <2>2, <3>2, <3>3, ParsedEffect
    <3> QED
      BY <3>1, <3>4
  <2>4. \A m \in Nodes : \A a : Shown(inbox, missed, m, a) => Shown(inbox', missed', m, a)
    <3>1. \A m \in Nodes : missed[m] \subseteq missed'[m]
      BY <2>2 DEF ClaimTypeOK
    <3>2. OnWay(inbox', n, c.src) \/ c.src \in missed'[n]
      BY <2>2 DEF ClaimTypeOK
    <3> QED
      BY <2>3, <3>1, <3>2 DEF Parsed, Shown
  <2>5. \A d \in Devices : Claimed(d)' => Claimed(d)
    BY <2>2 DEF Claimed
  <2> QED
    BY <2>2, <2>4, <2>5, NodeFacts, ConflictHas, ConflictHasNext
<1>9. CASE UNCHANGED vars
  BY <1>9 DEF vars, ConflictInFlight, ClaimOnItsWay, Claimed
<1> QED
  BY <1>1, <1>2, <1>3, <1>5, <1>6, <1>7, <1>8, <1>9 DEF Next

-----------------------------------------------------------------------------
(* With different NAMEs. *)

(* The claim a node parses names a device of another node, so it is never  *)
(* mistaken for the node's own.                                            *)
LEMMA OtherName ==
  ASSUME ClaimTypeOK, NamesKept, DistinctNames, NEW n \in Nodes, NEW c, NEW box,
         Parsed(n, c, box), NEW d \in Devices, NodeOf[d] = n
  PROVE  /\ Name(d) = uid[d] /\ c.name # Name(d)
         /\ c.name < Name(d) => \E e \in Devices : uid[e] < uid[d]
<1>1. inst[d] = 0
  BY DEF NamesKept
<1>2. Name(d) = uid[d]
  BY <1>1, NameIsNat DEF Name, ClaimTypeOK
<1>3. PICK e \in Devices : NodeOf[e] # n /\ c.name = uid[e]
  BY DEF NamesKept, Parsed
<1>4. uid[e] # uid[d]
  BY <1>3 DEF DistinctNames
<1> QED
  BY <1>2, <1>3, <1>4

(* A claim that device d sends carries its NAME. *)
LEMMA NamesSent ==
  ASSUME ClaimTypeOK, NamesKept, DistinctNames, NEW d \in Devices,
         NEW box \in [Nodes -> Seq(Claims)], NEW a \in Addresses \cup {Null},
         Send(box, d, a, inst[d]), uid' = uid,
         \A m \in Nodes : \A k \in DOMAIN box[m] :
           \E j \in DOMAIN inbox[m] : box[m][k] = inbox[m][j]
  PROVE  \A n \in Nodes : \A k \in DOMAIN inbox'[n] :
           \E e \in Devices : NodeOf[e] # n /\ inbox'[n][k].name = uid'[e]
<1>1. PICK z \in Nat : z = inst[d]
  BY DEF NamesKept
<1>2. /\ uid \in UidChoices /\ NameOf(d, z) = uid[d] /\ Send(box, d, a, z)
      /\ missed \in Lacking /\ losses \in 0 .. MaxLosses
  BY <1>1, NameIsNat DEF NamesKept, ClaimTypeOK, Lacking
<1>3. \A n \in Nodes : SentTo(n, box[n], inbox'[n], d, z)
  BY <1>2, SendEffect
<1> SUFFICES ASSUME NEW n \in Nodes, NEW k \in DOMAIN inbox'[n]
             PROVE  \E e \in Devices : NodeOf[e] # n /\ inbox'[n][k].name = uid'[e]
  OBVIOUS
<1>4. CASE k \in DOMAIN box[n] /\ inbox'[n][k] = box[n][k]
  <2>1. PICK j \in DOMAIN inbox[n] : box[n][k] = inbox[n][j]
    BY <1>4
  <2> QED
    BY <1>4, <2>1 DEF NamesKept
<1>5. CASE n # NodeOf[d] /\ inbox'[n][k].name = NameOf(d, z)
  BY <1>2, <1>5
<1> QED
  BY <1>3, <1>4, <1>5 DEF SentTo

LEMMA NamesStep ==
  ASSUME ClaimTypeOK, NamesKept, [Next]_vars
  PROVE  NamesKept' /\ uid' = uid
<1>u. uid' = uid
  BY DEF Next, vars, Open, Restart, ParseClaim, DropClaim, StartDevice, ClaimTimeout,
         CommandAddress
<1> SUFFICES ASSUME DistinctNames PROVE NamesKept'
  BY <1>u DEF NamesKept, DistinctNames
<1>t. /\ inbox \in [Nodes -> Seq(Claims)]
      /\ \A d \in Devices : inst[d] = 0 /\ src[d] \in Addresses \cup {Null}
  BY DEF ClaimTypeOK, Claims, NamesKept
<1>0. CASE UNCHANGED <<inst, inbox>>
  BY <1>u, <1>0 DEF NamesKept
<1>1. ASSUME NEW d \in Devices, NEW box \in [Nodes -> Seq(Claims)],
             NEW a \in Addresses \cup {Null}, Send(box, d, a, inst[d]),
             \A m \in Nodes : \A k \in DOMAIN box[m] :
               \E j \in DOMAIN inbox[m] : box[m][k] = inbox[m][j],
             \A e \in Devices : inst'[e] = inst[e]
      PROVE  NamesKept'
  <2>1. \A n \in Nodes : \A k \in DOMAIN inbox'[n] :
           \E e \in Devices : NodeOf[e] # n /\ inbox'[n][k].name = uid'[e]
    BY <1>u, <1>1, NamesSent
  <2>2. \A e \in Devices : inst'[e] = 0
    BY <1>t, <1>1
  <2> QED
    BY <2>1, <2>2 DEF NamesKept
<1>2. ASSUME NEW d \in Devices, NEW a \in Addresses \cup {Null},
             StartAddressClaim(inbox, d, a, inst[d])
      PROVE  NamesKept'
  <2>1. \A e \in Devices : inst'[e] = inst[e]
    BY <1>2 DEF StartAddressClaim, ClaimTypeOK
  <2>2. Send(inbox, d, a, inst[d])
    BY <1>2 DEF StartAddressClaim
  <2> QED
    BY <1>t, <1>1, <2>1, <2>2
<1>3. ASSUME NEW n \in Nodes, ParseClaim(n) PROVE NamesKept'
  <2>1. PICK c, box :
          /\ Parsed(n, c, box)
          /\ \/ Ignored(n, c, box)
             \/ \E d \in DeviceAt(n, c.src) :
                  Kept(d, c, box) \/ Renamed(d, c, box) \/ Moved(d, c, box)
    BY <1>3, ParseKinds
  <2>2. /\ box \in [Nodes -> Seq(Claims)]
        /\ \A m \in Nodes : \A k \in DOMAIN box[m] :
             \E j \in DOMAIN inbox[m] : box[m][k] = inbox[m][j]
    BY <2>1 DEF Parsed
  <2>3. ASSUME NEW d \in DeviceAt(n, c.src)
        PROVE  d \in Devices /\ NodeOf[d] = n /\ src[d] # Null
    BY <2>1, NodeFacts DEF DeviceAt, Own, Parsed, Claims
  <2>4. CASE Ignored(n, c, box)
    <3>1. inbox' = box /\ inst' = inst
      BY <2>4 DEF Ignored
    <3>2. ASSUME NEW m \in Nodes, NEW k \in DOMAIN box[m]
          PROVE  \E e \in Devices : NodeOf[e] # m /\ box[m][k].name = uid[e]
      <4>1. PICK j \in DOMAIN inbox[m] : box[m][k] = inbox[m][j]
        BY <2>2
      <4> QED
        BY <4>1 DEF NamesKept
    <3> QED
      BY <1>t, <1>u, <3>1, <3>2 DEF NamesKept
  <2>5. ASSUME NEW d \in DeviceAt(n, c.src), Kept(d, c, box) PROVE NamesKept'
    <3>1. Send(box, d, src[d], inst[d]) /\ inst' = inst
      BY <2>5 DEF Kept
    <3>2. d \in Devices /\ src[d] \in Addresses \cup {Null}
      BY <1>t, <2>3
    <3> QED
      BY <1>1, <2>2, <3>1, <3>2
  <2>6. ASSUME NEW d \in DeviceAt(n, c.src), Renamed(d, c, box) PROVE NamesKept'
    BY <2>1, <2>3, <2>6, OtherName DEF Renamed
  <2>7. ASSUME NEW d \in DeviceAt(n, c.src), Moved(d, c, box) PROVE NamesKept'
    <3>1. StartAddressClaim(box, d, NextAddress(d), inst[d]) /\ d \in Devices
      BY <2>3, <2>7 DEF Moved
    <3>2. NextAddress(d) \in Addresses \cup {Null}
      BY <2>3, NextAddressIs
    <3>3. \A e \in Devices : inst'[e] = inst[e]
      BY <3>1 DEF StartAddressClaim, ClaimTypeOK
    <3>4. Send(box, d, NextAddress(d), inst[d])
      BY <3>1 DEF StartAddressClaim
    <3> QED
      BY <1>1, <2>2, <3>1, <3>2, <3>3, <3>4
  <2> QED
    BY <2>1, <2>4, <2>5, <2>6, <2>7
<1>4. ASSUME NEW d \in Devices, StartDevice(d) PROVE NamesKept'
  <2>1. RestartFrom(d) \in Addresses \cup {Null}
    BY RestartFromIs
  <2> QED
    BY <1>t, <1>2, <1>4, <2>1 DEF StartDevice
<1>5. ASSUME NEW d \in Devices, CommandAddress(d) PROVE NamesKept'
  BY <1>2, <1>5 DEF CommandAddress
<1>6. ASSUME NEW n \in Nodes, DropClaim(n) PROVE NamesKept'
  <2>1. /\ inbox[n] # <<>> /\ inbox' = [inbox EXCEPT ![n] = Tail(@)] /\ inst' = inst
    BY <1>6 DEF DropClaim
  <2>2. PICK box : box = [inbox EXCEPT ![n] = Tail(@)]
    OBVIOUS
  <2>3. box \in [Nodes -> Seq(Claims)] /\ box[n] = Tail(inbox[n])
        /\ \A m \in Nodes \ {n} : box[m] = inbox[m]
    <3>1. PICK s \in Seq(Claims) : s = inbox[n] /\ s # <<>>
      BY <1>t, <2>1
    <3>2. Tail(s) \in Seq(Claims)
      BY <3>1
    <3> QED
      BY <1>t, <2>2, <3>1, <3>2
  <2>4. Parsed(n, Head(inbox[n]), box)
    BY <1>t, <2>1, <2>3, ParsedEffect
  <2>5. ASSUME NEW m \in Nodes, NEW k \in DOMAIN box[m]
        PROVE  \E e \in Devices : NodeOf[e] # m /\ box[m][k].name = uid[e]
    <3>1. PICK j \in DOMAIN inbox[m] : box[m][k] = inbox[m][j]
      BY <2>4 DEF Parsed
    <3> QED
      BY <3>1 DEF NamesKept
  <2> QED
    BY <1>t, <1>u, <2>1, <2>2, <2>5 DEF NamesKept
<1> QED
  BY <1>0, <1>3, <1>4, <1>5, <1>6 DEF Next, vars, Open, Restart, ClaimTimeout

-----------------------------------------------------------------------------
(* The theorems. *)

LEMMA ClaimIInvInit == Init => ClaimIInv
<1> SUFFICES ASSUME Init PROVE ClaimIInv
  OBVIOUS
<1>1. \A d \in Devices : src[d] \in Addresses /\ src[d] # Null
                         /\ EndFor(src[d]) \in Addresses
                         /\ Steps(src[d], EndFor(src[d])) = MaxAddress
  BY RoundToEnd, NodeFacts DEF Init
<1>2. ClaimTypeOK
  <2>1. 0 \in 0 .. InstModulus - 1 /\ 0 \in 0 .. MaxCommands /\ 0 \in 0 .. MaxRestarts
        /\ 0 \in 0 .. MaxLosses
    BY ClaimAssumption
  <2>2. \A n \in Nodes : 0 \in 0 .. Count(n)
    BY NodeFacts
  <2>3. inbox \in [Nodes -> Seq([src : Addresses, name : Nat])]
    BY DEF Init
  <2> QED
    BY <1>1, <2>1, <2>2, <2>3 DEF Init, ClaimTypeOK
<1>3. ConflictInFlight
  <2>1. \A d \in Devices : ~Claimed(d)
    BY NodeFacts DEF Init, Claimed
  <2> QED
    BY <2>1 DEF ConflictInFlight
<1>4. OwnDevicesDiffer
  <2> SUFFICES ASSUME NEW d \in Devices, NEW e \in Devices, d # e,
                      NodeOf[d] = NodeOf[e], src[d] = src[e]
               PROVE  FALSE
    BY DEF OwnDevicesDiffer
  <2>1. PICK a \in FirstAddresses : \A g \in Own(NodeOf[d]) : src[g] = a + Index[g]
    BY NodeFacts DEF Init
  <2>2. /\ src[d] = a + Index[d] /\ src[e] = a + Index[e]
        /\ a \in Nat /\ Index[d] \in Nat /\ Index[e] \in Nat
    BY <2>1, NodeFacts, ClaimAssumption DEF Addresses
  <2>3. Index[d] = Index[e]
    <3>1. PICK i, j : i = Index[d] /\ j = Index[e]
      OBVIOUS
    <3>2. i \in Nat /\ j \in Nat /\ a \in Nat /\ a + i = a + j
      BY <2>2, <3>1
    <3>3. i = j
      BY <3>2
    <3> QED
      BY <3>1, <3>3
  <2> QED
    BY <2>3, ClaimAssumption
<1>5. NullMeansAllTried
  BY <1>1 DEF NullMeansAllTried
<1>6. LoopKept
  BY DEF Init, LoopKept
<1>7. WalkKept
  <2> SUFFICES ASSUME NEW d \in Devices, NEW a \in Addresses
               PROVE  Steps(src[d], a) <= Steps(src[d], endSrc[d])
    BY DEF WalkKept
  <2>1. Steps(src[d], a) \in 0 .. MaxAddress /\ endSrc[d] = EndFor(src[d])
    BY <1>1, StepsType DEF Init
  <2> QED
    BY <1>1, <2>1, ClaimAssumption
<1>8. NamesKept
  BY DEF Init, NamesKept
<1> QED
  BY <1>2, <1>3, <1>4, <1>5, <1>6, <1>7, <1>8 DEF ClaimIInv, ClaimInv

LEMMA ClaimIInvStep == ClaimIInv /\ [Next]_vars => ClaimIInv'
  BY ClaimTypeStep, OwnStep, WalkStep, ConflictStep, NamesStep DEF ClaimIInv, ClaimInv

LEMMA ClaimIInvariant == Spec => []ClaimIInv
  BY ClaimIInvInit, ClaimIInvStep, PTL DEF Spec

(* Whatever claims cross each other, are refused by the driver or dropped  *)
(* by a receiver, and whatever restarts and commands fall between: two     *)
(* nodes share an address only while a claim for it is on its way to one   *)
(* of them, or the last one for it never reached one of them; the devices  *)
(* of a node differ unless one was commanded to the address of another;    *)
(* and a device without an address has lost every one (SendIsoAddressClaim,*)
(* HandleISOAddressClaim, GetNextAddress, StartAddressClaim).              *)
THEOREM OnlyLostClaimsForget == Spec => []ClaimInv
<1>1. ClaimIInv => ClaimInv
  BY DEF ClaimIInv
<1> QED
  BY <1>1, ClaimIInvariant, PTL

(* With different NAMEs, only a smaller NAME, or a command, drives a       *)
(* device from its address: none is ever mistaken for another's, and no    *)
(* device instance ever changes (HandleISOAddressClaim).                   *)
THEOREM SmallestStays == Spec => SmallestNameStays
<1> DEFINE A == DistinctNames =>
       \A d \in Devices :
         src'[d] # src[d] /\ src[d] # Null /\ commands' = commands =>
           \E e \in Devices : uid[e] < uid[d]
<1>1. ClaimIInv /\ [Next]_vars => [A]_vars
  <2> SUFFICES ASSUME ClaimIInv, Next, DistinctNames, NEW d \in Devices,
                      src'[d] # src[d], src[d] # Null, commands' = commands
               PROVE  \E e \in Devices : uid[e] < uid[d]
    OBVIOUS
  <2>t. ClaimTypeOK /\ NamesKept
    BY DEF ClaimIInv, ClaimInv
  <2>1. ASSUME NEW n \in Nodes, ParseClaim(n) PROVE \E e \in Devices : uid[e] < uid[d]
    <3>1. PICK c, box :
            /\ Parsed(n, c, box)
            /\ \/ Ignored(n, c, box)
               \/ \E e \in DeviceAt(n, c.src) :
                    Kept(e, c, box) \/ Renamed(e, c, box) \/ Moved(e, c, box)
      BY <2>t, <2>1, ParseKinds
    <3>2. PICK e \in DeviceAt(n, c.src) : Renamed(e, c, box) \/ Moved(e, c, box)
      BY <3>1 DEF Ignored, Kept
    <3>3. \E a, i : StartAddressClaim(box, e, a, i)
      BY <3>2 DEF Renamed, Moved
    <3>4. d = e
      BY <2>t, <3>3 DEF StartAddressClaim, ClaimTypeOK
    <3>5. NodeOf[d] = n
      BY <3>4 DEF DeviceAt, Own
    <3>6. /\ Name(d) = uid[d] /\ c.name # Name(d)
          /\ c.name < Name(d) => \E g \in Devices : uid[g] < uid[d]
      BY <2>t, <3>1, <3>5, OtherName
    <3>7. ~(Name(d) < c.name)
      BY <3>2, <3>4, <3>6 DEF Renamed, Moved
    <3>8. c.name \in Nat /\ Name(d) \in Nat
      <4>1. uid[d] \in 0 .. 999
        BY <2>t, ClaimAssumption DEF ClaimTypeOK
      <4>2. c \in Claims
        BY <3>1 DEF Parsed
      <4> QED
        BY <3>6, <4>1, <4>2 DEF Claims
    <3> QED
      BY <3>6, <3>7, <3>8
  <2>2. ASSUME NEW e \in Devices, StartDevice(e) PROVE FALSE
    BY <2>t, <2>2 DEF StartDevice, StartAddressClaim, ClaimTypeOK
  <2>3. ASSUME NEW e \in Devices, CommandAddress(e) PROVE FALSE
    BY <2>t, <2>3, ClaimAssumption DEF CommandAddress, ClaimTypeOK
  <2> QED
    BY <2>1, <2>2, <2>3 DEF Next, Open, Restart, DropClaim, ClaimTimeout
<1> QED
  BY <1>1, ClaimIInvariant, PTL DEF Spec, SmallestNameStays
=============================================================================
