---------------------------- MODULE MCN2kServices ----------------------------
(* Two nodes and the node with the list; group functions are sent by b. *)
EXTENDS N2kServices

Name(unique) ==
  [UniqueNumber |-> unique, ManufacturerCode |-> 2046, DeviceInstance |-> 10,
   DeviceFunction |-> 130, DeviceClass |-> 25, SystemInstance |-> 1, IndustryGroup |-> 4]

Product(code) ==
  [N2kVersion |-> 2101, ProductCode |-> code, ModelID |-> <<109>>, SwCode |-> <<115>>,
   ModelVersion |-> <<118>>, ModelSerialCode |-> <<110>>, CertificationLevel |-> 1,
   LoadEquivalency |-> 2]

Conf(man, d1, d2) ==
  [ManufacturerInformation |-> man, InstallationDescription1 |-> d1,
   InstallationDescription2 |-> d2]

Node(src, unique, conf) ==
  [name |-> Name(unique), src |-> src, product |-> Product(unique), conf |-> conf,
   local |-> FALSE, tx |-> {60928, 126464, 126993, 126996, 126998, 126208, 127250},
   rx |-> {59904, 126208}, hb |-> [interval |-> 60000, offset |-> 10000],
   pending |-> {}, changed |-> {}, claiming |-> FALSE, end |-> (src + 2) % 3]

TwoNodes == [n \in Nodes |-> IF n = "a" THEN Node(0, 1, Conf(<<109>>, <<97>>, NoString))
                             ELSE Node(1, 2, Conf(NoString, NoString, NoString))]

-----------------------------------------------------------------------------
(* Questions *)

\* A pair of a field and a value, and its bytes.  Bits above those of a field
\* are 1.
Pair(f, v, bytes) == [p |-> [f |-> f, v |-> v], bytes |-> <<f>> \o bytes]
Unique(v)   == Pair(1, v, <<v % 256, v \div 256, 224>>)
Bits(f, v, bits) == Pair(f, v, <<v + (256 - 2^bits)>>)
Word(f, v)  == Pair(f, v, <<v % 256, v \div 256>>)
Text(f, v)  == Pair(f, v, <<2 + Len(v), 1>> \o v)
Model(v)    == Pair(3, v, v)
Unicode(f)  == Pair(f, NoString, <<4, 0, 97, 0>>)

Body(code, pgn, pairs) ==
  LET data[k \in 0..Len(pairs)] == IF k = 0 THEN <<>> ELSE data[k - 1] \o pairs[k].bytes
  IN [code |-> code, pgn |-> pgn, n |-> Len(pairs), data |-> data[Len(pairs)],
      pairs |-> [k \in DOMAIN pairs |-> pairs[k].p],
      interval |-> NoChange, offset |-> 65535, priority |-> 8]

To(dst, body) == [to |-> dst, body |-> body]
Request0(dst, pgn, pairs) == To(dst, Body(Code.Request, pgn, pairs))
Command(dst, pgn, pairs) == To(dst, Body(Code.Command, pgn, pairs))

Asked ==
  {Request0("a", 60928, pairs) : pairs \in
     {<<>>, <<Bits(3, 2, 3), Bits(4, 1, 5)>>, <<Unique(1), Bits(4, 2, 5), Bits(8, 1, 4)>>,
      <<Bits(3, 2, 3), Bits(11, 0, 8), Bits(8, 1, 4)>>}}
  \cup {Request0("all", 60928, <<Unique(u)>>) : u \in {1, 3}}
  \cup {Request0("a", 126464, <<Bits(1, v, 8)>>) : v \in {1, 2}}
  \cup {Request0("a", 126464, <<>>)}
  \cup {Request0("a", 126996, <<Word(2, v), Model(<<109>>)>>) : v \in {1, 300}}
  \cup {Request0("all", 126998, <<Text(1, v), Text(2, <<>>)>>) : v \in {<<97>>, <<98>>}}
  \cup {Request0("a", 126998, <<Text(1, <<98>>), Text(3, <<109>>)>>)}
  \cup {[Request0("a", 126993, <<>>) EXCEPT !.body.interval = i] : i \in {NoChange, 0, 5000}}
  \cup {[Request0("a", 126996, <<>>) EXCEPT !.body.interval = 1000]}
  \cup {Request0(dst, pgn, <<>>) : dst \in {"a", "all"}, pgn \in {127250, 127251}}

Ordered ==
  {Command(dst, 60928, <<Bits(3, 5, 3), Bits(4, 7, 5), Bits(8, 3, 4)>>) : dst \in {"a", "all"}}
  \cup {Command("a", 60928, <<Bits(4, 3, 5), Bits(4, 4, 5)>>),
        Command("a", 60928, <<Bits(8, 2, 4), Unique(9), Bits(3, 1, 3)>>),
        Command("a", 126998, <<Text(2, <<99, 100>>), Text(1, <<98>>)>>),
        Command("a", 126998, <<Text(2, <<99>>), Text(3, <<98>>)>>),
        Command("a", 126998, <<Unicode(1)>>),
        Command("a", 126993, <<Bits(1, 0, 8)>>),
        Command("a", 127250, <<Bits(1, 0, 8)>>)}
  \cup {To(dst, Body(code, pgn, <<Bits(1, 0, 8)>>)) : dst \in {"a", "all"},
         code \in {Code.Read, Code.Write, Code.Acknowledge}, pgn \in {127250}}

AllQuestions == Asked \cup Ordered

\* Some of which the node owes an answer, or that change it.
MixedQuestions ==
  {Request0("all", 60928, <<Unique(1)>>), Request0("a", 126996, <<Word(2, 1), Model(<<109>>)>>),
   Request0("all", 126998, <<Text(1, <<97>>), Text(2, <<>>)>>),
   Command("a", 60928, <<Bits(3, 5, 3), Bits(4, 7, 5), Bits(8, 3, 4)>>),
   Command("a", 126998, <<Text(2, <<99, 100>>), Text(1, <<98>>)>>)}
StackBytes == {<<>>, <<120>>}
=============================================================================
