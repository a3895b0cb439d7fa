------------------------------- MODULE MCLogPipe -------------------------------
(***************************************************************************)
(* LogPipe for TLC: logs of a few lines with addresses of every kind and a *)
(* cache that is smaller than their number.                                *)
(***************************************************************************)
EXTENDS LogPipe

DE == 367

Fact(country, asn, registry) == [country |-> country, asn |-> asn, registry |-> registry]

Known4 == <<46, 244, 223, 233>>          \* all is known
Registry4 == <<1, 2, 3, 4>>              \* only the registry is known
LongAsn4 == <<34, 64, 1, 1>>             \* an AS number of more than 16 bits
Private4 == <<10, 1, 2, 3>>
Known6 == <<2, 0, 0, 1, 0, 10, 6, 0, 9, 0, 0, 2, 0, 0, 0, 1>>
Unknown6 == <<2, 10, 0, 0, 0, 0, 0, 0, 0, 0, 0, 0, 0, 0, 0, 1>>   \* nothing is known
SixBone6 == <<3, 15, 15, 14, 15, 15, 15, 15, 0, 0, 0, 0, 0, 0, 0, 1>>

MCFact(a) ==
  CASE a = Registry4 -> Fact(1022, 0, 2)
    [] a = LongAsn4 -> Fact(748, 396982, 6)
    [] a = SixBone6 -> Fact(1022, 0, 8)
    [] OTHER -> Fact(DE, 8767, 3)

MCHosts == {Known4, Registry4, LongAsn4}
MCPrefixes6 == {Known6, SixBone6}

MCCountry == [a \in MCHosts |-> MCFact(a).country]
MCAsn == [a \in MCHosts |-> MCFact(a).asn]
MCRegistry == [a \in MCHosts |-> MCFact(a).registry]
MCGeoname == [a \in MCHosts |-> [id |-> 0, type |-> 0]]
MCCountry6 == [d \in MCPrefixes6 |-> MCFact(d).country]
MCAsn6 == [d \in MCPrefixes6 |-> MCFact(d).asn]
MCRegistry6 == [d \in MCPrefixes6 |-> MCFact(d).registry]
MCGeoname6 == [d \in MCPrefixes6 |-> [id |-> 0, type |-> 0]]

MCRegistryOfAsn == [n \in {8767} |-> 3]
MCRegistryOfCountry == [c \in {DE, 748} |-> IF c = DE THEN 3 ELSE 6]

FirstToken(kind, addr) == [kind |-> kind, addr |-> addr]

MCTokens ==
  { FirstToken("ipv4", a) : a \in MCHosts \cup {Private4} }
  \cup { FirstToken("ipv6", d) : d \in MCPrefixes6 \cup {Unknown6} }
  \cup { FirstToken("eui64", <<0, 17, 34, 51, 68, 85, 102, 119>>),
         FirstToken("mac", <<0, 17, 34, 51, 68, 85>>),
         FirstToken("name", <<>>),
         FirstToken("broken", <<>>) }

MCKind == [t \in MCTokens |-> KindOf(t)]
MCAnonymous == [t \in MCTokens |-> Rendered(t)]
MCTexts == { Rendered(t) : t \in MCTokens } \cup {FirstToken("eui64", <<1, 1, 1, 1, 1, 0, 0, 0>>)}
MCLeftover == {None, FirstToken("eui64", <<1, 1, 1, 1, 1, 0, 0, 0>>)}
MCNoLeftover == {None}
MCNone == FirstToken("none", <<>>)

(* An unknown country, and where it goes.  The raw log of two such addresses *)
(* has one row "unknown" of two lines; of the anonymized log one address is *)
(* counted under its registry, and there are two rows "unknown" of one line. *)
UnknownRow(count) ==
  [what |-> "country", proto |-> 0, label |-> COUNTRYCODE_INDEX_UNKNOWN, count |-> count]

ReportOf(t, u) == Report(CountLine(CountLine(NoCounts, t), u))

ASSUME UnknownIsDivided ==
  LET t == FirstToken("ipv4", Registry4)
      u == FirstToken("ipv4", Private4)
      before == ReportOf(t, u)
      after == ReportOf(Rendered(t), Rendered(u))
  IN  /\ CopiesIn(UnknownRow(2), before) = 1 /\ CopiesIn(UnknownRow(1), before) = 0
      /\ CopiesIn(UnknownRow(2), after) = 0 /\ CopiesIn(UnknownRow(1), after) = 2

================================================================================
