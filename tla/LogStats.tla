-------------------------------- MODULE LogStats --------------------------------
(***************************************************************************)
(* ipv6logstats: the first token of each line of a log is looked up, and   *)
(* counters are incremented: all lines, lines per family, per country, per *)
(* AS number and per registry.  The counters of a run are a bag: a counter *)
(* that is not in it is 0.  They are a parameter, as two runs are compared. *)
(*                                                                         *)
(* A token is a record of its kind and its address: the octets of an IPv4, *)
(* MAC or EUI-64 address, the digits of an IPv6 prefix.  "broken" is an IP *)
(* address in shape that cannot be parsed, "name" anything else.           *)
(***************************************************************************)
EXTENDS AnonIPv4, AnonIPv6, Bags

CONSTANTS opt_simple, feature_cc, feature_as

NoCounts == EmptyBag

(* A counter: what it counts, for which family (0 is all), and a number.    *)
Counter(what, proto, number) == [what |-> what, proto |-> proto, number |-> number]

ALL == Counter("all", 0, 0)
UNKNOWN == Counter("unknown", 0, 0)
Lines(proto) == Counter("lines", proto, 0)

ASNUM_MAX == 65536
ASNUM_AS_TRANS == 23456

(* One counter per AS number of 16 bits.                                    *)
AsnCounter(n) == IF n < ASNUM_MAX THEN n ELSE ASNUM_AS_TRANS

(* One counter per index, those that all stand for an unknown country too.  *)
CountryCounters(c, proto) ==
  { Counter("country", 0, c), Counter("country", proto, c) }

AsnCounters(n, proto) ==
  { Counter("asn", 0, AsnCounter(n)), Counter("asn", proto, AsnCounter(n)) }

Regional == 2 .. 6          \* APNIC, RIPENCC, LACNIC, AFRINIC, ARIN

(* The counters for IANA and reserved IPv4 addresses are not in the table,  *)
(* and what is not in the table is not counted.                             *)
RegistryCounters(r, proto) ==
  LET own == IF proto = 4 THEN Regional
             ELSE Regional \cup {REGISTRY_6BONE, REGISTRY_IANA, REGISTRY_RESERVED}
      lost == IF proto = 4 THEN {REGISTRY_IANA, REGISTRY_RESERVED} ELSE {}
  IN  IF r \in own THEN {Counter("registry", proto, r)}
      ELSE IF r \in lost THEN {}
      ELSE {Counter("registry", proto, REGISTRY_UNKNOWN)}

(* For IPv4 the country and the AS number are counted whether or not a      *)
(* database knows them.                                                     *)
Counted4(a) ==
  {Lines(4)} \cup RegistryCounters(RegistryOf(a), 4)
    \cup (IF opt_simple THEN {}
          ELSE CountryCounters(CountryOf(a), 4) \cup AsnCounters(AsnOf(a), 4))

Counted6(d) ==
  {Lines(6)} \cup RegistryCounters(RegistryOf6(d), 6)
    \cup (IF opt_simple \/ ~ feature_cc THEN {} ELSE CountryCounters(CountryOf6(d), 6))
    \cup (IF opt_simple \/ ~ feature_as THEN {} ELSE AsnCounters(AsnOf6(d), 6))

Counted(t) ==
  {ALL} \cup CASE t.kind = "ipv4" -> Counted4(t.addr)
               [] t.kind = "ipv6" -> Counted6(t.addr)
               [] t.kind = "broken" -> {}
               [] OTHER -> {UNKNOWN}

CountLine(counter, t) == counter (+) SetToBag(Counted(t))

(* The report has a row for each counter, those of countries and AS numbers *)
(* if they are above 0 and a database has them.  A country is told by its   *)
(* label, so that the rows of several indexes can read alike: the report is *)
(* a bag of rows (those of counters that are 0 left out).                   *)
Report(counter) ==
  LET printed == { c \in DOMAIN counter : /\ c.what = "country" => feature_cc
                                          /\ c.what = "asn" => feature_as }
      Row(c) == [ what |-> c.what, proto |-> c.proto, count |-> counter[c],
                  label |-> IF c.what = "country" THEN CountryLabel(c.number) ELSE c.number ]
  IN  BagOfAll(Row, SetToBag(printed))

================================================================================
