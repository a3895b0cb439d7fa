----------------------------- MODULE MCAnonPasses ------------------------------
(***************************************************************************)
(* AnonPasses for TLC: every field at its least and greatest value, every  *)
(* special range, and prefixes of every kind.                              *)
(***************************************************************************)
EXTENDS AnonPasses

DE == 367                                    \* a country of two letters

(* Results the repository's tests expect (ipv6calc/test_scenarios.sh:384,   *)
(* ipv6logstats/test_ipv6logstats.sh:72, ipv6calc/test_scenarios.sh:212).   *)
ASSUME TestScenarios ==
  /\ OddFrame(DE * 131072 + Comp17(8767)) = <<242, 222, 34, 63>>
  /\ OddFrame(748 * 131072 + Comp17(15169)) = <<245, 216, 59, 65>>
  /\ Packed(0, DE, 8767) = <<10, 9, 0, 9, 1, 6, 15, 10, 9, 0, 9, 2, 2, 3, 15, 15>>

(* What a database can say of a host.                                       *)
Fact(country, asn, registry, id, type) ==
  [country |-> country, asn |-> asn, registry |-> registry, geoname |-> [id |-> id, type |-> type]]

Facts ==
  << Fact(DE, 3320, 3, 2921044, 1),           \* all is known
     Fact(DE, 64512, 15, 16777215, 5),
     Fact(0, 65535, 2, 1, 2),
     Fact(935, 0, 6, 0, 0),
     Fact(1022, 0, 9, 4096, 3),               \* only the registry is known,
     Fact(1022, 0, 2, 0, 0),
     Fact(1022, 0, 15, 0, 0),                 \*   or not even that
     Fact(DE, 65536, 3, 71680, 4),            \* an AS number of more than 16 bits
     Fact(DE, 262145, 6, 6144, 1),
     Fact(935, 1048576, 4, 8388608, 2),
     Fact(1022, 396982, 6, 1000, 1),
     Fact(DE, 278528, 4, 77777, 3) >>         \* 0x44000

Lisp4 == <<153, 16, 0, 1>>
Host(i) == <<8, 8, 8, i>>

MCHosts == { Host(i) : i \in DOMAIN Facts } \cup {Lisp4}
Fact4(a) == IF a = Lisp4 THEN Facts[1] ELSE Facts[a[4]]

Prefix6(i) == <<2, 0, 0, 1, 4, 8, 6, 0, 0, 0, 0, 0, 7, 7, 7, i>>
Lisp6 == <<2, 6, 1, 0, 0, 0, 13, 0, 1, 1, 1, 1, 0, 0, 0, 1>>
SixBone6 == <<3, 15, 15, 14, 15, 15, 15, 15, 0, 0, 0, 0, 0, 0, 0, 1>>

MCPrefixes6 == { Prefix6(i) : i \in DOMAIN Facts } \cup {Lisp6, SixBone6}
Fact6(d) == CASE d = Lisp6 -> Facts[1] [] d = SixBone6 -> Facts[6] [] OTHER -> Facts[d[16]]

MCCountry == [a \in MCHosts |-> Fact4(a).country]
MCAsn == [a \in MCHosts |-> Fact4(a).asn]
MCRegistry == [a \in MCHosts |-> Fact4(a).registry]
MCGeoname == [a \in MCHosts |-> Fact4(a).geoname]
MCCountry6 == [d \in MCPrefixes6 |-> Fact6(d).country]
MCAsn6 == [d \in MCPrefixes6 |-> Fact6(d).asn]
MCRegistry6 == [d \in MCPrefixes6 |-> Fact6(d).registry]
MCGeoname6 == [d \in MCPrefixes6 |-> Fact6(d).geoname]

MCRegistryOfAsn == [n \in {3320, 65535, 16384} |-> IF n = 3320 THEN 3 ELSE 2]
MCRegistryOfCountry == [c \in {DE, 935} |-> IF c = DE THEN 3 ELSE 6]

(* The first and the last address of each special range, addresses of the   *)
(* anonymized range, hosts without a row.                                   *)
MCOrigins ==
  MCHosts \cup MCPrefixes6
  \cup { <<10, 1, 2, 3>>, <<100, 64, 0, 1>>, <<100, 127, 255, 255>>, <<127, 0, 0, 1>>,
         <<169, 254, 7, 7>>, <<172, 16, 0, 1>>, <<172, 31, 255, 255>>, <<192, 168, 1, 1>>,
         <<192, 0, 0, 9>>, <<192, 0, 2, 7>>, <<192, 88, 99, 1>>, <<198, 18, 0, 1>>,
         <<198, 51, 100, 7>>, <<203, 0, 113, 9>>, <<193, 105, 183, 4>>, <<91, 220, 201, 4>>,
         <<224, 0, 0, 1>>, <<239, 255, 255, 255>>, <<0, 0, 0, 0>>, <<0, 0, 0, 1>>,
         <<255, 255, 255, 255>>, <<240, 0, 0, 1>>, <<241, 0, 0, 3>>, <<255, 254, 253, 252>>,
         <<9, 9, 9, 9>> }
  \cup { <<2, 0, 0, 1, 0, 6, 7, 12, 0, 1, 9, 8, 0, 0, 0, 1>>,
         <<2, 0, 0, 1, 0, 13, 11, 8, 0, 0, 0, 0, 0, 0, 0, 1>>,
         <<2, 10, 0, 0, 0, 0, 0, 0, 0, 0, 0, 0, 0, 0, 0, 0>> }

================================================================================
