-------------------------------- MODULE AnonIPv4 --------------------------------
(***************************************************************************)
(* The type of an IPv4 address, its anonymization, and what the rest of    *)
(* the program can still learn from an anonymized address.  The "keep      *)
(* type" methods write the country and the AS number (kp) or the GeonameID *)
(* (kg) of the address into the experimental range 240.0.0.0/4:            *)
(*                                                                         *)
(*    1111 P cccccccccc aaaaaaaaaaaaaaaaa     kp, P makes the parity odd   *)
(*    1111 P sss gggggggggggggggggggggggg     kg, P makes the parity even  *)
(*                                                                         *)
(* Bit masks of the code are written with \div and %, the bitwise or of    *)
(* fields that do not overlap as a sum.                                    *)
(***************************************************************************)
EXTENDS AddressInfo, Sequences

CONSTANTS
  Hosts,              \* the IPv4 addresses some database has a row for
  Country,            \* country code index of each,
  Asn,                \* its AS number,
  Registry,           \* its registry number,
  Geoname             \* its GeonameID with the type of place

--------------------------------------------------------------------------------
(* Addresses and their fields.                                              *)

Octet == 0 .. 255
IPv4 == [1 .. 4 -> Octet]

Nibble(a) == a[1] \div 16
ParityBit(a) == (a[1] \div 8) % 2
Payload(a) == (a[1] % 8) * 16777216 + a[2] * 65536 + a[3] * 256 + a[4]

(* The address with the prefix 1111, a parity bit and a 27 bit payload.     *)
Framed(parity, payload) ==
  << 240 + 8 * parity + payload \div 16777216, (payload \div 65536) % 256,
     (payload \div 256) % 256, payload % 256 >>

(* How many of the 27 bits of a payload are set, four at a time.            *)
Ones(n) == (n % 2) + ((n \div 2) % 2) + ((n \div 4) % 2) + ((n \div 8) % 2)

BitCount(p) ==
  Ones(p % 16) + Ones((p \div 16) % 16) + Ones((p \div 256) % 16)
    + Ones((p \div 4096) % 16) + Ones((p \div 65536) % 16)
    + Ones((p \div 1048576) % 16) + Ones(p \div 16777216)

--------------------------------------------------------------------------------
(* Detection of anonymized addresses.                                       *)

CountryField(p) == p \div 131072
AsnField(p) == p % 131072
TypeField(p) == p \div 16777216
GeonameField(p) == p % 16777216

(* (ipv4 & 0x11fff) == 0x11800                                              *)
LispMark(p) == (p \div 65536) % 2 = 1 /\ p % 8192 = 6144

OddParity(a) == (BitCount(Payload(a)) + ParityBit(a)) % 2 = 1

(* A faulty form: letters only.                                             *)
ValidCountry_letters(c) == c <= COUNTRYCODE_INDEX_LETTER_MAX

ValidCountry(c) == c <= COUNTRYCODE_INDEX_LETTER_MAX \/ c \in MAP_MIN .. COUNTRYCODE_INDEX_UNKNOWN

KeepsAsnCc(a) ==
  Nibble(a) = 15 /\ OddParity(a) /\ ValidCountry(CountryField(Payload(a)))

KeepsGeonameID(a) ==
  /\ Nibble(a) = 15
  /\ ~ OddParity(a)
  /\ \/ TypeField(Payload(a)) \in 1 .. 5
     \/ TypeField(Payload(a)) = 7 /\ LispMark(Payload(a))

Global == {"unicast", "global"}

AnonymizedType(a) ==
  {"anonymized"} \cup Global
    \cup (IF KeepsGeonameID(a) THEN {"geonameid"} ELSE {})
    \cup (IF LispMark(Payload(a)) /\ (KeepsAsnCc(a) \/ TypeField(Payload(a)) = 7)
          THEN {"lisp"} ELSE {})

(* The special ranges, as the sets of values of the four octets.            *)
Net(o1, o2, o3, type) == [net |-> <<o1, o2, o3, Octet>>, type |-> type]

LocalRanges ==
  { Net({10}, Octet, Octet, {"unicast", "sitelocal"}),
    Net({127}, Octet, Octet, {"loopback"}),
    Net({169}, {254}, Octet, {"unicast", "zeroconf", "sitelocal"}),
    Net({172}, 16 .. 31, Octet, {"unicast", "sitelocal"}),
    Net({192}, {168}, Octet, {"unicast", "sitelocal"}) }

ReservedRanges ==
  { Net({100}, 64 .. 127, Octet, {"unicast", "reserved"}),
    Net({192}, {0}, {0, 2}, {"unicast", "reserved"}),
    Net({198}, {18, 19}, Octet, {"unicast", "reserved"}),
    Net({198}, {51}, {100}, {"unicast", "reserved"}),
    Net({203}, {0}, {113}, {"unicast", "reserved"}) }

AnycastRanges ==
  { Net({192}, {88}, {99}, {"anycast", "6to4relay"}),
    Net({193}, {105}, {183}, {"anycast", "global", "lisp", "petr"}),
    Net({91}, {220}, {201}, {"anycast", "global", "lisp", "map_resolver"}) }

LispRange == Net({153}, {16}, Octet, {"unicast", "global", "lisp"})
MulticastRange == Net(224 .. 239, Octet, Octet, {"multicast"})
Experimental == Net({0} \cup 240 .. 255, Octet, Octet, {"reserved"})

SpecialRanges ==
  LocalRanges \cup ReservedRanges \cup AnycastRanges \cup {LispRange, MulticastRange, Experimental}

Within(a, r) == \A i \in 1 .. 4 : a[i] \in r.net[i]

(* The ranges an address is in: none or one.                                *)
Containing(a) == { r \in SpecialRanges : Within(a, r) }

Unspecified == <<0, 0, 0, 0>>
Broadcast == <<255, 255, 255, 255>>

SpecialType(a) ==
  IF a = Unspecified THEN {"unspecified"}
  ELSE IF a = Broadcast THEN {"broadcast"}
  ELSE IF Containing(a) # {} THEN (CHOOSE r \in Containing(a) : TRUE).type
    ELSE Global

Type(a) ==
  IF KeepsAsnCc(a) \/ KeepsGeonameID(a) THEN AnonymizedType(a) ELSE SpecialType(a)

--------------------------------------------------------------------------------
(* What the databases say.  A host without a row is unknown.                *)

ReservedIPv4(a) == "global" \notin SpecialType(a)

DbCountry(a) == IF a \in Hosts THEN Country[a] ELSE COUNTRYCODE_INDEX_UNKNOWN

DbAsn(a) ==
  IF a \in Hosts /\ "reserved" \notin Type(a) THEN Asn[a] ELSE ASNUM_AS_UNKNOWN

DbRegistry(a) ==
  IF ReservedIPv4(a) THEN REGISTRY_RESERVED
  ELSE IF a \in Hosts THEN Registry[a] ELSE REGISTRY_UNKNOWN

DbGeoname(a) == IF a \in Hosts THEN Geoname[a] ELSE [id |-> 0, type |-> 0]

--------------------------------------------------------------------------------
(* An AS number in 17 bits.  Those above 65535 keep three bits meant to be  *)
(* their registry and, when they have no more, the 12 low ones.             *)

(* A faulty form: the last AS number of 16 bits is packed.                  *)
Comp17_below(n) ==
  IF n < 65535 THEN n
  ELSE 65536 + (IF n \div 1048576 = 0 THEN ((n \div 4096) % 8) * 512 ELSE 0)
             + (IF (n \div 4096) % 16 = 0 THEN n % 4096 ELSE 4096)

(* As the code does it: the mask selects bits 12 to 14 instead, so the      *)
(* registry lands in bits 9 to 11 of the result.                            *)
Comp17(n) ==
  IF n <= 65535 THEN n
  ELSE 65536 + (IF n \div 1048576 = 0 THEN ((n \div 4096) % 8) * 512 ELSE 0)
             + (IF (n \div 4096) % 16 = 0 THEN n % 4096 ELSE 4096)

Decomp17(c) ==
  IF c \div 65536 = 0 THEN c
  ELSE IF (c \div 8192) % 8 = 0 THEN ASNUM_AS_UNKNOWN
  ELSE ((c \div 8192) % 8) * 65536 + (IF (c \div 4096) % 2 = 1 THEN 0 ELSE c % 4096)

--------------------------------------------------------------------------------
(* Anonymization.                                                           *)

Methods == {"zeroize", "anonymize", "kp", "kg"}

(* The first mask bits of an address.                                       *)
PowerOf2 == <<2, 4, 8, 16, 32, 64, 128>>

Masked(a, mask) ==
  [ i \in 1 .. 4 |->
      IF 8 * i <= mask THEN a[i]
      ELSE IF 8 * (i - 1) >= mask THEN 0
      ELSE a[i] - (a[i] % PowerOf2[8 * i - mask]) ]

LispUnicast(a) == {"unicast", "lisp"} \subseteq Type(a)

(* A faulty form: the mark is left out.                                     *)
LispInfo_unmarked(a) == 65536 + (DbRegistry(a) % 8) * 8192

(* 0x11800, with the registry in bits 13 to 15.                             *)
LispInfo(a) == 71680 + (DbRegistry(a) % 8) * 8192

CountryOrRegistry(a) ==
  IF DbCountry(a) = COUNTRYCODE_INDEX_UNKNOWN THEN MAP_MIN + DbRegistry(a)
  ELSE DbCountry(a)

(* A faulty form: the field of the AS number has 16 bits.                   *)
AsnCcPayload_16bits(a) ==
  CountryOrRegistry(a) * 65536
    + (IF LispUnicast(a) THEN LispInfo(a) ELSE Comp17(DbAsn(a)))

AsnCcPayload(a) ==
  CountryOrRegistry(a) * 131072
    + (IF LispUnicast(a) THEN LispInfo(a) ELSE Comp17(DbAsn(a)))

(* A faulty form: two bits for the type.                                    *)
GeonamePayload_twoBits(a) ==
  IF LispUnicast(a) THEN 7 * 16777216 + LispInfo(a)
  ELSE (DbGeoname(a).type % 4) * 16777216 + (DbGeoname(a).id % 16777216)

GeonamePayload(a) ==
  IF LispUnicast(a) THEN 7 * 16777216 + LispInfo(a)
  ELSE (DbGeoname(a).type % 8) * 16777216 + (DbGeoname(a).id % 16777216)

OddFrame(p) == Framed((BitCount(p) + 1) % 2, p)
EvenFrame(p) == Framed(BitCount(p) % 2, p)

(* A LISP anycast range keeps its 24 bits.  (Faulty form: it does not.)     *)
KeptBits_any(a, mask) == mask
KeptBits(a, mask) == IF {"anycast", "lisp"} \subseteq Type(a) /\ mask < 24 THEN 24 ELSE mask

(* libipv4addr_anonymize with a method the databases support.               *)
Anonymize(a, method, mask) ==
  IF Type(a) \cap {"anonymized", "broadcast"} # {} THEN a
  ELSE IF method \notin {"kp", "kg"} \/ ~ Global \subseteq Type(a)
    THEN Masked(a, KeptBits(a, mask))
  ELSE IF method = "kp" THEN OddFrame(AsnCcPayload(a))
  ELSE EvenFrame(GeonamePayload(a))

--------------------------------------------------------------------------------
(* Lookups, of an address as it is and of an anonymized one.                *)

Anonymized(a) == "anonymized" \in Type(a)

CountryOf(a) ==
  IF Anonymized(a)
  THEN IF "geonameid" \in Type(a) THEN COUNTRYCODE_INDEX_UNKNOWN
       ELSE CountryField(Payload(a))
  ELSE IF "reserved" \in Type(a) \/ "global" \notin Type(a)
       THEN COUNTRYCODE_INDEX_UNKNOWN ELSE DbCountry(a)

AsnOf(a) ==
  IF ~ Anonymized(a) THEN DbAsn(a)
  ELSE IF Type(a) \cap {"lisp", "geonameid"} # {} THEN ASNUM_AS_UNKNOWN
  ELSE Decomp17(AsnField(Payload(a)))

(* A faulty form: by AS number only.                                        *)
RegistryOf_byAsn(a) ==
  IF ~ Anonymized(a) THEN DbRegistry(a)
  ELSE IF "lisp" \in Type(a) THEN (Payload(a) \div 8192) % 8
  ELSE IF "geonameid" \in Type(a) THEN REGISTRY_UNKNOWN
  ELSE RegistryByAsn(AsnOf(a))

(* By AS number, except that an ARIN one says less than the country does.   *)
RegistryOf(a) ==
  IF ~ Anonymized(a) THEN DbRegistry(a)
  ELSE IF "lisp" \in Type(a) THEN (Payload(a) \div 8192) % 8
  ELSE IF "geonameid" \in Type(a) THEN REGISTRY_UNKNOWN
  ELSE IF AsnOf(a) # ASNUM_AS_UNKNOWN /\ RegistryByAsn(AsnOf(a)) # REGISTRY_ARIN
    THEN RegistryByAsn(AsnOf(a))
  ELSE RegistryOfCcIndex(CountryOf(a))

GeonameOf(a) ==
  IF ~ Anonymized(a) THEN DbGeoname(a)
  ELSE IF "geonameid" \in Type(a) /\ "lisp" \notin Type(a)
    THEN [id |-> GeonameField(Payload(a)), type |-> TypeField(Payload(a))]
  ELSE [id |-> 0, type |-> 0]

--------------------------------------------------------------------------------
(* A database answers with the index of two letters, or that of "unknown";  *)
(* a GeonameID has 24 bits, and a type exactly if it is known.              *)
ASSUME HostsAssumption == Hosts \subseteq IPv4

ASSUME DatabaseAssumption ==
  /\ Country \in [Hosts -> 0 .. COUNTRYCODE_INDEX_LETTER_MAX \cup {COUNTRYCODE_INDEX_UNKNOWN}]
  /\ DOMAIN Asn = Hosts /\ \A a \in Hosts : Asn[a] \in Nat
  /\ Registry \in [Hosts -> 0 .. 15]
  /\ DOMAIN Geoname = Hosts
  /\ \A a \in Hosts : /\ Geoname[a] \in [id : Nat, type : 0 .. 5]
                      /\ Geoname[a].id < 16777216
                      /\ Geoname[a].type = 0 <=> Geoname[a].id = 0

================================================================================
