-------------------------------- MODULE AnonIPv6 --------------------------------
(***************************************************************************)
(* The prefix of a global IPv6 address under the "keep type" methods.  The *)
(* 64 bits are replaced by                                                 *)
(*                                                                         *)
(*    a909 : 00cc cccc cccc aaaa : aaaa ... aaaa CCCC      kp              *)
(*    a909 : 01rr rrrr ssss gggg : gggg ... gggg CCCC      kg              *)
(*                                                                         *)
(* ten bits of country code index and an AS number, or ten bits of         *)
(* registry and source and a GeonameID, both numbers of 32 bits and xored  *)
(* with a9090000, and a checksum digit.                                    *)
(* A prefix is the tuple of its sixteen hexadecimal digits.  Prefixes with *)
(* an IPv4 address in them (6to4, Teredo), ORCHIDs, and the interface      *)
(* identifier are not part of this module.                                 *)
(***************************************************************************)
EXTENDS AddressInfo, Sequences

CONSTANTS
  Prefixes6,           \* the prefixes some database has a row for
  Country6,            \* country code index,
  Asn6,                \* AS number,
  Registry6,           \* registry number,
  Geoname6             \* GeonameID and type of place of each

Digit == 0 .. 15
Prefix == [1 .. 16 -> Digit]

--------------------------------------------------------------------------------
(* The checksum.                                                            *)

(* One digit: double modulo 17, add modulo 16.                              *)
Step(c, digit) == (((2 * c) % 17) + digit) % 16

FourDigits(c, d, i) ==
  Step(Step(Step(Step(c, d[i]), d[i + 1]), d[i + 2]), d[i + 3])

(* The sum over the first 15 digits; the code starts from 16 where a step   *)
(* doubles, and (2 * 8) % 17 is 16.                                         *)
Sum15(d) ==
  Step(Step(Step(FourDigits(FourDigits(FourDigits(8, d, 1), d, 5), d, 9), d[13]), d[14]), d[15])

(* The digit that completes the sum to 1.                                   *)
Checksum(d) == CHOOSE x \in Digit : Step(Sum15(d), x) = 1

Verified(d) == Step(Sum15(d), d[16]) = 1

--------------------------------------------------------------------------------
(* Fields.                                                                  *)

Xor(x, y) ==
  LET bit(w) == (x \div w + y \div w) % 2
  IN  8 * bit(8) + 4 * bit(4) + 2 * bit(2) + bit(1)

Token == <<10, 9, 0, 9>>
Mask32 == <<10, 9, 0, 9, 0, 0, 0, 0>>

(* The eight digits of a 32 bit number, and back.                           *)
Hex(n) ==
  << (n \div 268435456) % 16, (n \div 16777216) % 16, (n \div 1048576) % 16,
     (n \div 65536) % 16, (n \div 4096) % 16, (n \div 256) % 16, (n \div 16) % 16, n % 16 >>

Number(h) ==
  268435456 * h[1] + 16777216 * h[2] + 1048576 * h[3] + 65536 * h[4]
    + 4096 * h[5] + 256 * h[6] + 16 * h[7] + h[8]

Flags(d) == d[5] \div 4
Index(d) == (d[5] % 4) * 256 + d[6] * 16 + d[7]
Number32(d) == Number([i \in 1 .. 8 |-> Xor(d[7 + i], Mask32[i])])

Body(flags, index, n) ==
  LET h == Hex(n)
      masked(i) == Xor(h[i], Mask32[i])
  IN  << 10, 9, 0, 9, 4 * flags + ((index \div 256) % 4), (index \div 16) % 16, index % 16,
         masked(1), masked(2), masked(3), masked(4), masked(5), masked(6), masked(7), masked(8) >>

Packed(flags, index, n) ==
  LET d == Body(flags, index, n)
  IN  [i \in 1 .. 16 |-> IF i <= 15 THEN d[i] ELSE Checksum(d)]

--------------------------------------------------------------------------------
(* The type of an address, as far as its prefix decides it.                 *)

StartsWith(d, s) == \A i \in 1 .. Len(s) : d[i] = s[i]

SixBone == <<3, 15, 15, 14>>                                  \* 3ffe::/16
Lisp == <<2, 6, 1, 0, 0, 0, 13, 0>>                           \* 2610:d0::/32
LispPetr == <<2, 0, 0, 1, 0, 6, 7, 12, 0, 1, 9, 8>>           \* 2001:67c:198::/48
LispMapResolver == <<2, 0, 0, 1, 0, 6, 7, 12, 0, 0, 2, 8>>    \* 2001:67c:28::/48
Documentation == <<2, 0, 0, 1, 0, 13, 11, 8>>                 \* 2001:db8::/32

LispAnycast(d) == StartsWith(d, LispPetr) \/ StartsWith(d, LispMapResolver)

KeepsAsnCc6(d) == StartsWith(d, Token) /\ Verified(d) /\ Flags(d) = 0
KeepsGeonameID6(d) == StartsWith(d, Token) /\ Verified(d) /\ Flags(d) = 1
Anonymized6(d) == KeepsAsnCc6(d) \/ KeepsGeonameID6(d)

Is6bone(d) ==
  \/ StartsWith(d, SixBone)
  \/ KeepsAsnCc6(d) /\ Index(d) = MAP_MIN + REGISTRY_6BONE
  \/ KeepsGeonameID6(d) /\ Index(d) % 256 = 16 * REGISTRY_6BONE

IsLisp(d) ==
  \/ StartsWith(d, Lisp) \/ LispAnycast(d)
  \/ KeepsAsnCc6(d) /\ Index(d) = COUNTRYCODE_INDEX_LISP
  \/ KeepsGeonameID6(d) /\ Index(d) % 16 = 7 /\ Number32(d) = 71680   \* 0x11800

(* Global unicast, 2000::/3 or anonymized.                                  *)
Aggregatable(d) == d[1] \in 2 .. 3 \/ Anonymized6(d)

--------------------------------------------------------------------------------
(* What the databases say.                                                  *)

DbCountry6(d) == IF d \in Prefixes6 THEN Country6[d] ELSE COUNTRYCODE_INDEX_UNKNOWN

DbAsn6(d) ==
  IF d \in Prefixes6 /\ ~ StartsWith(d, Documentation) THEN Asn6[d] ELSE ASNUM_AS_UNKNOWN

DbRegistry6(d) ==
  IF StartsWith(d, Documentation) THEN REGISTRY_RESERVED
  ELSE IF StartsWith(d, SixBone) THEN REGISTRY_6BONE
  ELSE IF d \in Prefixes6 THEN Registry6[d]
  ELSE REGISTRY_UNKNOWN

DbGeoname6(d) == IF d \in Prefixes6 THEN Geoname6[d] ELSE [id |-> 0, type |-> 0]

--------------------------------------------------------------------------------
(* Anonymization.                                                           *)

(* A faulty form: an unknown country is stored as such.                     *)
CountryOrRegistry6_unmapped(d) ==
  IF Is6bone(d) THEN MAP_MIN + REGISTRY_6BONE
  ELSE IF IsLisp(d) THEN COUNTRYCODE_INDEX_LISP
  ELSE DbCountry6(d)

CountryOrRegistry6(d) ==
  IF Is6bone(d) THEN MAP_MIN + REGISTRY_6BONE
  ELSE IF IsLisp(d) THEN COUNTRYCODE_INDEX_LISP
  ELSE IF DbCountry6(d) = COUNTRYCODE_INDEX_UNKNOWN THEN MAP_MIN + DbRegistry6(d)
  ELSE DbCountry6(d)

(* A faulty form: the checksum digit is not appended.                       *)
AsnCcPrefix_body(d) == Body(0, CountryOrRegistry6(d), DbAsn6(d))

AsnCcPrefix(d) == Packed(0, CountryOrRegistry6(d), DbAsn6(d))

GeonamePrefix(d) ==
  IF Is6bone(d) THEN Packed(1, 16 * REGISTRY_6BONE, 0)
  ELSE IF IsLisp(d) THEN Packed(1, 7 + 16 * (DbRegistry6(d) % 8), 71680)
  ELSE Packed(1, DbGeoname6(d).type + 16 * DbRegistry6(d), DbGeoname6(d).id)

Skipped(d) == Anonymized6(d) \/ LispAnycast(d) \/ StartsWith(d, Documentation)

(* The prefix part of libipv6addr_anonymize, for a global address and a     *)
(* method the databases support.                                            *)
Anonymize6(d, method) ==
  IF Skipped(d) THEN d
  ELSE IF method = "kp" THEN AsnCcPrefix(d)
  ELSE GeonamePrefix(d)

--------------------------------------------------------------------------------
(* Lookups.                                                                 *)

CountryOf6(d) ==
  IF Anonymized6(d) THEN IF IsLisp(d) THEN COUNTRYCODE_INDEX_LISP ELSE Index(d)
  ELSE IF Is6bone(d) THEN MAP_MIN + REGISTRY_6BONE
  ELSE IF IsLisp(d) THEN COUNTRYCODE_INDEX_UNKNOWN
  ELSE DbCountry6(d)

AsnOf6(d) ==
  IF Anonymized6(d) THEN Number32(d)
  ELSE IF Is6bone(d) THEN ASNUM_AS_UNKNOWN
  ELSE DbAsn6(d)

RegistryOf6(d) ==
  IF KeepsGeonameID6(d) THEN IF Index(d) < 256 THEN Index(d) \div 16 ELSE REGISTRY_UNKNOWN
  ELSE IF ~ Anonymized6(d) THEN DbRegistry6(d)
  ELSE IF CountryOf6(d) = COUNTRYCODE_INDEX_LISP THEN RegistryByAsn(AsnOf6(d))
  ELSE RegistryOfCcIndex(CountryOf6(d))

GeonameOf6(d) ==
  IF KeepsGeonameID6(d)
  THEN IF IsLisp(d) THEN [id |-> 0, type |-> 0]
       ELSE [id |-> Number32(d), type |-> Index(d) % 16]
  ELSE IF Anonymized6(d) \/ Is6bone(d) \/ IsLisp(d) THEN [id |-> 0, type |-> 0]
  ELSE DbGeoname6(d)

--------------------------------------------------------------------------------
(* Number fields have 32 bits (2^32 itself is beyond TLC's integers).       *)
Uint32(n) == n \in Nat /\ n \div 268435456 <= 15

ASSUME PrefixesAssumption == Prefixes6 \subseteq Prefix

ASSUME DatabaseAssumption6 ==
  /\ Country6 \in [Prefixes6 -> 0 .. COUNTRYCODE_INDEX_LETTER_MAX \cup {COUNTRYCODE_INDEX_UNKNOWN}]
  /\ DOMAIN Asn6 = Prefixes6 /\ \A d \in Prefixes6 : Uint32(Asn6[d])
  /\ Registry6 \in [Prefixes6 -> 0 .. 15]
  /\ DOMAIN Geoname6 = Prefixes6
  /\ \A d \in Prefixes6 : /\ Geoname6[d] \in [id : Nat, type : 0 .. 5]
                          /\ Uint32(Geoname6[d].id)
                          /\ Geoname6[d].type = 0 <=> Geoname6[d].id = 0

================================================================================
