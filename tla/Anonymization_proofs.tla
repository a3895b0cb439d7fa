------------------------- MODULE Anonymization_proofs --------------------------
(***************************************************************************)
(* Proofs about ipv6loganon: the anonymization of addresses, for any       *)
(* contents of the databases and of the built-in tables; its cache, for    *)
(* any tokens, any limit and size; and the statistics of a log before and  *)
(* after it.                                                               *)
(***************************************************************************)
EXTENDS LogPipe, AnonPasses, RingCache_proofs, SequenceTheorems, TLAPS

--------------------------------------------------------------------------------
(* IPv4: a payload of 27 bits is read back from the address it is written   *)
(* to, and the parity bit makes the number of set bits odd or even.         *)
LEMMA FramedFields ==
  ASSUME NEW q \in 0 .. 1, NEW p \in Nat, p < 134217728
  PROVE  /\ Framed(q, p) \in IPv4
         /\ Nibble(Framed(q, p)) = 15
         /\ ParityBit(Framed(q, p)) = q
         /\ Payload(Framed(q, p)) = p
<1> DEFINE h == p \div 16777216
           m == (p \div 65536) % 256
           l == (p \div 256) % 256
           n == p % 256
<1>1. /\ h \in Nat /\ h <= 7 /\ m \in Nat /\ m <= 255
      /\ l \in Nat /\ l <= 255 /\ n \in Nat /\ n <= 255
  OBVIOUS
<1>2. p = h * 16777216 + m * 65536 + l * 256 + n
  OBVIOUS
<1>3. Framed(q, p) = <<240 + 8 * q + h, m, l, n>>
  BY DEF Framed
<1> HIDE DEF h, m, l, n
<1>4. Framed(q, p) \in IPv4
  BY <1>1, <1>3 DEF IPv4, Octet
<1>5. (240 + 8 * q + h) \div 16 = 15 /\ ((240 + 8 * q + h) \div 8) % 2 = q /\ (240 + 8 * q + h) % 8 = h
  BY <1>1
<1> QED
  BY <1>2, <1>3, <1>4, <1>5 DEF Nibble, ParityBit, Payload

LEMMA BitCountTyped ==
  ASSUME NEW p \in Nat, p < 134217728
  PROVE  BitCount(p) \in Nat
<1>1. ASSUME NEW n \in Nat PROVE Ones(n) \in Nat
  BY DEF Ones
<1> QED
  BY <1>1 DEF BitCount

LEMMA FrameFields ==
  ASSUME NEW p \in Nat, p < 134217728
  PROVE  /\ OddFrame(p) \in IPv4 /\ EvenFrame(p) \in IPv4
         /\ Nibble(OddFrame(p)) = 15 /\ Nibble(EvenFrame(p)) = 15
         /\ Payload(OddFrame(p)) = p /\ Payload(EvenFrame(p)) = p
         /\ OddParity(OddFrame(p)) /\ ~ OddParity(EvenFrame(p))
<1>1. BitCount(p) \in Nat
  BY BitCountTyped
<1> DEFINE o == (BitCount(p) + 1) % 2
           e == BitCount(p) % 2
<1>2. o \in 0 .. 1 /\ e \in 0 .. 1
  BY <1>1
<1>3. (BitCount(p) + o) % 2 = 1 /\ (BitCount(p) + e) % 2 = 0
  BY <1>1
<1>7. OddFrame(p) = Framed(o, p) /\ EvenFrame(p) = Framed(e, p)
  BY DEF OddFrame, EvenFrame
<1> HIDE DEF o, e
<1>4. /\ Framed(o, p) \in IPv4 /\ Nibble(Framed(o, p)) = 15
      /\ ParityBit(Framed(o, p)) = o /\ Payload(Framed(o, p)) = p
  BY <1>2, FramedFields
<1>5. /\ Framed(e, p) \in IPv4 /\ Nibble(Framed(e, p)) = 15
      /\ ParityBit(Framed(e, p)) = e /\ Payload(Framed(e, p)) = p
  BY <1>2, FramedFields
<1>6. OddParity(Framed(o, p)) /\ ~ OddParity(Framed(e, p))
  BY <1>3, <1>4, <1>5 DEF OddParity
<1> QED
  BY <1>4, <1>5, <1>6, <1>7

(* The packed AS number has 17 bits, and the fields do not overlap.         *)
LEMMA Comp17Range ==
  ASSUME NEW n \in Nat
  PROVE  /\ Comp17(n) \in Nat /\ Comp17(n) < 131072
         /\ n <= 65535 => Comp17(n) = n /\ Decomp17(Comp17(n)) = n
<1>1. CASE n <= 65535
  BY SMT, <1>1 DEF Comp17, Decomp17
<1>2. CASE n > 65535
  <2>1. /\ (n \div 4096) % 8 \in Nat /\ (n \div 4096) % 8 <= 7
        /\ n % 4096 \in Nat /\ n % 4096 <= 4095
    OBVIOUS
  <2> QED
    BY <1>2, <2>1 DEF Comp17
<1> QED
  BY <1>1, <1>2

LEMMA RegistryFacts ==
  ASSUME NEW a \in IPv4
  PROVE  DbRegistry(a) \in Nat /\ DbRegistry(a) <= 15
<1>1. a \in Hosts => Registry[a] \in 0 .. 15
  BY DatabaseAssumption
<1> QED
  BY <1>1 DEF DbRegistry, REGISTRY_RESERVED, REGISTRY_UNKNOWN

(* An unknown country is stored as its registry, which prints the same.     *)
LEMMA CountryFacts ==
  ASSUME NEW a \in IPv4
  PROVE  /\ CountryOrRegistry(a) \in Nat /\ CountryOrRegistry(a) <= 1021
         /\ ValidCountry(CountryOrRegistry(a))
         /\ CountryLabel(CountryOrRegistry(a)) = CountryLabel(DbCountry(a))
<1>1. DbCountry(a) \in 0 .. COUNTRYCODE_INDEX_LETTER_MAX \/ DbCountry(a) = COUNTRYCODE_INDEX_UNKNOWN
  BY DatabaseAssumption DEF DbCountry
<1>2. CASE DbCountry(a) = COUNTRYCODE_INDEX_UNKNOWN
  <2>1. CountryOrRegistry(a) = 1006 + DbRegistry(a)
    BY <1>2 DEF CountryOrRegistry, MAP_MIN
  <2>2. CountryOrRegistry(a) \in 1006 .. 1021
    BY <2>1, RegistryFacts
  <2> QED
    BY <1>2, <2>2 DEF ValidCountry, MAP_MIN, COUNTRYCODE_INDEX_UNKNOWN,
                      COUNTRYCODE_INDEX_LETTER_MAX, CountryLabel
<1>3. CASE DbCountry(a) # COUNTRYCODE_INDEX_UNKNOWN
  BY SMTT(30), <1>1, <1>3 DEF CountryOrRegistry, ValidCountry, COUNTRYCODE_INDEX_LETTER_MAX
<1> QED
  BY <1>2, <1>3

LEMMA LispInfoRange ==
  ASSUME NEW a \in IPv4
  PROVE  LispInfo(a) \in Nat /\ LispInfo(a) < 131072
<1>1. DbRegistry(a) % 8 \in Nat /\ DbRegistry(a) % 8 <= 7
  BY RegistryFacts
<1> QED
  BY <1>1 DEF LispInfo

LEMMA AsnTyped ==
  ASSUME NEW a \in IPv4
  PROVE  DbAsn(a) \in Nat
BY DatabaseAssumption DEF DbAsn, ASNUM_AS_UNKNOWN

(* The payload of kp: what is in its two fields.                            *)
LEMMA AsnCcFields ==
  ASSUME NEW a \in IPv4
  PROVE  /\ AsnCcPayload(a) \in Nat /\ AsnCcPayload(a) < 134217728
         /\ CountryField(AsnCcPayload(a)) = CountryOrRegistry(a)
         /\ AsnField(AsnCcPayload(a)) = IF LispUnicast(a) THEN LispInfo(a) ELSE Comp17(DbAsn(a))
<1> DEFINE c == CountryOrRegistry(a)
           x == IF LispUnicast(a) THEN LispInfo(a) ELSE Comp17(DbAsn(a))
<1>1. c \in Nat /\ c <= 1021
  BY CountryFacts
<1>2. x \in Nat /\ x < 131072
  BY LispInfoRange, Comp17Range, AsnTyped
<1>3. AsnCcPayload(a) = c * 131072 + x
  BY DEF AsnCcPayload
<1> HIDE DEF c, x
<1>4. c * 131072 + x < 134217728 /\ (c * 131072 + x) \div 131072 = c /\ (c * 131072 + x) % 131072 = x
  BY <1>1, <1>2
<1> QED
  BY <1>1, <1>2, <1>3, <1>4 DEF CountryField, AsnField, c, x

(* The payload of kg.                                                       *)
LEMMA GeonameFacts ==
  ASSUME NEW a \in IPv4
  PROVE  /\ DbGeoname(a) \in [id : Nat, type : Nat]
         /\ DbGeoname(a).id < 16777216 /\ DbGeoname(a).type <= 5
         /\ DbGeoname(a).type = 0 <=> DbGeoname(a).id = 0
<1>1. CASE a \in Hosts
  <2>1. /\ Geoname[a] \in [id : Nat, type : 0 .. 5] /\ Geoname[a].id < 16777216
        /\ Geoname[a].type = 0 <=> Geoname[a].id = 0
    BY <1>1, DatabaseAssumption
  <2> QED
    BY <1>1, <2>1 DEF DbGeoname
<1>2. CASE a \notin Hosts
  BY <1>2 DEF DbGeoname
<1> QED
  BY <1>1, <1>2

LEMMA GeonameFields ==
  ASSUME NEW a \in IPv4
  PROVE  LET p == GeonamePayload(a)
         IN  /\ p \in Nat /\ p < 134217728
             /\ LispUnicast(a) => TypeField(p) = 7 /\ LispMark(p)
             /\ ~ LispUnicast(a) => /\ TypeField(p) = DbGeoname(a).type
                                    /\ GeonameField(p) = DbGeoname(a).id
                                    /\ DbGeoname(a).type = 0 => p = 0
<1> DEFINE p == GeonamePayload(a)
<1>1. CASE LispUnicast(a)
  <2> DEFINE r == DbRegistry(a) % 8
  <2>1. r \in Nat /\ r <= 7
    BY RegistryFacts
  <2>2. p = 7 * 16777216 + (71680 + r * 8192)
    BY <1>1 DEF GeonamePayload, LispInfo
  <2> HIDE DEF r, p
  <2>3. p \in Nat /\ p < 134217728 /\ p \div 16777216 = 7
    BY <2>1, <2>2
  <2>4. p \div 65536 = 1793 /\ p % 8192 = 6144
    BY <2>1, <2>2
  <2> QED
    BY <1>1, <2>3, <2>4 DEF TypeField, LispMark, p
<1>2. CASE ~ LispUnicast(a)
  <2> DEFINE t == DbGeoname(a).type
             g == DbGeoname(a).id
  <2>1. t \in Nat /\ t <= 5 /\ g \in Nat /\ g < 16777216 /\ (t = 0 => g = 0)
    BY GeonameFacts
  <2>2. p = (t % 8) * 16777216 + (g % 16777216)
    BY <1>2 DEF GeonamePayload
  <2> HIDE DEF t, g, p
  <2>3. t % 8 = t /\ g % 16777216 = g
    BY <2>1
  <2>4. p = t * 16777216 + g
    BY <2>2, <2>3
  <2>5. p \in Nat /\ p < 134217728 /\ p \div 16777216 = t /\ p % 16777216 = g
    BY <2>1, <2>4
  <2>6. t = 0 => p = 0
    BY <2>1, <2>4
  <2> QED
    BY <1>2, <2>5, <2>6 DEF TypeField, GeonameField, p, t, g
<1> QED
  BY <1>1, <1>2

--------------------------------------------------------------------------------
(* What a run writes, later runs leave alone.                               *)

(* The public unicast addresses of a raw log.                               *)
Public(a) == Type(a) \in {Global, Global \cup {"lisp"}}

LEMMA AnonymizePublic ==
  ASSUME NEW a \in IPv4, Public(a), NEW w
  PROVE  /\ Anonymize(a, "kp", w) = OddFrame(AsnCcPayload(a))
         /\ Anonymize(a, "kg", w) = EvenFrame(GeonamePayload(a))
BY DEF Public, Global, Anonymize

LEMMA AnonymizedStays ==
  ASSUME NEW a \in IPv4, KeepsAsnCc(a) \/ KeepsGeonameID(a), NEW m, NEW w
  PROVE  Anonymized(a) /\ Anonymize(a, m, w) = a
BY DEF Type, AnonymizedType, Anonymize, Anonymized

(* kp marks its result by the odd parity and a valid country.               *)
LEMMA OddFrameKeeps ==
  ASSUME NEW a \in IPv4
  PROVE  LET b == OddFrame(AsnCcPayload(a))
         IN  b \in IPv4 /\ KeepsAsnCc(b) /\ ~ KeepsGeonameID(b) /\ Payload(b) = AsnCcPayload(a)
BY AsnCcFields, CountryFacts, FrameFields DEF KeepsAsnCc, KeepsGeonameID

(* kg by the even one and the type of place.  An unknown place is written   *)
(* as 240.0.0.0, an address of a reserved range that no mask changes.       *)
LEMMA EvenFrameKeeps ==
  ASSUME NEW a \in IPv4
  PROVE  LET b == EvenFrame(GeonamePayload(a))
         IN  /\ b \in IPv4 /\ Payload(b) = GeonamePayload(a) /\ ~ KeepsAsnCc(b)
             /\ LispUnicast(a) \/ DbGeoname(a).type # 0 => KeepsGeonameID(b)
             /\ ~ LispUnicast(a) /\ DbGeoname(a).type = 0 => b = <<240, 0, 0, 0>>
<1> DEFINE p == GeonamePayload(a)
           b == EvenFrame(p)
<1>1. p \in Nat /\ p < 134217728
  BY GeonameFields
<1>2. b \in IPv4 /\ Nibble(b) = 15 /\ Payload(b) = p /\ ~ OddParity(b)
  BY <1>1, FrameFields
<1>3. LispUnicast(a) \/ DbGeoname(a).type # 0 => KeepsGeonameID(b)
  BY <1>2, GeonameFields, GeonameFacts DEF KeepsGeonameID
<1>4. ASSUME ~ LispUnicast(a), DbGeoname(a).type = 0
      PROVE  b = <<240, 0, 0, 0>>
  <2>1. p = 0
    BY <1>4, GeonameFields
  <2>2. BitCount(0) = 0
    BY DEF BitCount, Ones
  <2> QED
    BY <2>1, <2>2 DEF EvenFrame, Framed
<1> QED
  BY <1>2, <1>3, <1>4 DEF KeepsAsnCc

LEMMA MaskedTyped ==
  ASSUME NEW a \in IPv4, NEW w \in 4 .. 32
  PROVE  /\ Masked(a, w) \in IPv4
         /\ Masked(<<240, 0, 0, 0>>, w) = <<240, 0, 0, 0>>
<1>1. ASSUME NEW i \in 1 .. 4, ~ 8 * i <= w, ~ 8 * (i - 1) >= w
      PROVE  PowerOf2[8 * i - w] \in {2, 4, 8, 16, 32, 64, 128}
  BY <1>1 DEF PowerOf2
<1>2. ASSUME NEW x \in 0 .. 255, NEW n \in {2, 4, 8, 16, 32, 64, 128}
      PROVE  x - (x % n) \in 0 .. 255 /\ 0 - (0 % n) = 0
  OBVIOUS
<1>3. Masked(a, w) \in IPv4
  <2>1. ASSUME NEW i \in 1 .. 4
        PROVE  Masked(a, w)[i] \in 0 .. 255
    <3>1. a[i] \in 0 .. 255
      BY DEF IPv4, Octet
    <3>2. CASE 8 * i <= w \/ 8 * (i - 1) >= w
      <4>1. Masked(a, w)[i] = a[i] \/ Masked(a, w)[i] = 0
        BY <3>2, Zenon DEF Masked
      <4> QED BY <3>1, <4>1
    <3>3. CASE ~ 8 * i <= w /\ ~ 8 * (i - 1) >= w
      <4> DEFINE n == PowerOf2[8 * i - w]
      <4>1. n \in {2, 4, 8, 16, 32, 64, 128}
        BY <1>1, <3>3
      <4>2. Masked(a, w)[i] = a[i] - (a[i] % n)
        BY <3>3 DEF Masked
      <4> HIDE DEF n
      <4> QED
        BY SMTT(30), <1>2, <3>1, <4>1, <4>2
    <3> QED
      BY <3>2, <3>3
  <2>2. Masked(a, w) = [i \in 1 .. 4 |-> Masked(a, w)[i]]
    BY DEF Masked
  <2> QED
    BY <2>1, <2>2 DEF IPv4, Octet
<1>4. Masked(<<240, 0, 0, 0>>, w) = <<240, 0, 0, 0>>
  <2> DEFINE u == <<240, 0, 0, 0>>
  <2>1. ASSUME NEW i \in 1 .. 4
        PROVE  Masked(u, w)[i] = u[i]
    <3>1. CASE i = 1 /\ ~ 8 <= w
      <4>1. PowerOf2[8 - w] \in {2, 4, 8, 16}
        BY <3>1 DEF PowerOf2
      <4> QED
        BY <3>1, <4>1 DEF Masked
    <3>2. CASE i = 1 /\ 8 <= w
      BY <3>2 DEF Masked
    <3>3. CASE i # 1
      <4>1. u[i] = 0
        BY <3>3
      <4> QED
        BY <1>1, <1>2, <4>1 DEF Masked
    <3> QED
      BY <3>1, <3>2, <3>3
  <2>2. Masked(u, w) = [i \in 1 .. 4 |-> u[i]]
    BY <2>1 DEF Masked
  <2> QED
    BY <2>2
<1> QED
  BY <1>3, <1>4

LEMMA UnknownType ==
  Type(<<240, 0, 0, 0>>) = {"reserved"}
<1> DEFINE b == <<240, 0, 0, 0>>
<1>1. Payload(b) = 0 /\ ParityBit(b) = 0 /\ BitCount(0) = 0
  BY DEF Payload, ParityBit, BitCount, Ones
<1>2. ~ KeepsAsnCc(b) /\ ~ KeepsGeonameID(b)
  BY <1>1 DEF KeepsAsnCc, KeepsGeonameID, OddParity, TypeField
<1>3. ASSUME NEW r \in SpecialRanges, Within(b, r)
      PROVE  r.type = {"reserved"}
  <2>1. 240 \in r.net[1]
    BY <1>3 DEF Within
  <2>2. r \notin LocalRanges
    BY <2>1 DEF LocalRanges, Net
  <2>3. r \notin ReservedRanges
    BY <2>1 DEF ReservedRanges, Net
  <2>4. r \notin AnycastRanges
    BY <2>1 DEF AnycastRanges, Net
  <2>5. r # LispRange /\ r # MulticastRange
    BY <2>1 DEF LispRange, MulticastRange, Net
  <2>6. r = Experimental
    BY <2>2, <2>3, <2>4, <2>5 DEF SpecialRanges
  <2> QED
    BY <2>6 DEF Experimental, Net
<1>4. Containing(b) # {}
  <2>1. Experimental \in SpecialRanges
    BY DEF SpecialRanges
  <2>2. Within(b, Experimental)
    BY DEF Within, Experimental, Net, Octet
  <2> QED
    BY <2>1, <2>2 DEF Containing
<1>5. (CHOOSE r \in Containing(b) : TRUE) \in Containing(b)
  BY <1>4
<1>6. (CHOOSE r \in Containing(b) : TRUE).type = {"reserved"}
  BY <1>3, <1>5, Zenon DEF Containing
<1> QED
  BY <1>2, <1>4, <1>6 DEF Type, SpecialType, Unspecified, Broadcast

LEMMA UnknownStays ==
  ASSUME NEW m \in Methods, NEW w \in 4 .. 32
  PROVE  Anonymize(<<240, 0, 0, 0>>, m, w) = <<240, 0, 0, 0>>
<1> DEFINE b == <<240, 0, 0, 0>>
<1>1. b \in IPv4
  BY DEF IPv4, Octet
<1>2. Anonymize(b, m, w) = Masked(b, w)
  BY UnknownType DEF Anonymize, KeptBits, Global
<1> QED
  BY <1>1, <1>2, MaskedTyped

--------------------------------------------------------------------------------
(* The special ranges: the first three octets decide.                       *)
Ordinary(a) == a \in IPv4 /\ a[1] \in 1 .. 239

LEMMA OrdinaryIsNotAnonymized ==
  ASSUME NEW a, Ordinary(a)
  PROVE  Type(a) = SpecialType(a) /\ a # Unspecified /\ a # Broadcast
<1>1. Nibble(a) # 15
  BY DEF Ordinary, Nibble
<1> QED
  BY <1>1 DEF Type, KeepsAsnCc, KeepsGeonameID, Ordinary, Unspecified, Broadcast

LEMMA LastOctetIsFree ==
  ASSUME NEW r \in SpecialRanges
  PROVE  r.net[4] = Octet
<1>1. r \in LocalRanges => r.net[4] = Octet
  BY DEF LocalRanges, Net
<1>2. r \in ReservedRanges => r.net[4] = Octet
  BY DEF ReservedRanges, Net
<1>3. r \in AnycastRanges => r.net[4] = Octet
  BY DEF AnycastRanges, Net
<1>4. r \in {LispRange, MulticastRange, Experimental} => r.net[4] = Octet
  BY DEF LispRange, MulticastRange, Experimental, Net
<1> QED
  BY <1>1, <1>2, <1>3, <1>4 DEF SpecialRanges

LEMMA SameNetSameType ==
  ASSUME NEW a, NEW b, Ordinary(a), Ordinary(b), \A i \in 1 .. 3 : a[i] = b[i]
  PROVE  Type(a) = Type(b)
<1>1. ASSUME NEW r \in SpecialRanges
      PROVE  Within(a, r) <=> Within(b, r)
  <2>1. a[4] \in r.net[4] /\ b[4] \in r.net[4]
    BY LastOctetIsFree DEF Ordinary, IPv4
  <2>2. ASSUME NEW x, NEW y, \A i \in 1 .. 3 : x[i] = y[i], y[4] \in r.net[4], Within(x, r)
        PROVE  Within(y, r)
    <3>1. ASSUME NEW i \in 1 .. 4
          PROVE  y[i] \in r.net[i]
      <4>1. i = 4 \/ i \in 1 .. 3
        OBVIOUS
      <4> QED
        BY <2>2, <4>1 DEF Within
    <3> QED
      BY <3>1 DEF Within
  <2> QED
    BY <2>1, <2>2
<1>2. Containing(a) = Containing(b)
  BY <1>1 DEF Containing
<1>3. SpecialType(a) = SpecialType(b)
  BY <1>2, OrdinaryIsNotAnonymized DEF SpecialType
<1> QED
  BY <1>3, OrdinaryIsNotAnonymized

(* No run replaces the address of a special range: only the public unicast  *)
(* ones are both unicast and global.                                        *)
LEMMA RangeTypes ==
  ASSUME NEW r \in SpecialRanges
  PROVE  /\ r.type \cap {"anonymized", "broadcast"} = {}
         /\ Global \subseteq r.type => r.type = Global \cup {"lisp"}
<1> DEFINE Good == /\ r.type \cap {"anonymized", "broadcast"} = {}
                   /\ Global \subseteq r.type => r.type = Global \cup {"lisp"}
<1>1. r \in LocalRanges => Good
  BY DEF LocalRanges, Net, Global
<1>2. r \in ReservedRanges => Good
  BY DEF ReservedRanges, Net, Global
<1>3. r \in AnycastRanges => Good
  BY DEF AnycastRanges, Net, Global
<1>4. r \in {LispRange, MulticastRange, Experimental} => Good
  BY DEF LispRange, MulticastRange, Experimental, Net, Global
<1> QED
  BY <1>1, <1>2, <1>3, <1>4 DEF SpecialRanges

LEMMA OrdinaryTypes ==
  ASSUME NEW a, Ordinary(a)
  PROVE  /\ Type(a) \cap {"anonymized", "broadcast"} = {}
         /\ Global \subseteq Type(a) => Public(a)
<1>1. CASE Containing(a) # {}
  <2> DEFINE r == CHOOSE x \in Containing(a) : TRUE
  <2>1. r \in SpecialRanges
    BY <1>1 DEF Containing
  <2>2. Type(a) = r.type
    BY <1>1, OrdinaryIsNotAnonymized DEF SpecialType
  <2> HIDE DEF r
  <2> QED
    BY <2>1, <2>2, RangeTypes DEF Public
<1>2. CASE Containing(a) = {}
  <2>1. Type(a) = Global
    BY <1>2, OrdinaryIsNotAnonymized DEF SpecialType
  <2> QED
    BY <2>1 DEF Public, Global
<1> QED
  BY <1>1, <1>2

(* With 24 bits or more, and in a LISP anycast range with any mask, the     *)
(* first three octets are kept.                                             *)
LEMMA SpecialPass ==
  ASSUME NEW a, Ordinary(a), ~ Public(a), NEW m, NEW w \in 4 .. 32,
         w >= 24 \/ {"anycast", "lisp"} \subseteq Type(a)
  PROVE  \A i \in 1 .. 3 : Anonymize(a, m, w)[i] = a[i]
<1>1. Anonymize(a, m, w) = Masked(a, KeptBits(a, w))
  BY OrdinaryTypes DEF Anonymize
<1>2. KeptBits(a, w) \in 24 .. 32
  BY DEF KeptBits
<1>3. ASSUME NEW i \in 1 .. 3
      PROVE  Masked(a, KeptBits(a, w))[i] = a[i]
  <2>1. i \in 1 .. 4 /\ 8 * i <= KeptBits(a, w)
    BY <1>2
  <2> QED
    BY <2>1, Zenon DEF Masked
<1> QED
  BY <1>1, <1>3

--------------------------------------------------------------------------------
(* IPv6: digits and the mask.                                               *)
LEMMA BitsOfDigit ==
  ASSUME NEW x \in 0 .. 15
  PROVE  /\ (x \div 8) % 2 \in 0 .. 1 /\ (x \div 4) % 2 \in 0 .. 1
         /\ (x \div 2) % 2 \in 0 .. 1 /\ (x \div 1) % 2 \in 0 .. 1
         /\ x = 8 * ((x \div 8) % 2) + 4 * ((x \div 4) % 2) + 2 * ((x \div 2) % 2) + ((x \div 1) % 2)
OBVIOUS

LEMMA DigitOfBits ==
  ASSUME NEW a \in 0 .. 1, NEW b \in 0 .. 1, NEW c \in 0 .. 1, NEW d \in 0 .. 1,
         NEW z, z = 8 * a + 4 * b + 2 * c + d
  PROVE  /\ z \in 0 .. 15
         /\ (z \div 8) % 2 = a /\ (z \div 4) % 2 = b /\ (z \div 2) % 2 = c /\ (z \div 1) % 2 = d
<1>1. (a = 0 \/ a = 1) /\ (b = 0 \/ b = 1) /\ (c = 0 \/ c = 1) /\ (d = 0 \/ d = 1)
  OBVIOUS
<1> QED
  BY <1>1

LEMMA XorBits ==
  ASSUME NEW x \in 0 .. 15, NEW y \in 0 .. 15
  PROVE  /\ Xor(x, y) \in 0 .. 15
         /\ \A w \in {1, 2, 4, 8} :
              (Xor(x, y) \div w) % 2 = (((x \div w) % 2) + ((y \div w) % 2)) % 2
<1> DEFINE bit(w) == (x \div w + y \div w) % 2
           z == Xor(x, y)
<1>1. bit(8) \in 0 .. 1 /\ bit(4) \in 0 .. 1 /\ bit(2) \in 0 .. 1 /\ bit(1) \in 0 .. 1
  OBVIOUS
<1>2. z = 8 * bit(8) + 4 * bit(4) + 2 * bit(2) + bit(1)
  BY DEF Xor
<1>3. \A w \in {1, 2, 4, 8} : bit(w) = (((x \div w) % 2) + ((y \div w) % 2)) % 2
  OBVIOUS
<1> HIDE DEF bit, z
<1>4. /\ z \in 0 .. 15
      /\ (z \div 8) % 2 = bit(8) /\ (z \div 4) % 2 = bit(4)
      /\ (z \div 2) % 2 = bit(2) /\ (z \div 1) % 2 = bit(1)
  BY <1>1, <1>2, DigitOfBits
<1> QED
  BY <1>3, <1>4 DEF z

LEMMA XorDigits ==
  ASSUME NEW x \in 0 .. 15, NEW y \in 0 .. 15
  PROVE  /\ Xor(x, y) \in 0 .. 15
         /\ Xor(Xor(x, y), y) = x
<1> DEFINE z == Xor(x, y)
           u == Xor(z, y)
<1>1. z \in 0 .. 15 /\ u \in 0 .. 15
  BY XorBits
<1>2. ASSUME NEW w \in {1, 2, 4, 8}
      PROVE  (u \div w) % 2 = (x \div w) % 2
  <2>1. (z \div w) % 2 = (((x \div w) % 2) + ((y \div w) % 2)) % 2
    BY XorBits, Zenon
  <2> HIDE DEF u, z
  <2>2. z \in 0 .. 15
    BY <1>1
  <2>3. (Xor(z, y) \div w) % 2 = (((z \div w) % 2) + ((y \div w) % 2)) % 2
    BY <2>2, XorBits, Zenon
  <2>4. (x \div w) % 2 \in 0 .. 1 /\ (y \div w) % 2 \in 0 .. 1
    OBVIOUS
  <2> QED
    BY <2>1, <2>3, <2>4 DEF u
<1> HIDE DEF u
<1>3. u = x
  BY <1>1, <1>2, BitsOfDigit
<1> QED
  BY <1>1, <1>3 DEF u

LEMMA HexDigits ==
  ASSUME NEW n \in Nat
  PROVE  /\ Hex(n) \in [1 .. 8 -> 0 .. 15]
         /\ n < 4294967296 => Number(Hex(n)) = n
<1>1. Hex(n) \in [1 .. 8 -> 0 .. 15]
  BY SMTT(30) DEF Hex
<1>2. ASSUME n < 4294967296
      PROVE  Number(Hex(n)) = n
  <2>1. /\ n = 16 * (n \div 16) + (n % 16)
        /\ n \div 16 = 16 * (n \div 256) + ((n \div 16) % 16)
        /\ n \div 256 = 16 * (n \div 4096) + ((n \div 256) % 16)
        /\ n \div 4096 = 16 * (n \div 65536) + ((n \div 4096) % 16)
        /\ n \div 65536 = 16 * (n \div 1048576) + ((n \div 65536) % 16)
        /\ n \div 1048576 = 16 * (n \div 16777216) + ((n \div 1048576) % 16)
        /\ n \div 16777216 = 16 * (n \div 268435456) + ((n \div 16777216) % 16)
    OBVIOUS
  <2>2. n \div 268435456 = (n \div 268435456) % 16
    BY <1>2
  <2>3. Number(Hex(n)) =
          268435456 * ((n \div 268435456) % 16) + 16777216 * ((n \div 16777216) % 16)
            + 1048576 * ((n \div 1048576) % 16) + 65536 * ((n \div 65536) % 16)
            + 4096 * ((n \div 4096) % 16) + 256 * ((n \div 256) % 16)
            + 16 * ((n \div 16) % 16) + (n % 16)
    BY DEF Number, Hex
  <2> QED
    BY <2>1, <2>2, <2>3
<1> QED
  BY <1>1, <1>2

(* The sixteen digits that are written.                                     *)
High(index) == (index \div 256) % 4
Middle(index) == (index \div 16) % 16

LEMMA BodyDigits ==
  ASSUME NEW flags \in 0 .. 1, NEW index \in Nat, NEW n \in Nat,
         NEW d, d = Body(flags, index, n)
  PROVE  d \in [1 .. 15 -> Digit]
<1> DEFINE x(i) == Xor(Hex(n)[i], Mask32[i])
<1>1. ASSUME NEW i \in 1 .. 8
      PROVE  x(i) \in 0 .. 15
  <2>1. Hex(n)[i] \in 0 .. 15
    BY HexDigits
  <2>2. Mask32[i] \in 0 .. 15
    BY DEF Mask32
  <2> QED
    BY <2>1, <2>2, XorDigits
<1>2. d = << 10, 9, 0, 9, 4 * flags + ((index \div 256) % 4), (index \div 16) % 16, index % 16,
             x(1), x(2), x(3), x(4), x(5), x(6), x(7), x(8) >>
  BY DEF Body
<1> HIDE DEF x
<1>3. /\ 4 * flags + ((index \div 256) % 4) \in 0 .. 15 /\ (index \div 16) % 16 \in 0 .. 15
      /\ index % 16 \in 0 .. 15
  OBVIOUS
<1>4. d \in [1 .. 15 -> Digit]
  BY <1>1, <1>2, <1>3 DEF Digit
<1> QED
  BY <1>4

LEMMA BodyToken ==
  ASSUME NEW flags \in 0 .. 1, NEW index \in Nat, NEW n \in Nat,
         NEW d, d = Body(flags, index, n)
  PROVE  d[1] = 10 /\ d[2] = 9 /\ d[3] = 0 /\ d[4] = 9
BY DEF Body

LEMMA BodyFlags ==
  ASSUME NEW flags \in 0 .. 1, NEW index \in Nat, NEW n \in Nat,
         NEW d, d = Body(flags, index, n)
  PROVE  d[5] = 4 * flags + High(index)
BY DEF Body, High

LEMMA BodyIndex ==
  ASSUME NEW flags \in 0 .. 1, NEW index \in Nat, NEW n \in Nat,
         NEW d, d = Body(flags, index, n)
  PROVE  d[6] = Middle(index) /\ d[7] = index % 16
BY DEF Body, Middle

LEMMA BodyNumber ==
  ASSUME NEW flags \in 0 .. 1, NEW index \in Nat, NEW n \in Nat,
         NEW i \in 1 .. 8
  PROVE  Body(flags, index, n)[7 + i] = Xor(Hex(n)[i], Mask32[i])
BY DEF Body

(* The checksum digit exists, and only the first 15 digits count for it.    *)
LEMMA StepTyped ==
  ASSUME NEW c \in Nat, NEW x \in Nat
  PROVE  Step(c, x) \in 0 .. 15 /\ Step(c, x) \in Nat
BY DEF Step

LEMMA FourDigitsTyped ==
  ASSUME NEW c \in Nat, NEW d, NEW i,
         d[i] \in Nat, d[i + 1] \in Nat, d[i + 2] \in Nat, d[i + 3] \in Nat
  PROVE  FourDigits(c, d, i) \in Nat
<1>1. Step(c, d[i]) \in Nat
  BY StepTyped
<1>2. Step(Step(c, d[i]), d[i + 1]) \in Nat
  BY <1>1, StepTyped
<1>3. Step(Step(Step(c, d[i]), d[i + 1]), d[i + 2]) \in Nat
  BY <1>2, StepTyped
<1> QED
  BY <1>3, StepTyped DEF FourDigits

LEMMA Sum15Typed ==
  ASSUME NEW d, \A i \in 1 .. 15 : d[i] \in Nat
  PROVE  Sum15(d) \in 0 .. 15
<1> DEFINE c1 == FourDigits(8, d, 1)
           c2 == FourDigits(c1, d, 5)
           c3 == FourDigits(c2, d, 9)
<1>1. c1 \in Nat
  BY FourDigitsTyped
<1> HIDE DEF c1
<1>2. c2 \in Nat
  BY <1>1, FourDigitsTyped
<1> HIDE DEF c2
<1>3. c3 \in Nat
  BY <1>2, FourDigitsTyped
<1> HIDE DEF c3
<1>4. d[13] \in Nat /\ d[14] \in Nat /\ d[15] \in Nat
  OBVIOUS
<1>5. Step(c3, d[13]) \in Nat
  BY <1>3, <1>4, StepTyped
<1>6. Step(Step(c3, d[13]), d[14]) \in Nat
  BY <1>4, <1>5, StepTyped
<1>7. Step(Step(Step(c3, d[13]), d[14]), d[15]) \in 0 .. 15
  BY <1>4, <1>6, StepTyped
<1> QED
  BY <1>7 DEF Sum15, c1, c2, c3

LEMMA ChecksumExists ==
  ASSUME NEW d, \A i \in 1 .. 15 : d[i] \in Nat
  PROVE  Checksum(d) \in Digit /\ Step(Sum15(d), Checksum(d)) = 1
<1> DEFINE t == (2 * Sum15(d)) % 17
           x == (17 - t) % 16
<1>1. t \in 0 .. 16
  BY Sum15Typed
<1>2. Step(Sum15(d), x) = (t + x) % 16
  BY DEF Step
<1> HIDE DEF t
<1>3. x \in 0 .. 15 /\ (t + x) % 16 = 1
  BY <1>1
<1>4. x \in Digit /\ Step(Sum15(d), x) = 1
  BY <1>2, <1>3 DEF Digit
<1> HIDE DEF x
<1> QED
  BY <1>4 DEF Checksum

LEMMA SumOfFirst15 ==
  ASSUME NEW b, NEW d, \A i \in 1 .. 15 : b[i] = d[i]
  PROVE  Sum15(b) = Sum15(d)
<1>1. /\ b[1] = d[1] /\ b[2] = d[2] /\ b[3] = d[3] /\ b[4] = d[4] /\ b[5] = d[5]
      /\ b[6] = d[6] /\ b[7] = d[7] /\ b[8] = d[8] /\ b[9] = d[9] /\ b[10] = d[10]
      /\ b[11] = d[11] /\ b[12] = d[12] /\ b[13] = d[13] /\ b[14] = d[14] /\ b[15] = d[15]
  OBVIOUS
<1> QED
  BY <1>1 DEF Sum15, FourDigits

(* What a prefix that was written says.                                     *)
LEMMA PackedFields ==
  ASSUME NEW flags \in 0 .. 1, NEW index \in Nat, index <= 1023, NEW n \in Nat,
         NEW b, b = Packed(flags, index, n)
  PROVE  /\ b \in Prefix /\ Verified(b) /\ StartsWith(b, Token)
         /\ Flags(b) = flags /\ Index(b) = index
         /\ n < 4294967296 => Number32(b) = n
<1> DEFINE d == Body(flags, index, n)
<1>1. d = Body(flags, index, n)
  OBVIOUS
<1>2. b = [i \in 1 .. 16 |-> IF i <= 15 THEN d[i] ELSE Checksum(d)]
  BY DEF Packed
<1> HIDE DEF d
<1>3. /\ d \in [1 .. 15 -> Digit]
      /\ d[1] = 10 /\ d[2] = 9 /\ d[3] = 0 /\ d[4] = 9
      /\ d[5] = 4 * flags + High(index)
      /\ d[6] = Middle(index) /\ d[7] = index % 16
      /\ \A i \in 1 .. 8 : d[7 + i] = Xor(Hex(n)[i], Mask32[i])
  <2>1. d \in [1 .. 15 -> Digit]
    BY ZenonT(30), <1>1, BodyDigits
  <2>2. d[1] = 10 /\ d[2] = 9 /\ d[3] = 0 /\ d[4] = 9
    BY <1>1, BodyToken
  <2>3. d[5] = 4 * flags + High(index)
    BY <1>1, BodyFlags
  <2>4. d[6] = Middle(index) /\ d[7] = index % 16
    BY <1>1, BodyIndex
  <2>5. ASSUME NEW i \in 1 .. 8
        PROVE  d[7 + i] = Xor(Hex(n)[i], Mask32[i])
    BY ZenonT(30), <1>1, BodyNumber
  <2> QED
    BY <2>1, <2>2, <2>3, <2>4, <2>5
<1>4. \A i \in 1 .. 15 : d[i] \in Nat /\ d[i] \in Digit
  BY <1>3 DEF Digit
<1>5. Checksum(d) \in Digit /\ Step(Sum15(d), Checksum(d)) = 1
  BY <1>4, ChecksumExists
<1>6. b \in Prefix
  BY <1>2, <1>4, <1>5 DEF Prefix
<1>7. (\A i \in 1 .. 15 : b[i] = d[i]) /\ b[16] = Checksum(d)
  BY <1>2
<1>8. Verified(b)
  <2>1. Sum15(b) = Sum15(d)
    BY <1>7, SumOfFirst15
  <2> QED
    BY <1>5, <1>7, <2>1 DEF Verified
<1>9. /\ b[1] = 10 /\ b[2] = 9 /\ b[3] = 0 /\ b[4] = 9
      /\ b[5] = 4 * flags + High(index)
      /\ b[6] = Middle(index) /\ b[7] = index % 16
  BY <1>3, <1>7
<1>10. StartsWith(b, Token)
  BY <1>9 DEF StartsWith, Token
<1>11. Flags(b) = flags /\ Index(b) = index
  <2>1. (index \div 256) % 4 \in 0 .. 3 /\ (index \div 256) % 4 = index \div 256
    OBVIOUS
  <2>2. index = 256 * (index \div 256) + 16 * ((index \div 16) % 16) + (index % 16)
    OBVIOUS
  <2>3. b[5] \div 4 = flags /\ b[5] % 4 = index \div 256
    BY <1>9, <2>1 DEF High
  <2> QED
    BY <1>9, <2>2, <2>3 DEF Flags, Index, Middle
<1>12. ASSUME n < 4294967296
       PROVE  Number32(b) = n
  <2>1. Hex(n) \in [1 .. 8 -> 0 .. 15] /\ Number(Hex(n)) = n
    BY <1>12, HexDigits
  <2>2. ASSUME NEW i \in 1 .. 8
        PROVE  Xor(b[7 + i], Mask32[i]) = Hex(n)[i]
    <3>1. b[7 + i] = Xor(Hex(n)[i], Mask32[i])
      BY <1>3, <1>7
    <3>2. Hex(n)[i] \in 0 .. 15 /\ Mask32[i] \in 0 .. 15
      BY <2>1 DEF Mask32
    <3> QED
      BY <3>1, <3>2, XorDigits, SMTT(30)
  <2>3. [i \in 1 .. 8 |-> Xor(b[7 + i], Mask32[i])] = Hex(n)
    BY <2>1, <2>2
  <2> QED
    BY <2>1, <2>3 DEF Number32
<1> QED
  BY <1>6, <1>8, <1>10, <1>11, <1>12

--------------------------------------------------------------------------------
(* IPv6: what a run writes, later runs leave alone.                         *)
LEMMA Registry6Facts ==
  ASSUME NEW d \in Prefix
  PROVE  DbRegistry6(d) \in Nat /\ DbRegistry6(d) <= 15
<1>1. d \in Prefixes6 => Registry6[d] \in 0 .. 15
  BY DatabaseAssumption6
<1> QED
  BY <1>1 DEF DbRegistry6, REGISTRY_RESERVED, REGISTRY_6BONE, REGISTRY_UNKNOWN

LEMMA Uint32Bound ==
  ASSUME NEW n, Uint32(n)
  PROVE  n \in Nat /\ n < 4294967296
BY DEF Uint32

LEMMA Asn6Facts ==
  ASSUME NEW d \in Prefix
  PROVE  DbAsn6(d) \in Nat /\ DbAsn6(d) < 4294967296
<1>1. d \in Prefixes6 => Uint32(Asn6[d])
  BY DatabaseAssumption6
<1>2. d \in Prefixes6 => Asn6[d] \in Nat /\ Asn6[d] < 4294967296
  BY <1>1, Uint32Bound
<1> QED
  BY <1>2 DEF DbAsn6, ASNUM_AS_UNKNOWN

LEMMA Geoname6Facts ==
  ASSUME NEW d \in Prefix
  PROVE  /\ DbGeoname6(d).id \in Nat /\ DbGeoname6(d).id < 4294967296
         /\ DbGeoname6(d).type \in Nat /\ DbGeoname6(d).type <= 5
         /\ DbGeoname6(d) = [id |-> DbGeoname6(d).id, type |-> DbGeoname6(d).type]
<1>1. CASE d \in Prefixes6
  <2>1. Geoname6[d] \in [id : Nat, type : 0 .. 5] /\ Uint32(Geoname6[d].id)
    BY <1>1, DatabaseAssumption6
  <2> QED
    BY <1>1, <2>1, Uint32Bound DEF DbGeoname6
<1>2. CASE d \notin Prefixes6
  BY <1>2 DEF DbGeoname6
<1> QED
  BY <1>1, <1>2

(* What stands for the country prints as the country does.                  *)
LEMMA Country6Facts ==
  ASSUME NEW d \in Prefix
  PROVE  /\ CountryOrRegistry6(d) \in Nat /\ CountryOrRegistry6(d) <= 1021
         /\ ~ Anonymized6(d) /\ ~ IsLisp(d)
              => CountryLabel(CountryOrRegistry6(d)) = CountryLabel(CountryOf6(d))
<1>1. DbCountry6(d) \in 0 .. 935 \/ DbCountry6(d) = 1022
  BY DatabaseAssumption6
     DEF DbCountry6, COUNTRYCODE_INDEX_LETTER_MAX, COUNTRYCODE_INDEX_UNKNOWN
<1>2. CASE Is6bone(d)
  BY <1>2 DEF CountryOrRegistry6, CountryOf6, MAP_MIN, REGISTRY_6BONE
<1>3. CASE ~ Is6bone(d) /\ IsLisp(d)
  BY <1>3 DEF CountryOrRegistry6, COUNTRYCODE_INDEX_LISP
<1>4. CASE ~ Is6bone(d) /\ ~ IsLisp(d) /\ DbCountry6(d) = 1022
  <2>1. CountryOrRegistry6(d) = 1006 + DbRegistry6(d)
    BY <1>4 DEF CountryOrRegistry6, MAP_MIN, COUNTRYCODE_INDEX_UNKNOWN
  <2>2. CountryOrRegistry6(d) \in 1006 .. 1021
    BY <2>1, Registry6Facts
  <2>3. ~ Anonymized6(d) => CountryOf6(d) = 1022
    BY <1>4 DEF CountryOf6
  <2> QED
    BY <1>4, <2>2, <2>3 DEF CountryLabel, COUNTRYCODE_INDEX_LETTER_MAX
<1>5. CASE ~ Is6bone(d) /\ ~ IsLisp(d) /\ DbCountry6(d) # 1022
  BY <1>1, <1>5 DEF CountryOrRegistry6, CountryOf6, COUNTRYCODE_INDEX_UNKNOWN
<1> QED
  BY <1>2, <1>3, <1>4, <1>5

LEMMA AsnCcPrefixFields ==
  ASSUME NEW d \in Prefix, NEW b, b = AsnCcPrefix(d)
  PROVE  /\ b \in Prefix /\ KeepsAsnCc6(b) /\ ~ KeepsGeonameID6(b)
         /\ Index(b) = CountryOrRegistry6(d) /\ Number32(b) = DbAsn6(d)
<1> DEFINE c == CountryOrRegistry6(d)
           n == DbAsn6(d)
<1>1. b = Packed(0, c, n)
  BY DEF AsnCcPrefix
<1>2. c \in Nat /\ c <= 1021 /\ n \in Nat /\ n < 4294967296
  BY Country6Facts, Asn6Facts
<1> HIDE DEF c, n
<1>3. 0 \in 0 .. 1 /\ c <= 1023
  BY <1>2
<1>4. /\ b \in Prefix /\ Verified(b) /\ StartsWith(b, Token)
      /\ Flags(b) = 0 /\ Index(b) = c
      /\ n < 4294967296 => Number32(b) = n
  BY <1>1, <1>2, <1>3, PackedFields
<1> QED
  BY <1>2, <1>4 DEF KeepsAsnCc6, KeepsGeonameID6, c, n

LEMMA GeonamePrefixFields ==
  ASSUME NEW d \in Prefix, NEW b, b = GeonamePrefix(d)
  PROVE  /\ b \in Prefix /\ KeepsGeonameID6(b) /\ ~ KeepsAsnCc6(b)
         /\ Is6bone(d) => Index(b) % 16 = 0
         /\ ~ Is6bone(d) /\ IsLisp(d) => Index(b) % 16 = 7 /\ Number32(b) = 71680
         /\ ~ Is6bone(d) /\ ~ IsLisp(d)
              => Index(b) % 16 = DbGeoname6(d).type /\ Number32(b) = DbGeoname6(d).id
<1> DEFINE r == DbRegistry6(d)
           t == DbGeoname6(d).type
           g == DbGeoname6(d).id
<1>1. r \in Nat /\ r <= 15 /\ t \in Nat /\ t <= 5 /\ g \in Nat /\ g < 4294967296
  BY Registry6Facts, Geoname6Facts
<1>2. /\ Is6bone(d) => b = Packed(1, 128, 0)
      /\ ~ Is6bone(d) /\ IsLisp(d) => b = Packed(1, 7 + 16 * (r % 8), 71680)
      /\ ~ Is6bone(d) /\ ~ IsLisp(d) => b = Packed(1, t + 16 * r, g)
  BY DEF GeonamePrefix, REGISTRY_6BONE
<1> HIDE DEF r, t, g
<1>3. ASSUME NEW x \in Nat, x <= 1023, NEW n \in Nat, n < 4294967296, b = Packed(1, x, n)
      PROVE  /\ b \in Prefix /\ KeepsGeonameID6(b) /\ ~ KeepsAsnCc6(b)
             /\ Index(b) = x /\ Number32(b) = n
  <2>1. 1 \in 0 .. 1
    OBVIOUS
  <2>2. /\ b \in Prefix /\ Verified(b) /\ StartsWith(b, Token)
        /\ Flags(b) = 1 /\ Index(b) = x
        /\ n < 4294967296 => Number32(b) = n
    BY <1>3, <2>1, PackedFields
  <2> QED
    BY <1>3, <2>2 DEF KeepsAsnCc6, KeepsGeonameID6
<1>4. CASE Is6bone(d)
  BY <1>2, <1>3, <1>4
<1>5. CASE ~ Is6bone(d) /\ IsLisp(d)
  <2>1. /\ 7 + 16 * (r % 8) \in Nat /\ 7 + 16 * (r % 8) <= 1023
        /\ (7 + 16 * (r % 8)) % 16 = 7
    BY <1>1
  <2> QED
    BY <1>2, <1>3, <1>5, <2>1
<1>6. CASE ~ Is6bone(d) /\ ~ IsLisp(d)
  <2>1. t + 16 * r \in Nat /\ t + 16 * r <= 1023 /\ (t + 16 * r) % 16 = t
    BY <1>1
  <2>2. /\ b \in Prefix /\ KeepsGeonameID6(b) /\ ~ KeepsAsnCc6(b)
        /\ Index(b) = t + 16 * r /\ Number32(b) = g
    BY <1>1, <1>2, <1>3, <1>6, <2>1
  <2> QED
    BY <1>6, <2>1, <2>2 DEF t, g
<1> QED
  BY <1>4, <1>5, <1>6

--------------------------------------------------------------------------------
(* The runs.                                                                *)

(* What the first run writes for the origin.                                *)
Written(m) ==
  IF Is4 THEN IF m = "kp" THEN OddFrame(AsnCcPayload(origin))
              ELSE EvenFrame(GeonamePayload(origin))
  ELSE IF m = "kp" THEN AsnCcPrefix(origin)
  ELSE GeonamePrefix(origin)

(* The origin is in a special range that the masks so far do not leave.     *)
Special ==
  /\ Is4 /\ origin[1] \in 1 .. 239 /\ ~ Public(origin)
  /\ mask >= 24 \/ {"anycast", "lisp"} \subseteq Type(origin)

(* The inductive invariant: a public address that was first anonymized with *)
(* kp or kg is what that run has written, whatever ran since; one of a      *)
(* special range has kept the octets that decide its range.                 *)
PassInv ==
  /\ PassTypeOK
  /\ method = "none" => addr = origin
  /\ \A m \in {"kp", "kg"} : Kept(m) => addr = Written(m)
  /\ Special => \A i \in 1 .. 3 : addr[i] = origin[i]

LEMMA FunctionIsSeq ==
  ASSUME NEW S, NEW n \in Nat, NEW f \in [1 .. n -> S]
  PROVE  Len(f) = n
<1>1. f \in Seq(S)
  BY SeqDef
<1> QED
  BY <1>1, LenProperties

LEMMA Families ==
  ASSUME NEW a
  PROVE  /\ a \in IPv4 => Family(a) = "ipv4"
         /\ a \in Prefix => Family(a) = "ipv6"
<1>1. a \in IPv4 => Len(a) = 4
  BY FunctionIsSeq DEF IPv4
<1>2. a \in Prefix => Len(a) = 16
  BY FunctionIsSeq DEF Prefix
<1> QED
  BY <1>1, <1>2 DEF Family

LEMMA AnonymizeTyped ==
  ASSUME NEW a \in IPv4, NEW m \in Methods, NEW w \in 4 .. 32
  PROVE  Anonymize(a, m, w) \in IPv4
<1>1. KeptBits(a, w) \in 4 .. 32
  BY DEF KeptBits
<1>2. Masked(a, KeptBits(a, w)) \in IPv4
  BY <1>1, MaskedTyped
<1>3. OddFrame(AsnCcPayload(a)) \in IPv4
  BY OddFrameKeeps
<1>4. EvenFrame(GeonamePayload(a)) \in IPv4
  BY EvenFrameKeeps
<1> QED
  BY <1>2, <1>3, <1>4 DEF Anonymize

LEMMA Anonymize6Typed ==
  ASSUME NEW d \in Prefix, NEW m
  PROVE  Anonymize6(d, m) \in Prefix
BY AsnCcPrefixFields, GeonamePrefixFields DEF Anonymize6

(* Nothing is left to do on what was written.                               *)
LEMMA WrittenStays ==
  ASSUME PassTypeOK, NEW k \in {"kp", "kg"}, NEW m \in Methods, NEW w \in Masks
  PROVE  /\ Is4 /\ addr = Written(k) => Anonymize(addr, m, w) = addr
         /\ ~ Is4 /\ addr = Written(k) => Anonymize6(addr, m) = addr
<1>1. (Is4 => origin \in IPv4) /\ (~ Is4 => origin \in Prefix)
  BY OriginsAssumption, Families DEF PassTypeOK, Is4
<1>2. w \in 4 .. 32
  BY MasksAssumption
<1>3. ASSUME Is4, addr = Written(k)
      PROVE  Anonymize(addr, m, w) = addr
  <2>1. addr \in IPv4
    BY <1>3 DEF PassTypeOK
  <2>2. CASE k = "kp"
    <3>1. KeepsAsnCc(addr)
      BY <1>1, <1>3, <2>2, OddFrameKeeps DEF Written
    <3> QED
      BY <2>1, <3>1, AnonymizedStays
  <2>3. CASE k = "kg"
    <3>1. KeepsGeonameID(addr) \/ addr = <<240, 0, 0, 0>>
      BY <1>1, <1>3, <2>3, EvenFrameKeeps DEF Written
    <3>2. KeepsGeonameID(addr) => Anonymize(addr, m, w) = addr
      BY <2>1, AnonymizedStays
    <3>3. addr = <<240, 0, 0, 0>> => Anonymize(addr, m, w) = addr
      BY <1>2, UnknownStays
    <3> QED
      BY <3>1, <3>2, <3>3
  <2> QED
    BY <2>2, <2>3
<1>4. ASSUME ~ Is4, addr = Written(k)
      PROVE  Anonymize6(addr, m) = addr
  <2>1. Anonymized6(addr)
    BY <1>1, <1>4, AsnCcPrefixFields, GeonamePrefixFields DEF Written, Anonymized6
  <2> QED
    BY <2>1 DEF Anonymize6, Skipped
<1> QED
  BY <1>3, <1>4

LEMMA PassInvInit ==
  PassInit => PassInv
<1> SUFFICES ASSUME PassInit PROVE PassInv
  OBVIOUS
<1>1. addr \in IF Is4 THEN IPv4 ELSE Prefix
  BY OriginsAssumption, Families DEF PassInit, Is4
<1>2. PassTypeOK
  BY <1>1, MaxPassesAssumption DEF PassInit, PassTypeOK
<1> QED
  BY <1>2 DEF PassInit, PassInv, Kept, Special

LEMMA PassInvPass ==
  ASSUME PassInv, NEW m \in Methods, NEW w \in Masks, Pass(m, w)
  PROVE  PassInv'
<1>1. PassTypeOK /\ origin' = origin /\ (Is4' <=> Is4)
  BY DEF PassInv, Pass, Is4
<1>2. w \in 4 .. 32
  BY MasksAssumption
<1>3. /\ Is4 => addr \in IPv4 /\ addr' = Anonymize(addr, m, w)
      /\ ~ Is4 => addr \in Prefix /\ addr' = Anonymize6(addr, m)
  BY <1>1, Families DEF PassTypeOK, Pass
<1>4. addr' \in IF Is4 THEN IPv4 ELSE Prefix
  BY <1>2, <1>3, AnonymizeTyped, Anonymize6Typed
<1>5. PassTypeOK'
  BY <1>1, <1>4, MaxPassesAssumption DEF PassTypeOK, Pass
<1>6. method' # "none"
  BY DEF Pass, Methods
<1>7. ASSUME NEW k \in {"kp", "kg"}, Kept(k)'
      PROVE  addr' = Written(k)'
  <2>1. Written(k)' = Written(k)
    BY <1>1 DEF Written
  <2>2. CASE method = "none"
    <3>1. k = m /\ addr = origin
      BY <1>7, <2>2 DEF PassInv, Pass, Kept
    <3>2. CASE Is4
      <4>1. Public(origin)
        BY <1>1, <1>7, <3>2 DEF Kept, Public
      <4> QED
        BY <1>3, <2>1, <3>1, <3>2, <4>1, AnonymizePublic DEF Written
    <3>3. CASE ~ Is4
      <4>1. ~ Skipped(origin)
        BY <1>1, <1>7, <3>3 DEF Kept
      <4> QED
        BY <1>3, <2>1, <3>1, <3>3, <4>1 DEF Written, Anonymize6
    <3> QED
      BY <3>2, <3>3
  <2>3. CASE method # "none"
    <3>1. Kept(k)
      BY <1>1, <1>7, <2>3 DEF Kept, Pass
    <3>2. addr = Written(k)
      BY <3>1 DEF PassInv
    <3> QED
      BY <1>1, <1>3, <2>1, <3>2, WrittenStays
  <2> QED
    BY <2>2, <2>3
<1>8. ASSUME Special'
      PROVE  \A i \in 1 .. 3 : addr'[i] = origin'[i]
  <2>1. Special /\ (w >= 24 \/ {"anycast", "lisp"} \subseteq Type(origin))
    <3>1. mask \in 4 .. 32 /\ mask' = IF w < mask THEN w ELSE mask
      BY <1>1, MasksAssumption DEF PassTypeOK, Pass
    <3> QED
      BY <1>1, <1>2, <1>8, <3>1 DEF Special, Public
  <2>2. Is4 /\ origin \in IPv4 /\ addr \in IPv4
    BY <1>1, <2>1, OriginsAssumption, Families DEF PassTypeOK, Is4, Special
  <2>3. \A i \in 1 .. 3 : addr[i] = origin[i]
    BY <2>1 DEF PassInv
  <2>4. Ordinary(origin) /\ Ordinary(addr)
    BY <2>1, <2>2, <2>3 DEF Special, Ordinary
  <2>5. Type(addr) = Type(origin)
    BY <2>3, <2>4, SameNetSameType
  <2>6. ~ Public(addr)
    BY <2>1, <2>5 DEF Special, Public
  <2>7. \A i \in 1 .. 3 : Anonymize(addr, m, w)[i] = addr[i]
    BY <1>2, <2>1, <2>4, <2>5, <2>6, SpecialPass
  <2> QED
    BY <1>1, <1>3, <2>2, <2>3, <2>7
<1> QED
  BY <1>5, <1>6, <1>7, <1>8 DEF PassInv

(* The invariant holds after any number of runs.                            *)
THEOREM PassInvariant == PassSpec => []PassInv
<1>1. ASSUME PassInv, [PassNext]_passVars
      PROVE  PassInv'
  <2>1. CASE PassNext
    BY <1>1, <2>1, PassInvPass DEF PassNext
  <2>2. CASE UNCHANGED passVars
    BY <1>1, <2>2 DEF passVars, PassInv, PassTypeOK, Is4, Kept, Written, Special
  <2> QED
    BY <1>1, <2>1, <2>2
<1> QED
  BY <1>1, PassInvInit, PTL DEF PassSpec

(* PassTypeOK: whatever runs, an IPv4 address stays one, and so does an IPv6    *)
(* prefix; no field of the packed forms overflows into its neighbour.       *)
THEOREM PassesTypeCorrect == PassSpec => []PassTypeOK
BY PassInvariant, PTL DEF PassInv

(* Settled: a later run with any method and mask leaves alone what a run    *)
(* with kp or kg has written.                                               *)
THEOREM PassesSettle == PassSpec => Settled
<1>1. ASSUME PassInv, [PassNext]_passVars
      PROVE  [Kept("kp") \/ Kept("kg") => addr' = addr]_passVars
  <2>1. CASE PassNext
    <3>1. PICK m \in Methods, w \in Masks : Pass(m, w)
      BY <2>1 DEF PassNext
    <3>2. /\ Is4 => addr' = Anonymize(addr, m, w)
          /\ ~ Is4 => addr' = Anonymize6(addr, m)
      BY <1>1, <3>1, Families DEF PassInv, PassTypeOK, Pass
    <3>3. ASSUME NEW k \in {"kp", "kg"}, Kept(k)
          PROVE  addr' = addr
      BY <1>1, <3>2, <3>3, WrittenStays DEF PassInv
    <3> QED
      BY <3>3
  <2>2. CASE UNCHANGED passVars
    BY <2>2
  <2> QED
    BY <1>1, <2>1, <2>2
<1> QED
  BY <1>1, PassInvariant, PTL DEF PassSpec, Settled

--------------------------------------------------------------------------------
(* What the lookups find in what was written.                               *)
LEMMA Origin ==
  ASSUME PassInv
  PROVE  (Is4 => origin \in IPv4) /\ (~ Is4 => origin \in Prefix)
BY OriginsAssumption, Families DEF PassInv, PassTypeOK, Is4

LEMMA TokenIsNotLisp ==
  ASSUME NEW b, StartsWith(b, Token)
  PROVE  ~ StartsWith(b, Lisp) /\ ~ LispAnycast(b)
<1>1. b[1] = 10
  BY DEF StartsWith, Token
<1> QED
  BY <1>1 DEF StartsWith, LispAnycast, Lisp, LispPetr, LispMapResolver

LEMMA CountryLeft4 ==
  ASSUME NEW a \in IPv4, NEW b, b = OddFrame(AsnCcPayload(a))
  PROVE  CountryLabel(CountryOf(b)) = CountryLabel(DbCountry(a))
<1>1. KeepsAsnCc(b) /\ ~ KeepsGeonameID(b) /\ Payload(b) = AsnCcPayload(a)
  BY OddFrameKeeps
<1>2. CountryOf(b) = CountryField(AsnCcPayload(a))
  BY <1>1 DEF CountryOf, Anonymized, Type, AnonymizedType, Global
<1> QED
  BY <1>2, AsnCcFields, CountryFacts

LEMMA CountryLeft6 ==
  ASSUME NEW d \in Prefix, NEW b, b = AsnCcPrefix(d), ~ Anonymized6(d), ~ IsLisp(d)
  PROVE  CountryLabel(CountryOf6(b)) = CountryLabel(CountryOf6(d))
<1>1. KeepsAsnCc6(b) /\ ~ KeepsGeonameID6(b) /\ Index(b) = CountryOrRegistry6(d)
  BY AsnCcPrefixFields
<1>2. CountryOf6(b) = Index(b)
  <2>1. IsLisp(b) => Index(b) = COUNTRYCODE_INDEX_LISP
    BY <1>1, TokenIsNotLisp DEF IsLisp, KeepsAsnCc6
  <2> QED
    BY <1>1, <2>1 DEF CountryOf6, Anonymized6
<1> QED
  BY <1>1, <1>2, Country6Facts

(* CountryKept: kp keeps the country that is printed, of an address of      *)
(* either family that is not a LISP one, over any number of runs.           *)
THEOREM CountryIsKept == PassSpec => []CountryKept
<1>1. ASSUME PassInv
      PROVE  CountryKept
  <2> SUFFICES ASSUME Kept("kp"), ~ RawLisp
               PROVE  CountryLabel(LeftCountry) = CountryLabel(RawCountry)
    BY DEF CountryKept
  <2>1. addr = Written("kp")
    BY <1>1 DEF PassInv
  <2>2. CASE Is4
    BY <1>1, <2>1, <2>2, Origin, CountryLeft4 DEF Written, LeftCountry, RawCountry
  <2>3. CASE ~ Is4
    <3>1. ~ Anonymized6(origin) /\ ~ IsLisp(origin)
      BY <2>3 DEF Kept, Skipped, RawLisp
    <3> QED
      BY <1>1, <2>1, <2>3, <3>1, Origin, CountryLeft6 DEF Written, LeftCountry, RawCountry
  <2> QED
    BY <2>2, <2>3
<1> QED
  BY <1>1, PassInvariant, PTL

(* The payload of an address that is not a LISP one, with an AS number of   *)
(* 16 bits, has no LISP mark.                                               *)
LEMMA NoMark4 ==
  ASSUME NEW a \in IPv4, NEW b, b = OddFrame(AsnCcPayload(a)),
         "lisp" \notin Type(a), DbAsn(a) <= 65535
  PROVE  /\ AsnField(AsnCcPayload(a)) = DbAsn(a) /\ Decomp17(DbAsn(a)) = DbAsn(a)
         /\ Payload(b) = AsnCcPayload(a)
         /\ Type(b) = {"anonymized"} \cup Global
<1> DEFINE c == CountryOrRegistry(a)
           n == DbAsn(a)
           p == AsnCcPayload(a)
<1>1. KeepsAsnCc(b) /\ ~ KeepsGeonameID(b) /\ Payload(b) = p
  BY OddFrameKeeps
<1>2. c \in Nat /\ n \in Nat
  BY CountryFacts, AsnTyped
<1>3. Comp17(n) = n /\ Decomp17(Comp17(n)) = n
  BY <1>2, Comp17Range
<1>4. p = c * 131072 + n /\ AsnField(p) = n
  BY <1>3, AsnCcFields DEF AsnCcPayload, LispUnicast
<1> HIDE DEF c, n, p
<1>5. n <= 65535
  BY DEF n
<1>6. ~ LispMark(p)
  <2>1. (c * 131072 + n) \div 65536 = 2 * c
    BY <1>2, <1>5
  <2> QED
    BY <1>2, <1>4, <2>1 DEF LispMark
<1>7. Type(b) = {"anonymized"} \cup Global
  BY <1>1, <1>6 DEF Type, AnonymizedType
<1> QED
  BY <1>1, <1>3, <1>4, <1>7 DEF n, p

LEMMA SmallAsnLeft4 ==
  ASSUME NEW a \in IPv4, NEW b, b = OddFrame(AsnCcPayload(a)),
         "lisp" \notin Type(a), DbAsn(a) <= 65535
  PROVE  AsnOf(b) = DbAsn(a)
BY NoMark4 DEF AsnOf, Anonymized, Global

(* AsnKept: kp keeps the AS number, of IPv4 the ones of 16 bits, of IPv6    *)
(* all of 32 bits.                                                          *)
THEOREM AsnIsKept == PassSpec => []AsnKept
<1>1. ASSUME PassInv
      PROVE  AsnKept
  <2> SUFFICES ASSUME Kept("kp"), Is4 => RawAsn <= 65535 /\ ~ RawLisp
               PROVE  LeftAsn = RawAsn
    BY DEF AsnKept
  <2>1. addr = Written("kp")
    BY <1>1 DEF PassInv
  <2>2. CASE Is4
    BY <1>1, <2>1, <2>2, Origin, SmallAsnLeft4 DEF Written, LeftAsn, RawAsn, RawLisp
  <2>3. CASE ~ Is4
    <3>1. Anonymized6(addr) /\ Number32(addr) = DbAsn6(origin)
      BY <1>1, <2>1, <2>3, Origin, AsnCcPrefixFields DEF Written, Anonymized6
    <3> QED
      BY <2>3, <3>1 DEF LeftAsn, RawAsn, AsnOf6
  <2> QED
    BY <2>2, <2>3
<1> QED
  BY <1>1, PassInvariant, PTL

LEMMA GeonameLeft4 ==
  ASSUME NEW a \in IPv4, NEW b, b = EvenFrame(GeonamePayload(a)),
         "lisp" \notin Type(a), DbGeoname(a).type # 0
  PROVE  GeonameOf(b) = DbGeoname(a)
<1>1. KeepsGeonameID(b) /\ ~ KeepsAsnCc(b) /\ Payload(b) = GeonamePayload(a)
  BY EvenFrameKeeps
<1>2. /\ TypeField(GeonamePayload(a)) = DbGeoname(a).type
      /\ GeonameField(GeonamePayload(a)) = DbGeoname(a).id
  BY GeonameFields DEF LispUnicast
<1>3. DbGeoname(a).type # 7 /\ DbGeoname(a) = [id |-> DbGeoname(a).id, type |-> DbGeoname(a).type]
  BY GeonameFacts
<1>4. "anonymized" \in Type(b) /\ "geonameid" \in Type(b) /\ "lisp" \notin Type(b)
  BY <1>1, <1>2, <1>3 DEF Type, AnonymizedType, Global
<1> QED
  BY <1>1, <1>2, <1>3, <1>4 DEF GeonameOf, Anonymized

LEMMA GeonameLeft6 ==
  ASSUME NEW d \in Prefix, NEW b, b = GeonamePrefix(d), ~ Is6bone(d), ~ IsLisp(d)
  PROVE  GeonameOf6(b) = DbGeoname6(d)
<1>1. /\ KeepsGeonameID6(b) /\ ~ KeepsAsnCc6(b)
      /\ Index(b) % 16 = DbGeoname6(d).type /\ Number32(b) = DbGeoname6(d).id
  BY GeonamePrefixFields
<1>2. ~ IsLisp(b)
  BY <1>1, Geoname6Facts, TokenIsNotLisp DEF IsLisp, KeepsGeonameID6
<1> QED
  BY <1>1, <1>2, Geoname6Facts DEF GeonameOf6

(* GeonameKept: kg keeps a known GeonameID and its type, of an address of   *)
(* either family that is not a LISP one.                                    *)
THEOREM GeonameIsKept == PassSpec => []GeonameKept
<1>1. ASSUME PassInv
      PROVE  GeonameKept
  <2> SUFFICES ASSUME Kept("kg"), ~ RawLisp, RawGeoname.type # 0
               PROVE  LeftGeoname = RawGeoname
    BY DEF GeonameKept
  <2>1. addr = Written("kg")
    BY <1>1 DEF PassInv
  <2>2. CASE Is4
    BY <1>1, <2>1, <2>2, Origin, GeonameLeft4
       DEF Written, LeftGeoname, RawGeoname, RawLisp
  <2>3. CASE ~ Is4
    <3>1. ~ Anonymized6(origin) /\ ~ IsLisp(origin)
      BY <2>3 DEF Kept, Skipped, RawLisp
    <3>2. ~ Is6bone(origin) /\ RawGeoname = DbGeoname6(origin)
      BY <2>3, <3>1 DEF RawGeoname, GeonameOf6, Anonymized6
    <3> QED
      BY <1>1, <2>1, <2>3, <3>1, <3>2, Origin, GeonameLeft6 DEF Written, LeftGeoname
  <2> QED
    BY <2>2, <2>3
<1> QED
  BY <1>1, PassInvariant, PTL

(* What kp writes for an unknown country: the registry.                     *)
LEMMA RegistryLeft4 ==
  ASSUME NEW a \in IPv4, NEW b, b = OddFrame(AsnCcPayload(a)),
         "lisp" \notin Type(a), DbAsn(a) = ASNUM_AS_UNKNOWN, DbCountry(a) >= MAP_MIN
  PROVE  RegistryOf(b) = DbRegistry(a)
<1>1. DbAsn(a) = 0 /\ DbAsn(a) <= 65535
  BY DEF ASNUM_AS_UNKNOWN
<1>2. AsnOf(b) = ASNUM_AS_UNKNOWN
  BY <1>1, SmallAsnLeft4 DEF ASNUM_AS_UNKNOWN
<1>3. Payload(b) = AsnCcPayload(a) /\ Type(b) = {"anonymized"} \cup Global
  BY <1>1, NoMark4
<1>4. CountryOf(b) = CountryOrRegistry(a)
  BY <1>3, AsnCcFields DEF CountryOf, Anonymized, Global
<1>5. DbCountry(a) = COUNTRYCODE_INDEX_UNKNOWN
  <2>1. DbCountry(a) \in 0 .. 935 \/ DbCountry(a) = 1022
    BY DatabaseAssumption DEF DbCountry, COUNTRYCODE_INDEX_LETTER_MAX, COUNTRYCODE_INDEX_UNKNOWN
  <2> QED
    BY <2>1 DEF MAP_MIN, COUNTRYCODE_INDEX_UNKNOWN
<1>6. CountryOrRegistry(a) = 1006 + DbRegistry(a)
  BY <1>5 DEF CountryOrRegistry, MAP_MIN
<1>7. RegistryOfCcIndex(CountryOf(b)) = DbRegistry(a)
  BY <1>4, <1>6, RegistryFacts DEF RegistryOfCcIndex, COUNTRYCODE_INDEX_UNKNOWN, MAP_MIN, MAP_MAX
<1> QED
  BY <1>2, <1>3, <1>7 DEF RegistryOf, Anonymized, Global

(* The index of an unknown registry is the one of a LISP address; AS number *)
(* 0 has no registry either, so the lookup still ends at "unknown".         *)
LEMMA RegistryLeft6 ==
  ASSUME NEW d \in Prefix, NEW b, b = AsnCcPrefix(d), ~ Skipped(d), ~ IsLisp(d),
         DbAsn6(d) = ASNUM_AS_UNKNOWN, CountryOf6(d) >= MAP_MIN
  PROVE  RegistryOf6(b) = DbRegistry6(d)
<1>1. /\ KeepsAsnCc6(b) /\ ~ KeepsGeonameID6(b)
      /\ Index(b) = CountryOrRegistry6(d) /\ Number32(b) = 0
  BY AsnCcPrefixFields DEF ASNUM_AS_UNKNOWN
<1>2. CountryOf6(b) = Index(b)
  <2>1. IsLisp(b) => Index(b) = COUNTRYCODE_INDEX_LISP
    BY <1>1, TokenIsNotLisp DEF IsLisp, KeepsAsnCc6
  <2> QED
    BY <1>1, <2>1 DEF CountryOf6, Anonymized6
<1>3. ~ Anonymized6(d) /\ ~ StartsWith(d, Documentation)
  BY DEF Skipped
<1>4. Index(b) = 1006 + DbRegistry6(d)
  <2>1. CASE Is6bone(d)
    <3>1. StartsWith(d, SixBone)
      BY <1>3, <2>1 DEF Is6bone, Anonymized6
    <3> QED
      BY <1>1, <1>3, <2>1, <3>1 DEF CountryOrRegistry6, DbRegistry6, MAP_MIN, REGISTRY_6BONE
  <2>2. CASE ~ Is6bone(d)
    <3>1. DbCountry6(d) \in 0 .. 935 \/ DbCountry6(d) = 1022
      BY DatabaseAssumption6
         DEF DbCountry6, COUNTRYCODE_INDEX_LETTER_MAX, COUNTRYCODE_INDEX_UNKNOWN
    <3>2. CountryOf6(d) = DbCountry6(d)
      BY <1>3, <2>2 DEF CountryOf6
    <3>3. DbCountry6(d) = COUNTRYCODE_INDEX_UNKNOWN
      BY <3>1, <3>2 DEF MAP_MIN, COUNTRYCODE_INDEX_UNKNOWN
    <3> QED
      BY <1>1, <2>2, <3>3 DEF CountryOrRegistry6, MAP_MIN
  <2> QED
    BY <2>1, <2>2
<1>5. Anonymized6(b) /\ AsnOf6(b) = 0
  BY <1>1 DEF Anonymized6, AsnOf6
<1>6. DbRegistry6(d) \in 0 .. 15
  BY Registry6Facts
<1>7. CASE DbRegistry6(d) = 15
  <2>1. CountryOf6(b) = COUNTRYCODE_INDEX_LISP
    BY <1>2, <1>4, <1>7 DEF COUNTRYCODE_INDEX_LISP
  <2>2. RegistryByAsn(0) = 15
    BY TablesAssumption DEF RegistryByAsn, REGISTRY_UNKNOWN
  <2> QED
    BY <1>1, <1>5, <1>7, <2>1, <2>2 DEF RegistryOf6
<1>8. CASE DbRegistry6(d) # 15
  <2>1. CountryOf6(b) # COUNTRYCODE_INDEX_LISP
    BY <1>2, <1>4, <1>6, <1>8 DEF COUNTRYCODE_INDEX_LISP
  <2>2. RegistryOfCcIndex(CountryOf6(b)) = DbRegistry6(d)
    BY <1>2, <1>4, <1>6, <1>8 DEF RegistryOfCcIndex, COUNTRYCODE_INDEX_UNKNOWN, MAP_MIN, MAP_MAX
  <2> QED
    BY <1>1, <1>5, <2>1, <2>2 DEF RegistryOf6
<1> QED
  BY <1>7, <1>8

(* RegistryKept: an address of which the databases know no more than the    *)
(* registry keeps that under kp, in the index that stands for an unknown    *)
(* country.                                                                 *)
THEOREM RegistryIsKept == PassSpec => []RegistryKept
<1>1. ASSUME PassInv
      PROVE  RegistryKept
  <2> SUFFICES ASSUME Kept("kp"), ~ RawLisp, RawCountry >= MAP_MIN, RawAsn = ASNUM_AS_UNKNOWN
               PROVE  LeftRegistry = RawRegistry
    BY DEF RegistryKept
  <2>1. addr = Written("kp")
    BY <1>1 DEF PassInv
  <2>2. CASE Is4
    BY <1>1, <2>1, <2>2, Origin, RegistryLeft4
       DEF Written, LeftRegistry, RawRegistry, RawCountry, RawAsn, RawLisp
  <2>3. CASE ~ Is4
    <3>1. ~ Skipped(origin) /\ ~ IsLisp(origin)
      BY <2>3 DEF Kept, RawLisp
    <3> QED
      BY <1>1, <2>1, <2>3, <3>1, Origin, RegistryLeft6
         DEF Written, LeftRegistry, RawRegistry, RawCountry, RawAsn
  <2> QED
    BY <2>2, <2>3
<1> QED
  BY <1>1, PassInvariant, PTL

(* Which results are taken for a LISP address.                              *)
LEMMA LispLeft4 ==
  ASSUME NEW a \in IPv4, Public(a), DbAsn(a) <= 65535
  PROVE  /\ "lisp" \in Type(OddFrame(AsnCcPayload(a))) <=> "lisp" \in Type(a)
         /\ "lisp" \in Type(EvenFrame(GeonamePayload(a))) <=> "lisp" \in Type(a)
<1> DEFINE b == OddFrame(AsnCcPayload(a))
           g == EvenFrame(GeonamePayload(a))
<1>1. "lisp" \in Type(a) <=> LispUnicast(a)
  BY DEF Public, Global, LispUnicast
<1>2. KeepsAsnCc(b) /\ ~ KeepsGeonameID(b) /\ Payload(b) = AsnCcPayload(a)
  BY OddFrameKeeps
<1>3. ASSUME LispUnicast(a)
      PROVE  LispMark(AsnCcPayload(a))
  <2> DEFINE c == CountryOrRegistry(a)
             r == DbRegistry(a) % 8
  <2>1. c \in Nat /\ r \in Nat /\ r <= 7
    BY CountryFacts, RegistryFacts
  <2>2. AsnCcPayload(a) = c * 131072 + (71680 + r * 8192)
    BY <1>3 DEF AsnCcPayload, LispInfo
  <2> HIDE DEF c, r
  <2>3. /\ (c * 131072 + (71680 + r * 8192)) \div 65536 = 2 * c + 1
        /\ (c * 131072 + (71680 + r * 8192)) % 8192 = 6144
    BY <2>1
  <2> QED
    BY <2>1, <2>2, <2>3 DEF LispMark
<1>4. "lisp" \in Type(b) <=> "lisp" \in Type(a)
  <2>1. CASE LispUnicast(a)
    BY <1>1, <1>2, <1>3, <2>1 DEF Type, AnonymizedType
  <2>2. CASE ~ LispUnicast(a)
    BY <1>1, <2>2, NoMark4 DEF Global
  <2> QED
    BY <2>1, <2>2
<1>5. /\ Payload(g) = GeonamePayload(a) /\ ~ KeepsAsnCc(g)
      /\ LispUnicast(a) \/ DbGeoname(a).type # 0 => KeepsGeonameID(g)
      /\ ~ LispUnicast(a) /\ DbGeoname(a).type = 0 => g = <<240, 0, 0, 0>>
  BY EvenFrameKeeps
<1>6. "lisp" \in Type(g) <=> "lisp" \in Type(a)
  <2>1. CASE LispUnicast(a)
    BY <1>1, <1>5, <2>1, GeonameFields DEF Type, AnonymizedType
  <2>2. CASE ~ LispUnicast(a) /\ DbGeoname(a).type # 0
    <3>1. TypeField(Payload(g)) # 7
      BY <1>5, <2>2, GeonameFields, GeonameFacts
    <3> QED
      BY <1>1, <1>5, <2>2, <3>1 DEF Type, AnonymizedType, Global
  <2>3. CASE ~ LispUnicast(a) /\ DbGeoname(a).type = 0
    BY <1>1, <1>5, <2>3, UnknownType
  <2> QED
    BY <2>1, <2>2, <2>3
<1> QED
  BY <1>4, <1>6

LEMMA LispLeft6 ==
  ASSUME NEW d \in Prefix, ~ Skipped(d),
         CountryOf6(d) # COUNTRYCODE_INDEX_UNKNOWN \/ DbRegistry6(d) # REGISTRY_UNKNOWN \/ IsLisp(d)
  PROVE  /\ IsLisp(AsnCcPrefix(d)) <=> IsLisp(d)
         /\ IsLisp(GeonamePrefix(d)) <=> IsLisp(d)
<1> DEFINE b == AsnCcPrefix(d)
           g == GeonamePrefix(d)
<1>1. Is6bone(d) => ~ IsLisp(d)
  <2>1. Is6bone(d) => d[1] = 3
    BY DEF Skipped, Is6bone, Anonymized6, StartsWith, SixBone
  <2>2. IsLisp(d) => d[1] = 2
    BY DEF Skipped, IsLisp, Anonymized6, LispAnycast, StartsWith, Lisp, LispPetr, LispMapResolver
  <2> QED
    BY <2>1, <2>2
<1>2. KeepsAsnCc6(b) /\ ~ KeepsGeonameID6(b) /\ Index(b) = CountryOrRegistry6(d)
  BY AsnCcPrefixFields
<1>3. IsLisp(b) <=> CountryOrRegistry6(d) = 1021
  BY <1>2, TokenIsNotLisp DEF IsLisp, KeepsAsnCc6, COUNTRYCODE_INDEX_LISP
<1>4. CountryOrRegistry6(d) = 1021 <=> IsLisp(d)
  <2>1. CASE Is6bone(d)
    BY <1>1, <2>1 DEF CountryOrRegistry6, MAP_MIN, REGISTRY_6BONE
  <2>2. CASE ~ Is6bone(d) /\ IsLisp(d)
    BY <2>2 DEF CountryOrRegistry6, COUNTRYCODE_INDEX_LISP
  <2>3. CASE ~ Is6bone(d) /\ ~ IsLisp(d)
    <3>1. DbCountry6(d) \in 0 .. 935 \/ DbCountry6(d) = 1022
      BY DatabaseAssumption6
         DEF DbCountry6, COUNTRYCODE_INDEX_LETTER_MAX, COUNTRYCODE_INDEX_UNKNOWN
    <3>2. CountryOf6(d) = DbCountry6(d)
      BY <2>3 DEF CountryOf6, Skipped
    <3>3. CASE DbCountry6(d) = 1022
      <4>1. CountryOrRegistry6(d) = 1006 + DbRegistry6(d)
        BY <2>3, <3>3 DEF CountryOrRegistry6, MAP_MIN, COUNTRYCODE_INDEX_UNKNOWN
      <4>2. DbRegistry6(d) # 15
        BY <2>3, <3>2, <3>3 DEF COUNTRYCODE_INDEX_UNKNOWN, REGISTRY_UNKNOWN
      <4> QED
        BY <2>3, <4>1, <4>2, Registry6Facts
    <3>4. CASE DbCountry6(d) # 1022
      BY <2>3, <3>1, <3>4 DEF CountryOrRegistry6, COUNTRYCODE_INDEX_UNKNOWN
    <3> QED
      BY <3>3, <3>4
  <2> QED
    BY <2>1, <2>2, <2>3
<1>5. IsLisp(g) <=> Index(g) % 16 = 7 /\ Number32(g) = 71680
  <2>1. KeepsGeonameID6(g) /\ ~ KeepsAsnCc6(g)
    BY GeonamePrefixFields
  <2> QED
    BY <2>1, TokenIsNotLisp DEF IsLisp, KeepsGeonameID6
<1>6. (Index(g) % 16 = 7 /\ Number32(g) = 71680) <=> IsLisp(d)
  <2>1. CASE Is6bone(d)
    <3>1. Index(g) % 16 = 0
      BY <2>1, GeonamePrefixFields
    <3> QED
      BY <1>1, <2>1, <3>1
  <2>2. CASE ~ Is6bone(d) /\ IsLisp(d)
    BY <2>2, GeonamePrefixFields
  <2>3. CASE ~ Is6bone(d) /\ ~ IsLisp(d)
    BY <2>3, GeonamePrefixFields, Geoname6Facts
  <2> QED
    BY <2>1, <2>2, <2>3
<1> QED
  BY <1>3, <1>4, <1>5, <1>6

(* LispKept: what kp or kg writes is taken for a LISP address exactly if    *)
(* the address was one, as long as its AS number fits (IPv4) and something  *)
(* is known of it (IPv6).                                                   *)
THEOREM LispIsKept == PassSpec => []LispKept
<1>1. ASSUME PassInv
      PROVE  LispKept
  <2> SUFFICES ASSUME NEW m \in {"kp", "kg"}, Kept(m), Is4 => RawAsn <= 65535,
                      ~ Is4 => \/ RawCountry # COUNTRYCODE_INDEX_UNKNOWN
                               \/ RawRegistry # REGISTRY_UNKNOWN
               PROVE  LeftLisp <=> RawLisp
    BY DEF LispKept
  <2>1. addr = Written(m)
    BY <1>1 DEF PassInv
  <2>2. CASE Is4
    <3>1. origin \in IPv4 /\ Public(origin) /\ DbAsn(origin) <= 65535
      BY <1>1, <2>2, Origin DEF Kept, Public, RawAsn
    <3> QED
      BY <2>1, <2>2, <3>1, LispLeft4 DEF Written, LeftLisp, RawLisp
  <2>3. CASE ~ Is4
    <3>1. /\ origin \in Prefix /\ ~ Skipped(origin)
          /\ CountryOf6(origin) # COUNTRYCODE_INDEX_UNKNOWN
               \/ DbRegistry6(origin) # REGISTRY_UNKNOWN \/ IsLisp(origin)
      BY <1>1, <2>3, Origin DEF Kept, RawCountry, RawRegistry
    <3> QED
      BY <2>1, <2>3, <3>1, LispLeft6 DEF Written, LeftLisp, RawLisp
  <2> QED
    BY <2>2, <2>3
<1> QED
  BY <1>1, PassInvariant, PTL

(* SpecialKept: an address of a special IPv4 range stays in its range under *)
(* any number of runs with any methods and the standard mask; one of a LISP *)
(* anycast range with any mask.                                             *)
THEOREM SpecialIsKept == PassSpec => []SpecialKept
<1>1. ASSUME PassInv, Special
      PROVE  Type(addr) = Type(origin)
  <2>1. Ordinary(origin) /\ addr \in IPv4 /\ \A i \in 1 .. 3 : addr[i] = origin[i]
    BY <1>1, Origin DEF Special, PassInv, PassTypeOK, Ordinary
  <2>2. Ordinary(addr)
    BY <2>1 DEF Ordinary
  <2> QED
    BY <2>1, <2>2, SameNetSameType
<1>2. PassInv => SpecialKept
  BY <1>1 DEF SpecialKept, Special, Public
<1> QED
  BY <1>2, PassInvariant, PTL

--------------------------------------------------------------------------------
(* The cache of ipv6loganon.                                                *)

(* The ring has the shape all insertions with one limit give it.            *)
RingShape == IsRing(cache_lru_max, cache_lru_last, cache_lru_limit)

(* What a filled slot holds is what its token is to be printed as.          *)
SlotsFaithful ==
  \A s \in 1 .. cache_lru_max :
    /\ cache_lru_key_token[s] \in Tokens
    /\ cache_lru_value[s] # None
    /\ Faithful(cache_lru_key_token[s], cache_lru_value[s])

(* The inductive invariant.  A hit prints the value of a slot, so the last  *)
(* two parts need the ones before them; that a token has one slot follows   *)
(* from the shape, as a token is stored only if no filled slot holds it.    *)
LogInv ==
  /\ LogTypeOK
  /\ RingShape
  /\ OneSlotPerToken
  /\ SlotsFaithful
  /\ CacheIsTransparent
  /\ HitsAreReported

--------------------------------------------------------------------------------
LEMMA LimitFacts == cache_lru_limit \in Nat \ {0} /\ 1 .. cache_lru_limit \subseteq Slot
BY LimitAssumption DEF Slot

LEMMA LogInitInv == LogInit => LogInv
<1> SUFFICES ASSUME LogInit PROVE LogInv
  OBVIOUS
<1>1. LogTypeOK
  BY LimitAssumption, TokensAssumption DEF LogInit, LogTypeOK
<1>2. RingShape /\ SlotsFaithful
  BY LimitAssumption DEF LogInit, RingShape, IsRing, SlotsFaithful
<1>3. OneSlotPerToken
  BY DEF LogInit, OneSlotPerToken, Filled
<1>4. CacheIsTransparent /\ HitsAreReported
  BY DEF LogInit, CacheIsTransparent, HitsAreReported
<1> QED
  BY <1>1, <1>2, <1>3, <1>4 DEF LogInv

--------------------------------------------------------------------------------
(* What a hit finds: a filled slot with the token, at a counted distance.   *)
LEMMA HitFacts ==
  ASSUME LogInv, NEW t \in Tokens, Found(t) # {}, NEW d, d = Nearest(Found(t)),
         NEW s, s = SlotAt(cache_lru_max, cache_lru_last, d)
  PROVE  /\ d \in 0 .. (cache_lru_max - 1)
         /\ s \in 1 .. cache_lru_max
         /\ cache_lru_key_token[s] = t
<1>1. cache_lru_max \in Nat /\ cache_lru_last \in Nat
  BY LimitAssumption DEF LogInv, LogTypeOK
<1>2. SearchDepth(cache_lru_max, cache_lru_last) = cache_lru_max
  BY <1>1, Depth, LimitFacts DEF LogInv, RingShape
<1>3. Found(t) \in SUBSET Nat
  BY <1>1, <1>2 DEF Found, Matches
<1>4. d \in Found(t)
  BY <1>3, NearestIsLeast
<1>5. d \in 0 .. (cache_lru_max - 1) /\ cache_lru_key_token[s] = t
  BY <1>2, <1>4 DEF Found, Matches
<1>6. s \in 1 .. cache_lru_max
  BY <1>1, <1>5, SlotAtInRange, LimitFacts DEF LogInv, RingShape
<1> QED
  BY <1>5, <1>6

(* A hit prints what the slot holds.                                        *)
LEMMA HitStep ==
  ASSUME LogInv, NEW t \in Tokens, Hit(t)
  PROVE  LogInv'
<1> DEFINE d == Nearest(Found(t))
           s == SlotAt(cache_lru_max, cache_lru_last, d)
<1>1. /\ d \in 0 .. (cache_lru_max - 1) /\ s \in 1 .. cache_lru_max
      /\ cache_lru_key_token[s] = t
  BY HitFacts DEF Hit
<1>2. /\ line' = [token |-> t, printed |-> cache_lru_value[s]]
      /\ cache_lru_statistics' = [cache_lru_statistics EXCEPT ![d] = @ + 1]
      /\ UNCHANGED <<cache_lru_max, cache_lru_last, cache_lru_key_token, cache_lru_value, eui64addr>>
  BY DEF Hit, Emit, CountHit, cacheVars
<1> HIDE DEF d, s
<1>3. d \in Distance /\ d < cache_lru_max /\ d < cache_lru_limit /\ s \in Slot
  BY <1>1, LimitAssumption DEF LogInv, LogTypeOK, Distance, Slot
<1>4. cache_lru_value[s] \in Texts /\ Faithful(t, cache_lru_value[s])
  BY <1>1, <1>3 DEF LogInv, LogTypeOK, SlotsFaithful
<1>5. LogTypeOK'
  BY <1>2, <1>3, <1>4 DEF LogInv, LogTypeOK
<1>6. RingShape' /\ OneSlotPerToken' /\ SlotsFaithful'
  BY <1>2 DEF LogInv, RingShape, OneSlotPerToken, Filled, SlotsFaithful, Faithful
<1>7. CacheIsTransparent'
  BY <1>2, <1>4 DEF CacheIsTransparent, Faithful
<1>8. HitsAreReported'
  BY <1>2, <1>3 DEF LogInv, LogTypeOK, HitsAreReported
<1> QED
  BY <1>5, <1>6, <1>7, <1>8 DEF LogInv

--------------------------------------------------------------------------------
(* What an insertion does to a slot.                                        *)
KeptSlot(i) ==
  /\ i \in 1 .. cache_lru_max
  /\ cache_lru_key_token'[i] = cache_lru_key_token[i]
  /\ cache_lru_value'[i] = cache_lru_value[i]

NewSlot(i, t, text) == cache_lru_key_token'[i] = t /\ cache_lru_value'[i] = text

(* A token that is stored has no slot yet, and gets one.                    *)
LEMMA StoreStep ==
  ASSUME LogInv, NEW t \in Tokens, NEW text \in Texts, Missed(t), Store(t, text),
         Faithful(t, text)
  PROVE  /\ cache_lru_max' \in 0 .. cache_lru_limit /\ cache_lru_last' \in 0 .. cache_lru_limit
         /\ cache_lru_max <= cache_lru_max'
         /\ cache_lru_key_token' \in [Slot -> Tokens \cup {None}]
         /\ cache_lru_value' \in [Slot -> Texts \cup {None}]
         /\ RingShape' /\ OneSlotPerToken' /\ SlotsFaithful'
         /\ \A i \in 1 .. cache_lru_max' : KeptSlot(i) \/ NewSlot(i, t, text)
<1>1. CASE flag_nocache
  BY <1>1, LimitAssumption
     DEF KeptSlot, Store, cacheVars, LogInv, LogTypeOK, RingShape, OneSlotPerToken, Filled, SlotsFaithful, Faithful
<1>2. CASE ~ flag_nocache
  <2> DEFINE n == NextLast(cache_lru_max, cache_lru_last, cache_lru_limit)
  <2>1. /\ cache_lru_max' = NextMax(cache_lru_max, cache_lru_limit)
        /\ cache_lru_last' = n
        /\ cache_lru_key_token' = [cache_lru_key_token EXCEPT ![n] = t]
        /\ cache_lru_value' = [cache_lru_value EXCEPT ![n] = text]
    BY <1>2 DEF Store
  <2>2. cache_lru_max \in Nat /\ cache_lru_last \in Nat
    BY LimitAssumption DEF LogInv, LogTypeOK
  <2>3. /\ RingShape'
        /\ n \in 1 .. cache_lru_max'
        /\ cache_lru_max' \in cache_lru_max .. (cache_lru_max + 1)
        /\ cache_lru_max' = cache_lru_max + 1 => n = cache_lru_max'
    BY <2>1, <2>2, Advance, LimitFacts DEF LogInv, RingShape
  <2>4. \A i \in 1 .. cache_lru_max : cache_lru_key_token[i] # t
    BY <1>2, <2>2, MissIsAbsent, LimitFacts DEF Missed, Found, LogInv, RingShape
  <2> HIDE DEF n
  <2>5. cache_lru_max' \in 0 .. cache_lru_limit /\ cache_lru_last' \in 0 .. cache_lru_limit
    BY <2>1, <2>2, <2>3, LimitAssumption DEF RingShape, IsRing
  <2>6. n \in Slot /\ 1 .. cache_lru_max' \subseteq Slot
    BY <2>3, <2>5, LimitAssumption DEF Slot
  <2>7. \A i \in Slot : /\ cache_lru_key_token'[i] = IF i = n THEN t ELSE cache_lru_key_token[i]
                        /\ cache_lru_value'[i] = IF i = n THEN text ELSE cache_lru_value[i]
    BY <2>1 DEF LogInv, LogTypeOK
  <2>8. t # None /\ text # None
    BY TokensAssumption
  <2>9. OneSlotPerToken'
    <3>1. \A i \in Slot : cache_lru_key_token[i] # None <=> i \in 1 .. cache_lru_max
      BY <2>2, LimitAssumption DEF LogInv, OneSlotPerToken, Filled
    <3>2. \A i \in Slot : cache_lru_key_token'[i] # None <=> i \in 1 .. cache_lru_max'
      BY <2>2, <2>3, <2>7, <2>8, <3>1
    <3>3. Filled' = 1 .. cache_lru_max'
      BY <2>6, <3>2 DEF Filled
    <3>4. ASSUME NEW i \in Filled', NEW j \in Filled',
                 cache_lru_key_token'[i] = cache_lru_key_token'[j]
          PROVE  i = j
      <4>1. i \in Slot /\ j \in Slot
        BY DEF Filled
      <4>2. i # n => i \in 1 .. cache_lru_max /\ i \in Filled
        BY <2>7, <3>1, <4>1 DEF Filled
      <4>3. j # n => j \in 1 .. cache_lru_max /\ j \in Filled
        BY <2>7, <3>1, <4>1 DEF Filled
      <4> QED
        BY <2>4, <2>7, <3>4, <4>1, <4>2, <4>3 DEF LogInv, OneSlotPerToken
    <3> QED
      BY <3>3, <3>4 DEF OneSlotPerToken
  <2>10. ASSUME NEW i \in 1 .. cache_lru_max'
         PROVE  KeptSlot(i) \/ NewSlot(i, t, text)
    <3>1. i # n => i \in 1 .. cache_lru_max
      BY <2>2, <2>3
    <3> QED
      BY <2>6, <2>7, <3>1 DEF KeptSlot, NewSlot
  <2>11. /\ cache_lru_key_token' \in [Slot -> Tokens \cup {None}]
         /\ cache_lru_value' \in [Slot -> Texts \cup {None}]
    BY <2>1, <2>6 DEF LogInv, LogTypeOK
  <2>12. cache_lru_max <= cache_lru_max'
    BY <2>2, <2>3
  <2>13. ASSUME NEW i \in 1 .. cache_lru_max'
         PROVE  /\ cache_lru_key_token'[i] \in Tokens
                /\ cache_lru_value'[i] # None
                /\ Faithful(cache_lru_key_token'[i], cache_lru_value'[i])
    BY <2>8, <2>10 DEF KeptSlot, NewSlot, LogInv, SlotsFaithful
  <2>14. SlotsFaithful'
    BY <2>13 DEF SlotsFaithful, Faithful
  <2> QED
    BY <2>3, <2>5, <2>9, <2>10, <2>11, <2>12, <2>14
<1> QED
  BY <1>1, <1>2

(* An insertion prints what it stores.                                      *)
LEMMA InsertStep ==
  ASSUME LogInv, NEW t \in Tokens, NEW text \in Texts, Missed(t), Insert(t, text),
         Faithful(t, text), eui64addr' \in Texts \cup {None}
  PROVE  LogInv'
<1>1. Store(t, text) /\ line' = [token |-> t, printed |-> text]
      /\ cache_lru_statistics' = cache_lru_statistics
  BY DEF Insert, Emit
<1>2. /\ cache_lru_max' \in 0 .. cache_lru_limit /\ cache_lru_last' \in 0 .. cache_lru_limit
      /\ cache_lru_max <= cache_lru_max'
      /\ cache_lru_key_token' \in [Slot -> Tokens \cup {None}]
      /\ cache_lru_value' \in [Slot -> Texts \cup {None}]
      /\ RingShape' /\ OneSlotPerToken' /\ SlotsFaithful'
  BY <1>1, StoreStep
<1>3. LogTypeOK'
  BY <1>1, <1>2 DEF LogInv, LogTypeOK
<1>4. CacheIsTransparent'
  BY <1>1 DEF CacheIsTransparent, Faithful
<1>5. HitsAreReported'
  BY <1>1, <1>2, LimitAssumption DEF LogInv, LogTypeOK, HitsAreReported, Distance
<1> QED
  BY <1>2, <1>3, <1>4, <1>5 DEF LogInv

LEMMA LogNextInv == LogInv /\ [LogNext]_logVars => LogInv'
<1> SUFFICES ASSUME LogInv, [LogNext]_logVars PROVE LogInv'
  OBVIOUS
<1>1. ASSUME NEW t \in Tokens, Hit(t) PROVE LogInv'
  BY <1>1, HitStep
<1>2. ASSUME NEW t \in Tokens, AnonymizeIp(t) PROVE LogInv'
  <2>1. Anonymous[t] \in Texts /\ Faithful(t, Anonymous[t])
    BY <1>2, TokensAssumption DEF AnonymizeIp, Faithful
  <2> QED
    BY <1>2, <2>1, InsertStep DEF AnonymizeIp, LogInv, LogTypeOK
<1>3. ASSUME NEW t \in Tokens, AnonymizeEui64(t) PROVE LogInv'
  <2>1. Anonymous[t] \in Texts /\ Faithful(t, Anonymous[t])
    BY <1>3, TokensAssumption DEF AnonymizeEui64, Faithful
  <2> QED
    BY <1>3, <2>1, InsertStep DEF AnonymizeEui64
<1>4. ASSUME NEW t \in Tokens, AnonymizeMac(t) PROVE LogInv'
  <2>1. PICK held \in {eui64addr} \cup Leftover :
          /\ Insert(t, IF held = None THEN Anonymous[t] ELSE held)
          /\ eui64addr' = held
    BY <1>4 DEF AnonymizeMac
  <2>2. held \in Texts \cup {None}
    BY TokensAssumption DEF LogInv, LogTypeOK
  <2> DEFINE text == IF held = None THEN Anonymous[t] ELSE held
  <2>3. text \in Texts
    BY <2>2, TokensAssumption
  <2>4. Faithful(t, text)
    BY <1>4, <2>3, TokensAssumption DEF AnonymizeMac, Faithful
  <2> HIDE DEF text
  <2>5. Missed(t)
    BY <1>4 DEF AnonymizeMac
  <2>6. Insert(t, text)
    BY <2>1 DEF text
  <2> QED
    BY <2>1, <2>2, <2>3, <2>4, <2>5, <2>6, InsertStep
<1>5. ASSUME NEW t \in Tokens, Drop(t) PROVE LogInv'
  <2>1. /\ UNCHANGED <<cache_lru_max, cache_lru_last, cache_lru_key_token, cache_lru_value,
                       cache_lru_statistics, eui64addr>>
        /\ line' = [token |-> t, printed |-> None]
    BY <1>5 DEF Drop, Emit, cacheVars
  <2>2. CacheIsTransparent'
    BY <1>5, <2>1 DEF CacheIsTransparent, Drop, Faithful
  <2>3. LogTypeOK'
    BY <2>1 DEF LogInv, LogTypeOK
  <2>4. RingShape' /\ OneSlotPerToken' /\ SlotsFaithful' /\ HitsAreReported'
    BY <2>1 DEF LogInv, RingShape, OneSlotPerToken, Filled, SlotsFaithful, Faithful, HitsAreReported
  <2> QED
    BY <2>2, <2>3, <2>4 DEF LogInv
<1>6. CASE UNCHANGED logVars
  BY <1>6 DEF logVars, cacheVars, LogInv, LogTypeOK, RingShape, OneSlotPerToken, Filled,
              SlotsFaithful, CacheIsTransparent, Faithful, HitsAreReported
<1> QED
  BY <1>1, <1>2, <1>3, <1>4, <1>5, <1>6 DEF LogNext, anonymizetoken

--------------------------------------------------------------------------------
(* The cache is as described after any number of lines.                     *)
THEOREM LogInvariant == LogSpec => []LogInv
BY LogInitInv, LogNextInv, PTL DEF LogSpec

(* Every variable of ipv6loganon keeps a value of its kind.                 *)
THEOREM LogTypeCorrect == LogSpec => []LogTypeOK
<1>1. LogInv => LogTypeOK
  BY DEF LogInv
<1> QED
  BY <1>1, LogInvariant, PTL

(* However long the log is, a token never takes two slots of the cache, and *)
(* the filled slots are the first ones.                                     *)
THEOREM NoTokenTwice == LogSpec => []OneSlotPerToken
<1>1. LogInv => OneSlotPerToken
  BY DEF LogInv
<1> QED
  BY <1>1, LogInvariant, PTL

(* With a cache of any size, and without one, an IP or EUI-64 address is    *)
(* printed as its own anonymization, whatever came before it, and a line    *)
(* without an address is not printed.                                       *)
THEOREM CacheStaysTransparent == LogSpec => []CacheIsTransparent
<1>1. LogInv => CacheIsTransparent
  BY DEF LogInv
<1> QED
  BY <1>1, LogInvariant, PTL

(* Every hit is counted at a distance the report prints.                    *)
THEOREM EveryHitIsReported == LogSpec => []HitsAreReported
<1>1. LogInv => HitsAreReported
  BY DEF LogInv
<1> QED
  BY <1>1, LogInvariant, PTL

--------------------------------------------------------------------------------
(* A log on its two ways to the statistics.                                 *)

(* Counters: every member of a set is counted once.                         *)
Add(b, S) ==
  [e \in DOMAIN b \cup S |-> (IF e \in DOMAIN b THEN b[e] ELSE 0) + (IF e \in S THEN 1 ELSE 0)]

Numbers(b) == \A e \in DOMAIN b : b[e] \in Nat

LEMMA AddCounts ==
  ASSUME NEW b, Numbers(b), NEW S, NEW b2, b2 = Add(b, S)
  PROVE  /\ Numbers(b2)
         /\ \A c : /\ Count(b, c) \in Nat
                   /\ Count(b2, c) = Count(b, c) + IF c \in S THEN 1 ELSE 0
BY DEF Add, Numbers, Count, BagIn, BagToSet

LEMMA CountingAdds ==
  ASSUME NEW b, NEW t
  PROVE  CountLine(b, t) = Add(b, Counted(t))
BY DEF CountLine, (+), SetToBag, Add

(* Which of the counters of lines a token counts for.                       *)
LEMMA LinesCounted ==
  ASSUME NEW t
  PROVE  /\ ALL \in Counted(t)
         /\ Lines(4) \in Counted(t) <=> t.kind = "ipv4"
         /\ Lines(6) \in Counted(t) <=> t.kind = "ipv6"
         /\ UNKNOWN \in Counted(t) <=> t.kind \notin {"ipv4", "ipv6", "broken"}
<1> DEFINE known == {"country", "asn", "registry"}
<1>1. /\ ALL.what = "all" /\ UNKNOWN.what = "unknown"
      /\ \A p : Lines(p).what = "lines" /\ Lines(p).proto = p
  BY DEF ALL, UNKNOWN, Lines, Counter
<1>2. \A r, p : \A c \in RegistryCounters(r, p) : c.what \in known
  BY DEF RegistryCounters, Counter
<1>3. \A n, p : \A c \in CountryCounters(n, p) : c.what \in known
  BY DEF CountryCounters, Counter
<1>4. \A n, p : \A c \in AsnCounters(n, p) : c.what \in known
  BY DEF AsnCounters, Counter
<1>5. ASSUME NEW a
      PROVE  /\ Lines(4) \in Counted4(a)
             /\ \A c \in Counted4(a) : c = Lines(4) \/ c.what \in known
  BY <1>2, <1>3, <1>4 DEF Counted4
<1>6. ASSUME NEW d
      PROVE  /\ Lines(6) \in Counted6(d)
             /\ \A c \in Counted6(d) : c = Lines(6) \/ c.what \in known
  BY <1>2, <1>3, <1>4 DEF Counted6
<1>7. CASE t.kind = "ipv4"
  <2>1. Counted(t) = {ALL} \cup Counted4(t.addr)
    BY <1>7 DEF Counted
  <2> QED
    BY <1>1, <1>5, <1>7, <2>1
<1>8. CASE t.kind = "ipv6"
  <2>1. Counted(t) = {ALL} \cup Counted6(t.addr)
    BY <1>8 DEF Counted
  <2> QED
    BY <1>1, <1>6, <1>8, <2>1
<1>9. CASE t.kind = "broken"
  <2>1. Counted(t) = {ALL}
    BY <1>9 DEF Counted
  <2> QED
    BY <1>1, <1>9, <2>1
<1>10. CASE t.kind \notin {"ipv4", "ipv6", "broken"}
  <2>1. Counted(t) = {ALL, UNKNOWN}
    BY <1>10 DEF Counted
  <2> QED
    BY <1>1, <1>10, <2>1
<1> QED
  BY <1>7, <1>8, <1>9, <1>10

--------------------------------------------------------------------------------
(* What a line prints.                                                      *)

(* A text in place of a MAC address is a MAC address or an EUI-64.          *)
HeldIsEui64 == eui64addr # None => eui64addr.kind = "eui64"

SlotsOfMac ==
  \A s \in 1 .. cache_lru_max :
    Kind[cache_lru_key_token[s]] = "mac" => cache_lru_value[s].kind \in {"mac", "eui64"}

(* Every token is a record, and its kind is not lost when it is rendered.   *)
LEMMA RenderedKind ==
  ASSUME NEW t \in Tokens
  PROVE  /\ Kind[t] = KindOf(t) /\ Anonymous[t] = Rendered(t)
         /\ Rendered(t) \in Texts /\ Rendered(t) # None
         /\ Rendered(t).kind = t.kind
         /\ t.kind \in {"ipv4", "ipv6", "mac", "eui64", "name", "broken"}
<1>1. Kind[t] = KindOf(t) /\ Anonymous[t] = Rendered(t)
  BY RenderingAssumption
<1>2. Rendered(t) \in Texts /\ Rendered(t) # None
  BY <1>1, TokensAssumption
<1>3. t \in TokenForms
  BY TokenFormsAssumption
<1>4. /\ t = [kind |-> t.kind, addr |-> t.addr]
      /\ t.kind \in {"ipv4", "ipv6", "mac", "eui64", "name", "broken"}
  BY <1>3 DEF TokenForms
<1>5. \A x : [t EXCEPT !.addr = x].kind = t.kind
  BY <1>4
<1>6. Rendered(t).kind = t.kind
  BY <1>4, <1>5 DEF Rendered
<1> QED
  BY <1>1, <1>2, <1>4, <1>6

LEMMA LineStep ==
  ASSUME LogInv, HeldIsEui64, SlotsOfMac, NEW t \in Tokens, anonymizetoken(t)
  PROVE  /\ LogInv' /\ HeldIsEui64' /\ SlotsOfMac'
         /\ t.kind \in {"name", "broken"} => line'.printed = None
         /\ t.kind \in {"ipv4", "ipv6", "eui64"} => line'.printed = Rendered(t)
         /\ t.kind = "mac" =>
              line'.printed # None /\ line'.printed.kind \in {"mac", "eui64"}
<1>1. LogInv'
  BY LogNextInv DEF LogNext
<1>2. line'.token = t
  BY DEF anonymizetoken, Hit, AnonymizeIp, AnonymizeEui64, AnonymizeMac, Drop, Insert, Emit
<1>3. Faithful(t, line'.printed)
  <2>1. t # None
    BY TokensAssumption
  <2> QED
    BY <1>1, <1>2, <2>1 DEF LogInv, CacheIsTransparent, Faithful
<1>4. /\ t.kind \in {"name", "broken"} => line'.printed = None
      /\ t.kind \in {"ipv4", "ipv6", "eui64"} => line'.printed = Rendered(t)
      /\ t.kind = "mac" => line'.printed # None
  BY <1>3, RenderedKind DEF Faithful, KindOf
<1>5. ASSUME Hit(t)
      PROVE  /\ HeldIsEui64' /\ SlotsOfMac'
             /\ t.kind = "mac" => line'.printed.kind \in {"mac", "eui64"}
  <2> DEFINE d == Nearest(Found(t))
             s == SlotAt(cache_lru_max, cache_lru_last, d)
  <2>1. s \in 1 .. cache_lru_max /\ cache_lru_key_token[s] = t
    BY <1>5, HitFacts DEF Hit
  <2>2. line'.printed = cache_lru_value[s]
    BY <1>5 DEF Hit, Emit
  <2>3. HeldIsEui64' /\ SlotsOfMac'
    BY <1>5 DEF Hit, cacheVars, HeldIsEui64, SlotsOfMac
  <2> HIDE DEF s
  <2> QED
    BY <2>1, <2>2, <2>3, RenderedKind DEF SlotsOfMac, KindOf
<1>6. ASSUME NEW text \in Texts, Missed(t), Insert(t, text), Faithful(t, text),
             t.kind = "mac" => text.kind \in {"mac", "eui64"}
      PROVE  /\ SlotsOfMac'
             /\ t.kind = "mac" => line'.printed.kind \in {"mac", "eui64"}
  <2>1. line'.printed = text
    BY <1>6 DEF Insert, Emit
  <2>2. \A i \in 1 .. cache_lru_max' : KeptSlot(i) \/ NewSlot(i, t, text)
    BY <1>6, StoreStep DEF Insert
  <2>3. ASSUME NEW i \in 1 .. cache_lru_max', Kind[cache_lru_key_token'[i]] = "mac"
        PROVE  cache_lru_value'[i].kind \in {"mac", "eui64"}
    BY <1>6, <2>2, <2>3, RenderedKind DEF KeptSlot, NewSlot, SlotsOfMac, KindOf
  <2> QED
    BY <1>6, <2>1, <2>3 DEF SlotsOfMac
<1>7. ASSUME AnonymizeIp(t) \/ AnonymizeEui64(t)
      PROVE  HeldIsEui64' /\ SlotsOfMac' /\ t.kind # "mac"
  <2>1. /\ Missed(t) /\ Insert(t, Rendered(t)) /\ Kind[t] \in {"ipv4", "ipv6", "eui64"}
        /\ eui64addr' = eui64addr \/ (eui64addr' = Rendered(t) /\ t.kind = "eui64")
    BY <1>7, RenderedKind DEF AnonymizeIp, AnonymizeEui64, KindOf
  <2>2. Rendered(t) \in Texts /\ Faithful(t, Rendered(t)) /\ t.kind # "mac"
    BY <2>1, RenderedKind DEF Faithful, KindOf
  <2>3. HeldIsEui64'
    BY <2>1, RenderedKind DEF HeldIsEui64
  <2> QED
    BY <1>6, <2>1, <2>2, <2>3
<1>8. ASSUME AnonymizeMac(t)
      PROVE  /\ HeldIsEui64' /\ SlotsOfMac'
             /\ line'.printed.kind \in {"mac", "eui64"}
  <2>1. PICK held \in {eui64addr} \cup Leftover :
          /\ Insert(t, IF held = None THEN Anonymous[t] ELSE held)
          /\ eui64addr' = held
    BY <1>8 DEF AnonymizeMac
  <2>2. held # None => held \in Texts /\ held.kind = "eui64"
    BY TokensAssumption, LeftoverAssumption DEF HeldIsEui64, LogInv, LogTypeOK
  <2> DEFINE text == IF held = None THEN Anonymous[t] ELSE held
  <2>3. t.kind = "mac" /\ Missed(t) /\ Kind[t] = "mac"
    BY <1>8, RenderedKind DEF AnonymizeMac, KindOf
  <2>4. text \in Texts /\ text # None /\ text.kind \in {"mac", "eui64"}
    BY <2>2, <2>3, RenderedKind
  <2>5. Insert(t, text)
    BY <2>1
  <2> HIDE DEF text
  <2>6. Faithful(t, text)
    BY <2>3, <2>4 DEF Faithful
  <2> QED
    BY <1>6, <2>1, <2>2, <2>3, <2>4, <2>5, <2>6 DEF HeldIsEui64
<1>9. ASSUME Drop(t)
      PROVE  HeldIsEui64' /\ SlotsOfMac' /\ t.kind # "mac"
  BY <1>9, RenderedKind DEF Drop, cacheVars, HeldIsEui64, SlotsOfMac, KindOf
<1> QED
  BY <1>1, <1>4, <1>5, <1>7, <1>8, <1>9 DEF anonymizetoken

--------------------------------------------------------------------------------
(* What of an address is counted, but for its country.                      *)
CountryApart(S) == { c \in S : c.what # "country" }

LEMMA ApartFromCountry ==
  ASSUME NEW n, NEW p
  PROVE  CountryApart(CountryCounters(n, p)) = {}
BY DEF CountryApart, CountryCounters, Counter

(* A regular token counts for the same as what it is rendered to, but for   *)
(* the country; a regular token that is located counts for the same.        *)
LEMMA PublicCounted4 ==
  ASSUME NEW a \in IPv4, RegularPublic4(a), NEW b, b = OddFrame(AsnCcPayload(a))
  PROVE  /\ CountryApart(Counted4(b)) = CountryApart(Counted4(a))
         /\ Located4(a) => Counted4(b) = Counted4(a)
<1>1. /\ "lisp" \notin Type(a) /\ "anonymized" \notin Type(a) /\ "reserved" \notin Type(a)
      /\ "global" \in Type(a) /\ DbAsn(a) <= 65535
  BY AsnTyped DEF RegularPublic4, Global, ASNUM_MAX
<1>2. CountryOf(a) = DbCountry(a) /\ AsnOf(a) = DbAsn(a) /\ RegistryOf(a) = DbRegistry(a)
  BY <1>1 DEF CountryOf, AsnOf, RegistryOf, Anonymized
<1>4. AsnOf(b) = AsnOf(a)
  BY <1>1, <1>2, SmallAsnLeft4
<1>5. Payload(b) = AsnCcPayload(a) /\ Type(b) = {"anonymized"} \cup Global
  BY <1>1, NoMark4
<1>6. CountryOf(b) = CountryOrRegistry(a)
  BY <1>5, AsnCcFields DEF CountryOf, Anonymized, Global
<1>7. RegistryOf(b) = RegistryOf(a)
  BY <1>2, <1>4, <1>5, <1>6 DEF RegistryOf, Anonymized, Global, RegularPublic4
<1>8. CountryApart(Counted4(b)) = CountryApart(Counted4(a))
  BY <1>4, <1>7, ApartFromCountry DEF Counted4, CountryApart
<1>9. Located4(a) => CountryOf(b) = CountryOf(a)
  BY <1>2, <1>6 DEF Located4, RegularPublic4, CountryOrRegistry
<1> QED
  BY <1>4, <1>7, <1>8, <1>9 DEF Counted4

LEMMA SpecialCounted4 ==
  ASSUME NEW a \in IPv4, RegularSpecial4(a), Mask4 >= 24, NEW b, b = Anonymize(a, Method, Mask4)
  PROVE  Counted4(b) = Counted4(a)
<1>1. Ordinary(a)
  BY DEF Ordinary, RegularSpecial4
<1>2. ~ Public(a)
  BY DEF Public, Global, RegularSpecial4
<1>3. \A i \in 1 .. 3 : b[i] = a[i]
  BY <1>1, <1>2, SpecialPass, OptionsAssumption
<1>4. b \in IPv4
  BY AnonymizeTyped, OptionsAssumption DEF Methods
<1>5. Ordinary(b)
  BY <1>1, <1>3, <1>4 DEF Ordinary
<1>6. Type(b) = Type(a)
  BY <1>1, <1>3, <1>5, SameNetSameType
<1>7. DbAsn(a) = ASNUM_AS_UNKNOWN /\ DbAsn(b) = ASNUM_AS_UNKNOWN
  BY DEF RegularSpecial4
<1>8. ASSUME NEW x \in {a, b}
      PROVE  /\ CountryOf(x) = COUNTRYCODE_INDEX_UNKNOWN
             /\ AsnOf(x) = ASNUM_AS_UNKNOWN /\ RegistryOf(x) = REGISTRY_RESERVED
  <2>1. Ordinary(x) /\ "global" \notin Type(x) /\ DbAsn(x) = ASNUM_AS_UNKNOWN
    BY <1>1, <1>5, <1>6, <1>7 DEF RegularSpecial4
  <2>2. ~ Anonymized(x) /\ Type(x) = SpecialType(x)
    BY <2>1, OrdinaryTypes, OrdinaryIsNotAnonymized DEF Anonymized
  <2> QED
    BY <2>1, <2>2 DEF CountryOf, AsnOf, RegistryOf, DbRegistry, ReservedIPv4
<1> QED
  BY <1>8 DEF Counted4

LEMMA RegularCounted6 ==
  ASSUME NEW d \in Prefix, Regular6(d), ~ Skipped(d), NEW b, b = AsnCcPrefix(d)
  PROVE  /\ CountryApart(Counted6(b)) = CountryApart(Counted6(d))
         /\ Located6(d) => Counted6(b) = Counted6(d)
<1>1. /\ KeepsAsnCc6(b) /\ ~ KeepsGeonameID6(b) /\ Anonymized6(b)
      /\ Index(b) = CountryOrRegistry6(d) /\ Number32(b) = DbAsn6(d)
  BY AsnCcPrefixFields DEF Anonymized6
<1>2. ~ Anonymized6(d) /\ ~ KeepsGeonameID6(d)
  BY DEF Skipped, Anonymized6
<1>3. AsnOf6(b) = AsnOf6(d) /\ AsnOf6(b) = DbAsn6(d)
  BY <1>1, <1>2 DEF AsnOf6, Regular6
<1>4. CountryOf6(b) = CountryOrRegistry6(d)
  <2>1. IsLisp(b) => Index(b) = COUNTRYCODE_INDEX_LISP
    BY <1>1, TokenIsNotLisp DEF IsLisp, KeepsAsnCc6
  <2> QED
    BY <1>1, <2>1 DEF CountryOf6
<1>5. RegistryOf6(b) = RegistryOf6(d)
  BY <1>1, <1>2, <1>3, <1>4 DEF RegistryOf6, Regular6
<1>6. CountryApart(Counted6(b)) = CountryApart(Counted6(d))
  BY <1>3, <1>5, ApartFromCountry DEF Counted6, CountryApart
<1>7. Located6(d) => CountryOf6(b) = CountryOf6(d)
  <2>1. CASE Is6bone(d)
    BY <1>2, <1>4, <2>1 DEF CountryOrRegistry6, CountryOf6
  <2>2. CASE ~ Is6bone(d)
    BY <1>2, <1>4, <2>2 DEF CountryOrRegistry6, CountryOf6, Located6
  <2> QED
    BY <2>1, <2>2
<1> QED
  BY <1>3, <1>5, <1>6, <1>7 DEF Counted6

LEMMA RegularCounted ==
  ASSUME NEW t \in Tokens, Regular(t), Method = "kp", Mask4 >= 24
  PROVE  /\ t.kind \in {"ipv4", "ipv6", "eui64"}
         /\ CountryApart(Counted(Rendered(t))) = CountryApart(Counted(t))
         /\ Located(t) => Counted(Rendered(t)) = Counted(t)
<1> DEFINE r == Rendered(t)
<1>1. t \in TokenForms /\ r.kind = t.kind /\ t.kind \in {"ipv4", "ipv6", "eui64"}
  BY TokenFormsAssumption, RenderedKind DEF Regular
<1>2. t = [kind |-> t.kind, addr |-> t.addr]
  BY <1>1 DEF TokenForms
<1>3. CASE t.kind = "ipv4"
  <2> DEFINE a == t.addr
             b == Anonymize(a, Method, Mask4)
  <2>1. a \in IPv4 /\ Regular4(a)
    BY <1>1, <1>3 DEF TokenForms, Regular
  <2>2. r.addr = b
    BY <1>2, <1>3 DEF Rendered
  <2>3. /\ CountryApart(Counted4(b)) = CountryApart(Counted4(a))
        /\ Located4(a) => Counted4(b) = Counted4(a)
    <3>1. CASE RegularPublic4(a)
      <4>1. Public(a)
        BY <3>1 DEF RegularPublic4, Public
      <4>2. b = OddFrame(AsnCcPayload(a))
        BY <2>1, <4>1, AnonymizePublic
      <4> QED
        BY <2>1, <3>1, <4>2, PublicCounted4
    <3>2. CASE RegularSpecial4(a)
      BY <2>1, <3>2, SpecialCounted4
    <3>3. CASE Anonymized(a)
      BY <3>3 DEF Anonymized, Anonymize
    <3> QED
      BY <2>1, <3>1, <3>2, <3>3 DEF Regular4
  <2> HIDE DEF b
  <2> QED
    BY <1>1, <1>3, <2>2, <2>3 DEF Counted, Located, CountryApart
<1>4. CASE t.kind = "ipv6"
  <2> DEFINE d == t.addr
             b == Anonymize6(d, Method)
  <2>1. d \in Prefix /\ Regular6(d)
    BY <1>1, <1>4 DEF TokenForms, Regular
  <2>2. r.addr = b
    BY <1>2, <1>4 DEF Rendered
  <2>3. /\ CountryApart(Counted6(b)) = CountryApart(Counted6(d))
        /\ Located6(d) => Counted6(b) = Counted6(d)
    BY <2>1, RegularCounted6 DEF Anonymize6
  <2> HIDE DEF b
  <2> QED
    BY <1>1, <1>4, <2>2, <2>3 DEF Counted, Located, CountryApart
<1>5. CASE t.kind = "eui64"
  BY <1>1, <1>5 DEF Counted
<1> QED
  BY <1>1, <1>3, <1>4, <1>5

--------------------------------------------------------------------------------
(* The inductive invariant of the two ways.                                 *)
PipeInv ==
  /\ LogInv /\ HeldIsEui64 /\ SlotsOfMac
  /\ TypeOK
  /\ Numbers(raw) /\ Numbers(anonymous)
  /\ LinesAgree
  /\ SameResult

LEMMA PipeInit ==
  Init => PipeInv
<1> SUFFICES ASSUME Init PROVE PipeInv
  OBVIOUS
<1>1. LogInv /\ SlotsOfMac /\ cache_lru_max = 0
  BY LogInitInv DEF Init, LogInit, SlotsOfMac
<1>2. HeldIsEui64
  BY LeftoverAssumption DEF Init, LogInit, HeldIsEui64
<1>3. TypeOK
  BY <1>1, OptionsAssumption DEF Init, TypeOK, LogInv
<1>4. raw = <<>> /\ anonymous = raw /\ DOMAIN raw = {}
  BY DEF Init, NoCounts, EmptyBag, SetToBag
<1>5. Numbers(raw) /\ Numbers(anonymous) /\ SameResult
  BY <1>4 DEF Numbers, SameResult
<1>6. \A c : Count(raw, c) = 0 /\ Count(anonymous, c) = 0
  BY <1>4 DEF Count, BagIn, BagToSet
<1>7. LinesAgree
  BY <1>6 DEF LinesAgree
<1> QED
  BY <1>1, <1>2, <1>3, <1>5, <1>7 DEF PipeInv

LEMMA PipeLine ==
  ASSUME PipeInv, NEW t \in Tokens, Line(t)
  PROVE  PipeInv'
<1> DEFINE p == line'.printed
<1>1. /\ LogInv' /\ HeldIsEui64' /\ SlotsOfMac'
      /\ t.kind \in {"name", "broken"} => p = None
      /\ t.kind \in {"ipv4", "ipv6", "eui64"} => p = Rendered(t)
      /\ t.kind = "mac" => p # None /\ p.kind \in {"mac", "eui64"}
  BY LineStep DEF PipeInv, Line
<1>2. /\ t.kind \in {"ipv4", "ipv6", "mac", "eui64", "name", "broken"}
      /\ Rendered(t).kind = t.kind /\ Rendered(t) # None
  BY RenderedKind
<1>3. TypeOK'
  BY <1>1, OptionsAssumption DEF PipeInv, TypeOK, LogInv, Line
<1>4. /\ raw' = Add(raw, Counted(t))
      /\ anonymous' = IF p = None THEN anonymous ELSE Add(anonymous, Counted(p))
  BY CountingAdds DEF Line
<1>5. Numbers(raw) /\ Numbers(anonymous)
  BY DEF PipeInv
<1>6. /\ Numbers(raw')
      /\ \A c : /\ Count(raw, c) \in Nat
                /\ Count(raw', c) = Count(raw, c) + IF c \in Counted(t) THEN 1 ELSE 0
  BY <1>4, <1>5, AddCounts
<1>7. /\ p # None => Numbers(Add(anonymous, Counted(p)))
      /\ \A c : Count(anonymous, c) \in Nat
      /\ p # None => \A c : Count(Add(anonymous, Counted(p)), c)
                              = Count(anonymous, c) + IF c \in Counted(p) THEN 1 ELSE 0
  BY <1>5, AddCounts
<1>8. Numbers(raw)' /\ Numbers(anonymous)'
  BY <1>4, <1>5, <1>6, <1>7 DEF Numbers
<1>9. LinesAgree'
  <2>1. CASE p = None
    <3>1. t.kind \in {"name", "broken"} /\ anonymous' = anonymous
      BY <1>1, <1>2, <1>4, <2>1
    <3> QED
      BY <1>6, <1>7, <3>1, LinesCounted DEF PipeInv, LinesAgree, Count
  <2>2. CASE p # None
    <3>1. t.kind \in {"ipv4", "ipv6", "mac", "eui64"} /\ anonymous' = Add(anonymous, Counted(p))
      BY <1>1, <1>2, <1>4, <2>2
    <3> QED
      BY <1>1, <1>2, <1>6, <1>7, <2>2, <3>1, LinesCounted DEF PipeInv, LinesAgree
  <2> QED
    BY <2>1, <2>2
<1>10. SameResult'
  <2> SUFFICES ASSUME Method = "kp", Mask4 >= 24, regular'
               PROVE  /\ \A c \in DOMAIN raw' \cup DOMAIN anonymous' :
                           c.what # "country" => Count(anonymous', c) = Count(raw', c)
                      /\ located' => anonymous' = raw'
    BY DEF SameResult, Count
  <2>1. regular /\ Regular(t)
    BY DEF Line
  <2>2. /\ t.kind \in {"ipv4", "ipv6", "eui64"}
        /\ CountryApart(Counted(Rendered(t))) = CountryApart(Counted(t))
        /\ Located(t) => Counted(Rendered(t)) = Counted(t)
    BY <2>1, RegularCounted
  <2>3. p # None /\ anonymous' = Add(anonymous, Counted(Rendered(t)))
    BY <1>1, <1>2, <1>4, <2>2
  <2>4. \A c : c.what # "country" => Count(anonymous, c) = Count(raw, c)
    <3>1. \A c \in DOMAIN raw \cup DOMAIN anonymous :
            c.what # "country" => Count(anonymous, c) = Count(raw, c)
      BY <2>1 DEF PipeInv, SameResult
    <3>2. \A c : c \notin DOMAIN raw \cup DOMAIN anonymous =>
            Count(anonymous, c) = 0 /\ Count(raw, c) = 0
      BY DEF Count, BagIn, BagToSet
    <3> QED
      BY <3>1, <3>2
  <2>5. ASSUME NEW c, c.what # "country"
        PROVE  Count(anonymous', c) = Count(raw', c)
    <3>1. c \in Counted(Rendered(t)) <=> c \in Counted(t)
      BY <2>2, <2>5 DEF CountryApart
    <3>2. p = Rendered(t)
      BY <1>1, <2>2
    <3> HIDE DEF p
    <3> QED
      BY <1>6, <1>7, <2>3, <2>4, <2>5, <3>1, <3>2
  <2>6. located' => anonymous' = raw'
    <3>1. located' => located /\ Located(t)
      BY DEF Line
    <3>2. located => anonymous = raw
      BY <2>1 DEF PipeInv, SameResult
    <3> QED
      BY <1>4, <2>2, <2>3, <3>1, <3>2
  <2> QED
    BY <2>5, <2>6
<1> QED
  BY <1>1, <1>3, <1>8, <1>9, <1>10 DEF PipeInv

(* The invariant of the two ways holds for a log of any length.             *)
THEOREM PipeInvariant == Spec => []PipeInv
<1>1. ASSUME PipeInv, [Next]_vars
      PROVE  PipeInv'
  <2>1. CASE Next
    BY <1>1, <2>1, PipeLine DEF Next
  <2>2. CASE UNCHANGED vars
    <3>1. UNCHANGED logVars
      BY <2>2 DEF vars
    <3>2. LogInv'
      BY <1>1, <3>1, LogNextInv DEF PipeInv
    <3>3. HeldIsEui64' /\ SlotsOfMac' /\ LogTypeOK'
      BY <1>1, <3>1, <3>2 DEF logVars, cacheVars, PipeInv, HeldIsEui64, SlotsOfMac, LogInv
    <3> QED
      BY <1>1, <2>2, <3>2, <3>3
         DEF vars, PipeInv, TypeOK, Numbers, LinesAgree, SameResult, Count
  <2> QED
    BY <1>1, <2>1, <2>2
<1> QED
  BY <1>1, PipeInit, PTL DEF Spec

(* The way through ipv6loganon is one of its runs: what is proved of    *)
(* LogSpec holds on it.                                                     *)
THEOREM PipeIsLog == Spec => LogSpec
<1>1. Init => LogInit
  BY DEF Init
<1>2. ASSUME [Next]_vars
      PROVE  [LogNext]_logVars
  BY <1>2 DEF Next, Line, LogNext, vars
<1> QED
  BY <1>1, <1>2, PTL DEF Spec, LogSpec

(* Every variable of the two ways keeps a value of its kind, those of the   *)
(* cache of ipv6loganon included.                                           *)
THEOREM PipeTypeCorrect == Spec => []TypeOK
BY PipeInvariant, PTL DEF PipeInv

(* LinesAgree: whatever the cache holds, no address is lost or changes its  *)
(* family on the way through ipv6loganon, and no line is made up.           *)
THEOREM NoAddressIsLost == Spec => []LinesAgree
BY PipeInvariant, PTL DEF PipeInv

(* SameResult: with kp and the standard mask, a log of regular tokens gives *)
(* the same counters of lines, AS numbers and registries before and after   *)
(* ipv6loganon, and the same counters altogether if the countries of its    *)
(* addresses are known, for any databases, tables and caches.               *)
THEOREM SameStatistics == Spec => []SameResult
BY PipeInvariant, PTL DEF PipeInv

================================================================================
