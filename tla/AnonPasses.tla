------------------------------- MODULE AnonPasses -------------------------------
(***************************************************************************)
(* An address that is anonymized, and anonymized again: a log is rotated,  *)
(* merged and anonymized by more than one run of ipv6loganon, each with    *)
(* the method and the IPv4 mask of its command line.  The lookups of       *)
(* ipv6logstats and ipv6calc then see what is left of it.                  *)
(***************************************************************************)
EXTENDS AnonIPv4, AnonIPv6

CONSTANTS
  Origins,        \* the addresses of the raw log, of both families
  Masks,          \* the IPv4 masks of the presets
  MaxPasses       \* bound on the runs

VARIABLES
  origin,         \* the address in the raw log
  addr,           \* what has become of it
  method,         \* the first method that was used on it, or "none"
  mask,           \* the shortest mask
  passes

ASSUME OriginsAssumption == Origins \subseteq IPv4 \cup Prefix

(* A mask of less than 4 bits (no preset has one, an option could set one)  *)
(* would move 240.0.0.0, which stands for an unknown GeonameID.             *)
ASSUME MasksAssumption == Masks \subseteq 4 .. 32

ASSUME MaxPassesAssumption == MaxPasses \in Nat

passVars == <<origin, addr, method, mask, passes>>

Family(a) == IF Len(a) = 4 THEN "ipv4" ELSE "ipv6"

PassInit ==
  /\ origin \in Origins
  /\ addr = origin
  /\ method = "none"
  /\ mask = 32
  /\ passes = 0

(* ipv6loganon on the line: which function it calls depends on the type of  *)
(* the address only.  The mask methods are not modelled for IPv6.           *)
Pass(m, w) ==
  /\ passes < MaxPasses
  /\ passes' = passes + 1
  /\ addr' = IF Family(addr) = "ipv4" THEN Anonymize(addr, m, w) ELSE Anonymize6(addr, m)
  /\ method' = IF method = "none" THEN m ELSE method
  /\ mask' = IF w < mask THEN w ELSE mask
  /\ UNCHANGED origin

PassNext ==
  \E m \in Methods, w \in Masks :
    /\ Family(addr) = "ipv6" => m \in {"kp", "kg"} /\ Aggregatable(addr)
    /\ Pass(m, w)

PassSpec == PassInit /\ [][PassNext]_passVars

--------------------------------------------------------------------------------
(* Every lookup, of either family.                                          *)

Is4 == Family(origin) = "ipv4"

PassTypeOK ==
  /\ origin \in Origins
  /\ addr \in IF Is4 THEN IPv4 ELSE Prefix
  /\ method \in Methods \cup {"none"}
  /\ mask \in Masks \cup {32}
  /\ passes \in 0 .. MaxPasses

RawCountry == IF Is4 THEN DbCountry(origin) ELSE CountryOf6(origin)
RawAsn == IF Is4 THEN DbAsn(origin) ELSE DbAsn6(origin)
RawRegistry == IF Is4 THEN DbRegistry(origin) ELSE DbRegistry6(origin)
RawGeoname == IF Is4 THEN DbGeoname(origin) ELSE GeonameOf6(origin)
RawLisp == IF Is4 THEN "lisp" \in Type(origin) ELSE IsLisp(origin)

LeftCountry == IF Is4 THEN CountryOf(addr) ELSE CountryOf6(addr)
LeftAsn == IF Is4 THEN AsnOf(addr) ELSE AsnOf6(addr)
LeftRegistry == IF Is4 THEN RegistryOf(addr) ELSE RegistryOf6(addr)
LeftGeoname == IF Is4 THEN GeonameOf(addr) ELSE GeonameOf6(addr)
LeftLisp == IF Is4 THEN "lisp" \in Type(addr) ELSE IsLisp(addr)

(* The origin is a public unicast address of the raw log, not an anonymized *)
(* one, and the first run kept the type: m is kp or kg.                     *)
Kept(m) ==
  /\ method = m
  /\ IF Is4 THEN Type(origin) \in {Global, Global \cup {"lisp"}}
     ELSE Aggregatable(origin) /\ ~ Skipped(origin)

--------------------------------------------------------------------------------
(* kp: the country is printed as it was for the raw address, after any      *)
(* number of runs.  The man page promises the same statistics as with the   *)
(* raw log; the two marks of a LISP address and the sixteen stand-ins for   *)
(* an unknown country share the ten bits.                                   *)
CountryKept == Kept("kp") /\ ~ RawLisp => CountryLabel(LeftCountry) = CountryLabel(RawCountry)

(* kp: the AS number is kept, an IPv4 one if it has 16 bits.  Bits of a     *)
(* neighbouring field, the LISP mark or the parity would show here.         *)
AsnKept ==
  /\ Kept("kp")
  /\ Is4 => RawAsn <= 65535 /\ ~ RawLisp
  => LeftAsn = RawAsn

(* An address of which only the registry is known keeps that.               *)
RegistryKept ==
  /\ Kept("kp")
  /\ ~ RawLisp
  /\ RawCountry >= MAP_MIN
  /\ RawAsn = ASNUM_AS_UNKNOWN
  => LeftRegistry = RawRegistry

(* kg: a known GeonameID is kept with its type.                             *)
GeonameKept == Kept("kg") /\ ~ RawLisp /\ RawGeoname.type # 0 => LeftGeoname = RawGeoname

(* Only a LISP address is taken for one afterwards, unless its AS number    *)
(* had to be packed (IPv4) or nothing at all is known of it (IPv6).         *)
LispKept ==
  /\ Kept("kp") \/ Kept("kg")
  /\ Is4 => RawAsn <= 65535
  /\ ~ Is4 => RawCountry # COUNTRYCODE_INDEX_UNKNOWN \/ RawRegistry # REGISTRY_UNKNOWN
  => (LeftLisp <=> RawLisp)

(* An address of a special IPv4 range is still in it when the run used the  *)
(* standard mask; one of a LISP anycast range with any mask.  240.0.0.0/4   *)
(* and 0.0.0.0/8 hold the anonymized addresses and the unspecified one.     *)
SpecialKept ==
  Is4 /\ origin[1] \in 1 .. 239 /\ Type(origin) # Global
      /\ Type(origin) # Global \cup {"lisp"}
      /\ (mask >= 24 \/ {"anycast", "lisp"} \subseteq Type(origin))
  => Type(addr) = Type(origin)

(* A later run with any method leaves alone what a run with kp or kg wrote, *)
(* whatever method it uses itself.                                          *)
Settled == [][Kept("kp") \/ Kept("kg") => addr' = addr]_passVars

================================================================================
