------------------------------ MODULE AddressInfo ------------------------------
(***************************************************************************)
(* What the program knows of an address besides its bits: a country code   *)
(* index, an AS number and a registry number.  An index below 936 stands   *)
(* for two letters; those from 1006 on stand for an unknown country of     *)
(* which only the registry is known.                                       *)
(***************************************************************************)
EXTENDS Integers

CONSTANTS
  RegistryOfAsn,        \* the built-in tables: the registry of an AS number
  RegistryOfCountry     \*   and of a country code index

COUNTRYCODE_INDEX_LETTER_MAX == 935     \* two letters: 26 * 36 indexes
MAP_MIN == 1006                         \* unknown country, by registry:
MAP_MAX == 1021                         \*   MAP_MIN + registry number
COUNTRYCODE_INDEX_LISP == 1021
COUNTRYCODE_INDEX_UNKNOWN == 1022

ASNUM_AS_UNKNOWN == 0

REGISTRY_ARIN == 6
REGISTRY_6BONE == 8
REGISTRY_IANA == 9
REGISTRY_RESERVED == 14
REGISTRY_UNKNOWN == 15

RegistryNumber == 0 .. 15

(* A country as it is printed: two letters, or "unknown".                   *)
CountryLabel(c) == IF c <= COUNTRYCODE_INDEX_LETTER_MAX THEN c ELSE COUNTRYCODE_INDEX_UNKNOWN

RegistryOfCcIndex(c) ==
  IF c = COUNTRYCODE_INDEX_UNKNOWN THEN REGISTRY_IANA
  ELSE IF c \in MAP_MIN .. MAP_MAX THEN c - MAP_MIN
  ELSE IF c \in DOMAIN RegistryOfCountry THEN RegistryOfCountry[c]
  ELSE REGISTRY_UNKNOWN

RegistryByAsn(n) == IF n \in DOMAIN RegistryOfAsn THEN RegistryOfAsn[n] ELSE REGISTRY_UNKNOWN

(* The tables are generated: a part of the numbers, each with a registry.   *)
(* The one of the AS numbers begins with 1.                                 *)
ASSUME TablesAssumption ==
  /\ \A n \in DOMAIN RegistryOfAsn : n \in Nat \ {0} /\ RegistryOfAsn[n] \in RegistryNumber
  /\ \A c \in DOMAIN RegistryOfCountry :
       c \in 0 .. COUNTRYCODE_INDEX_LETTER_MAX /\ RegistryOfCountry[c] \in RegistryNumber

================================================================================
