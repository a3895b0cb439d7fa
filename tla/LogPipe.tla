-------------------------------- MODULE LogPipe --------------------------------
(***************************************************************************)
(* A log on its two ways to the statistics: as it is, and through          *)
(* ipv6loganon.  The man page of ipv6loganon says that, with the method    *)
(* that keeps country and AS number, the results should be the same.       *)
(***************************************************************************)
EXTENDS LogAnon, LogStats

CONSTANTS
  Method,                             \* the method of ipv6loganon,
  Mask4,                              \* its IPv4 mask
  MaxLines                            \* bound on the length of the log

VARIABLES
  raw,                                \* counters of the raw log
  anonymous,                          \* counters of the anonymized log
  regular,                            \* no line was of an irregular token,
  located,                            \* none of one whose country moves
  lines

vars == <<logVars, raw, anonymous, regular, located, lines>>

(* The first n octets.                                                      *)
FirstOctets(o, n) == [i \in DOMAIN o |-> IF i <= n THEN o[i] ELSE 0]

(* What anonymization makes of a token: an IP address as its module says; a *)
(* MAC address keeps three octets, an EUI-64 five (the masks of all presets *)
(* are 24 and 40 bits; vendors with longer prefixes are left out).          *)
Rendered(t) ==
  CASE t.kind = "ipv4" -> [t EXCEPT !.addr = Anonymize(@, Method, Mask4)]
    [] t.kind = "ipv6" -> [t EXCEPT !.addr = Anonymize6(@, Method)]
    [] t.kind = "mac" -> [t EXCEPT !.addr = FirstOctets(@, 3)]
    [] OTHER -> [t EXCEPT !.addr = FirstOctets(@, 5)]

(* What a line can begin with.  An IPv6 address is a global one.            *)
TokenForms ==
  [kind : {"ipv4"}, addr : IPv4]
    \cup [kind : {"ipv6"}, addr : { d \in Prefix : Aggregatable(d) }]
    \cup [kind : {"mac"}, addr : [1 .. 6 -> Octet]]
    \cup [kind : {"eui64"}, addr : [1 .. 8 -> Octet]]
    \cup [kind : {"name", "broken"}, addr : { <<>> }]

KindOf(t) == IF t.kind \in {"name", "broken"} THEN "none" ELSE t.kind

(* The tables the parameters of LogAnon stand for.                          *)
ASSUME RenderingAssumption ==
  \A t \in Tokens : Kind[t] = KindOf(t) /\ Anonymous[t] = Rendered(t)

ASSUME TokenFormsAssumption == Tokens \subseteq TokenForms

(* Whatever is left in the EUI-64 structure is printed as an EUI-64.        *)
ASSUME LeftoverAssumption == \A text \in Leftover \ {None} : text.kind = "eui64"

ASSUME OptionsAssumption ==
  /\ Method \in {"kp", "kg"} /\ Mask4 \in 4 .. 32
  /\ MaxLines \in Nat

--------------------------------------------------------------------------------
(* A token whose counters the design can preserve, but for those of its     *)
(* country: a public address, not a LISP one, with an AS number an IPv4     *)
(* address has room for, and of a registry that is the one the built-in     *)
(* tables derive from AS number and country; or a special IPv4 address that *)
(* no database gives an AS number, neither itself nor its network.          *)
RegularPublic4(a) ==
  /\ Type(a) = Global
  /\ DbAsn(a) < ASNUM_MAX
  /\ DbRegistry(a) =
       IF DbAsn(a) # ASNUM_AS_UNKNOWN /\ RegistryByAsn(DbAsn(a)) # REGISTRY_ARIN
       THEN RegistryByAsn(DbAsn(a))
       ELSE RegistryOfCcIndex(CountryOrRegistry(a))

RegularSpecial4(a) ==
  /\ a[1] \in 1 .. 239 /\ "global" \notin Type(a)
  /\ \A b \in {a, Anonymize(a, Method, Mask4)} : DbAsn(b) = ASNUM_AS_UNKNOWN

Regular4(a) == RegularPublic4(a) \/ RegularSpecial4(a) \/ Anonymized(a)

Regular6(d) ==
  /\ Is6bone(d) => DbAsn6(d) = ASNUM_AS_UNKNOWN
  /\ DbRegistry6(d) =
       IF CountryOrRegistry6(d) = COUNTRYCODE_INDEX_LISP THEN RegistryByAsn(DbAsn6(d))
       ELSE RegistryOfCcIndex(CountryOrRegistry6(d))

Regular(t) ==
  \/ t.kind = "ipv4" /\ Regular4(t.addr)
  \/ t.kind = "ipv6" /\ Regular6(t.addr)
  \/ t.kind = "eui64"

(* The country of an address is counted under the same index afterwards: it *)
(* is known, or the address is left alone.  An unknown country becomes the  *)
(* index of its registry, and for an IPv6 LISP address that of LISP.        *)
Located4(a) == Type(a) = Global => DbCountry(a) # COUNTRYCODE_INDEX_UNKNOWN

Located6(d) ==
  \/ Skipped(d) \/ Is6bone(d)
  \/ ~ IsLisp(d) /\ DbCountry6(d) # COUNTRYCODE_INDEX_UNKNOWN

Located(t) ==
  /\ t.kind = "ipv4" => Located4(t.addr)
  /\ t.kind = "ipv6" => Located6(t.addr)

Init ==
  /\ LogInit
  /\ raw = NoCounts
  /\ anonymous = NoCounts
  /\ regular = TRUE
  /\ located = TRUE
  /\ lines = 0

(* One line: the anonymizer prints at most one, which the second            *)
(* ipv6logstats reads.                                                      *)
Line(t) ==
  /\ lines < MaxLines
  /\ lines' = lines + 1
  /\ anonymizetoken(t)
  /\ raw' = CountLine(raw, t)
  /\ anonymous' = IF line'.printed = None THEN anonymous ELSE CountLine(anonymous, line'.printed)
  /\ regular' = (regular /\ Regular(t))
  /\ located' = (located /\ Located(t))

Next == \E t \in Tokens : Line(t)

Spec == Init /\ [][Next]_vars

--------------------------------------------------------------------------------
TypeOK ==
  /\ LogTypeOK
  /\ regular \in BOOLEAN /\ located \in BOOLEAN
  /\ lines \in 0 .. MaxLines

Count(b, c) == IF BagIn(c, b) THEN b[c] ELSE 0

(* "Big advantage: ipv6logstats(8) result should be the same as with raw    *)
(* data" (man/ipv6loganon.8:56).  What holds of it for a log of regular     *)
(* tokens, whatever the order of the lines and the state of the cache:      *)
(* every counter of lines, AS numbers and registries is the same, and if    *)
(* the country of every address is known, all counters are.                 *)
SameResult ==
  Method = "kp" /\ Mask4 >= 24 /\ regular =>
    /\ \A c \in DOMAIN raw \cup DOMAIN anonymous :
         c.what # "country" => Count(anonymous, c) = Count(raw, c)
    /\ located => anonymous = raw

(* For any log: no address is lost or changes its family, no line is made   *)
(* up, and every line that is printed is one ipv6logstats can read.         *)
LinesAgree ==
  /\ \A c \in {Lines(4), Lines(6)} : Count(raw, c) = Count(anonymous, c)
  /\ Count(raw, UNKNOWN) >= Count(anonymous, UNKNOWN)
  /\ Count(anonymous, ALL) =
       Count(anonymous, Lines(4)) + Count(anonymous, Lines(6))
         + Count(anonymous, UNKNOWN)

================================================================================
