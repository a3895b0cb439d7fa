----------------------------- MODULE MCModRequest -----------------------------
(***************************************************************************)
(* Instances of ModRequest for TLC: a main server and one virtual host,    *)
(* four IPv4 addresses (one private), two IPv6 addresses (one mapped, one  *)
(* 6to4), rings of two or three slots in arrays of four.                   *)
(***************************************************************************)
EXTENDS ModRequest, Sequences

MCAddr4 == {"198.51.100.7", "203.0.113.9", "192.0.2.4", "10.0.0.1"}
MCAddr6 == {"::ffff:203.0.113.9", "2002:c633:6407::1"}

MCMappedOf ==
  [ a \in MCAddr6 |-> IF a = "::ffff:203.0.113.9" THEN "203.0.113.9" ELSE NoAddr ]

MCIncludedOf ==
  [ a \in MCAddr6 |-> IF a = "2002:c633:6407::1" THEN "198.51.100.7" ELSE NoAddr ]

MCGlobal == (MCAddr4 \cup MCAddr6) \ {"10.0.0.1"}

Row(cc, asn, registry, geonameid) ==
  [ f \in Retrieved |-> CASE f = "COUNTRYCODE" -> cc [] f = "ASN" -> asn
                         [] f = "REGISTRY" -> registry [] f = "GEONAMEID" -> geonameid ]

(* One address the databases know all about, one without a GeonameID, one   *)
(* reserved, one unknown.                                                    *)
MCDb ==
  [ a \in MCAddr4 \cup MCAddr6 |->
      CASE a = "198.51.100.7" -> Row("DE", "8767", "RIPENCC", "2867714")
        [] a = "10.0.0.1"     -> Row("", "0", "reserved(RFC1918)", "0")
        [] a = "2002:c633:6407::1" -> Row("", "0", "", "0")
        [] OTHER              -> Row("US", "8075", "ARIN", "0") ]

MCRegistryResult ==
  [ a \in MCAddr4 \cup MCAddr6 |->
      CASE a = "10.0.0.1" -> 2 [] a = "2002:c633:6407::1" -> 1 [] OTHER -> 0 ]

MCText == STRING
MCAnon == {"anonymize", "zeroize"}
MCAnonText == [ s \in MCAnon |-> [ a \in MCAddr4 \cup MCAddr6 |-> s \o " " \o a ] ]
MCMethodName == [ s \in MCAnon |-> s ]

(* The configuration of a server with the example ipv6calc.conf.            *)
Example ==
  [ enabled |-> TRUE, default_active |-> TRUE, source |-> FALSE, cache |-> TRUE,
    cache_limit |-> 2, actions |-> Action,
    anon_set |-> "anonymize" ]

Servers(main, vhost) == [ h \in Vhost |-> IF h = Main THEN main ELSE vhost ]

(* Servers that agree on the cache and differ in everything else.           *)
Agreeing ==
  { Servers(Example, [ Example EXCEPT !.default_active = FALSE, !.source = TRUE ]),
    Servers([ Example EXCEPT !.actions = {"COUNTRYCODE", "GEONAMEID"}, !.cache_limit = 3 ],
            [ Example EXCEPT !.enabled = FALSE ]),
    Servers([ Example EXCEPT !.actions = {"IP_ANON", "REGISTRY"} ],
            [ Example EXCEPT !.cache = FALSE, !.cache_limit = 1, !.anon_set = "zeroize" ]) }

(* Servers that agree on the limit but not on the actions.                  *)
SameLimitOnly ==
  { Servers([ Example EXCEPT !.actions = {"COUNTRYCODE"} ],
            [ Example EXCEPT !.actions = {"ASN"}, !.anon_set = "zeroize" ]) }

================================================================================
