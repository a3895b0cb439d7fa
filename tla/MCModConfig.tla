------------------------------ MODULE MCModConfig ------------------------------
(***************************************************************************)
(* Instances of ModConfig for TLC: a main server and a virtual host, arrays*)
(* of four slots with a least limit of two, and five installations.        *)
(***************************************************************************)
EXTENDS ModConfig

MCSource == {"GeoIP2", "BuiltIn"}

Files(bad, features) ==
  [ fails |-> bad,
    features |-> [ s \in MCSource |-> IF s = "GeoIP2" THEN features ELSE {} ] ]

MCDatabases ==
  [ i \in Installed |->
      CASE i = "all"     -> Files(FALSE, Feature)
        [] i = "asn, cc" -> Files(FALSE, KEEPTYPEASNCC_REQ_DB)
        [] i = "geo"     -> Files(FALSE, KEEPTYPEGEONAMEID_REQ_DB)
        [] i = "IPv4"    -> Files(FALSE, {"IPV4"} \X {"CC", "AS", "GEONAMEID"})
        [] i = "broken"  -> Files(TRUE, Feature) ]

MCDirective ==
  [ name : {"Enable", "NoFallback"}, value : {TRUE} ]
    \cup [ name : {"Enable"}, value : {FALSE} ]
    \cup [ name : {"Action"}, action : {"IP_ANON"}, value : {TRUE} ]
    \cup [ name : {"CacheLimit"}, value : {MinLimit - 1, Size, Size + 1} ]
    \cup [ name : {"Logging"} ]

(* What changes the method, its databases or its masks, and an invalid one. *)
MCOption ==
  { [ kind |-> "preset", set |-> [ as EXCEPT !.method = m ] ] :
      m \in {"keep-type-asn-cc", "keep-type-geonameid"} }
    \cup [ kind : {"method"}, method : {"zeroize"} ]
    \cup [ kind : {"disable"}, source : {"GeoIP2"} ]
    \cup [ kind : {"mask", "invalid"} ]

================================================================================
