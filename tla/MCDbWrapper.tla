------------------------------ MODULE MCDbWrapper ------------------------------
(***************************************************************************)
(* DbWrapper for TLC: an IPv6 address the sources differ about, a 6to4     *)
(* address, which is in the table of reserved ranges only, and an IPv4     *)
(* address of 10.0.0.0/8; a database of each kind of failure.              *)
(***************************************************************************)
EXTENDS DbWrapper

MCAddr == {"v6", "6to4", "10/8"}
MCProtoOf == [ a \in MCAddr |-> IF a = "10/8" THEN "IPV4" ELSE "IPV6" ]

(* What a source of a kind may say, by its number.                          *)
Features(s) == Proto \X Implemented(s)
Says(s) == [ features |-> Features(s), opens |-> TRUE,
             unixtime |-> [ p \in Proto |-> s ],
             cc       |-> [ a \in MCAddr |-> 100 + s ],
             as       |-> [ a \in MCAddr |-> 64000 + s ],
             place    |-> [ a \in MCAddr |-> [ id |-> 2000 + s, type |-> 1 + (s % 5) ] ],
             registry |-> [ a \in MCAddr |-> s ] ]

(* All sources know all addresses.                                          *)
Full == [ library |-> TRUE, file |-> [ s \in Source |-> Says(s) ] ]

(* The first sources know one address each, and the newest registries are   *)
(* the external ones for IPv4 only.                                         *)
Sparse ==
  [ Full EXCEPT
      !.file[GEOIP2].cc["v6"] = NOT_FOUND, !.file[GEOIP2].as["v6"] = 0,
      !.file[GEOIP2].place["v6"].id = 0,
      !.file[IP2LOCATION].features = Proto \X {"CC"}, !.file[IP2LOCATION].cc["v6"] = NO_CODE,
      !.file[IP2LOCATION2].features = {"IPV6"} \X {"AS", "GEONAMEID"},
      !.file[DBIP2].as["v6"] = 0,
      !.file[EXTERNAL].unixtime["IPV4"] = 9 ]

(* A file that does not open, a text that has not two characters.           *)
Broken ==
  [ Full EXCEPT
      !.file[GEOIP2].opens = FALSE, !.file[IP2LOCATION].cc["v6"] = NOT_TWO,
      !.file[EXTERNAL].features = {} ]

MCDatabases == [ d \in {"sparse", "broken", "no library"} |->
                   CASE d = "sparse" -> Sparse
                     [] d = "broken" -> Broken
                     [] d = "no library" -> [ Sparse EXCEPT !.library = FALSE ] ]

MCDisableable == {EXTERNAL}

MCPriorities ==
  { <<DBIP2>>, <<IP2LOCATION2, GEOIP2>>, <<GEOIP2, UNKNOWN>>,
    <<EXTERNAL, DBIP2, IP2LOCATION, IP2LOCATION2, GEOIP2, BUILTIN>> }

================================================================================
