------------------------------- MODULE DbWrapper -------------------------------
(***************************************************************************)
(* The database wrapper (libipv6calc_db_wrapper): the options choose which *)
(* of six sources are used and in which order, the initialisation selects  *)
(* the sources of each feature, and a lookup asks the sources of its       *)
(* feature in that order until one knows the address.  Three of the        *)
(* lookups remember their last address in static variables.                *)
(*                                                                         *)
(* The lists of features_selector are kept as sets: all are filled in the  *)
(* one order of priority_selector, which does not change afterwards.       *)
(***************************************************************************)
EXTENDS Integers, Sequences, FiniteSets

CONSTANTS
  Addr,          \* addresses
  ProtoOf,       \* [Addr -> Proto]
  Reserved,      \* the addresses whose typeinfo has the RESERVED bit
  ReservedString,\* the addresses in the table of reserved ranges
  SixBone,       \* the IPv6 addresses of 3ffe::/16
  Installed,     \* the installations to start from
  Databases,     \* their files: [Installed -> [library : BOOLEAN, file : [Source -> File]]]
  Disableable,   \* the sources options may disable
  Priorities,    \* the arguments of the option db-priorization, as tokens
  MaxOptions     \* bound: how many options are given

(* Sources have the numbers of the default order of priority.               *)
GEOIP2 == 1
IP2LOCATION == 2
IP2LOCATION2 == 3
DBIP2 == 4
EXTERNAL == 5
BUILTIN == 6
Source == 1 .. 6
UNKNOWN == 0          \* no source; a token that names none
Told == Source \cup {UNKNOWN}

(* The table of the sources' names, in its own order.                       *)
data_sources == << GEOIP2, IP2LOCATION, DBIP2, EXTERNAL, BUILTIN, IP2LOCATION2 >>

Proto   == {"IPV4", "IPV6"}
Kind    == {"CC", "AS", "GEONAMEID", "REGISTRY"}
Feature == Proto \X Kind

(* Sources read through the MaxMindDB library.                              *)
MMDB == {GEOIP2, IP2LOCATION2, DBIP2}

Implemented(s) ==
  CASE s \in MMDB       -> {"CC", "AS", "GEONAMEID"}
    [] s = IP2LOCATION  -> {"CC", "AS"}
    [] s = EXTERNAL     -> {"CC", "REGISTRY"}
    [] s = BUILTIN      -> {"REGISTRY"}

COUNTRYCODE_INDEX_UNKNOWN == 1022
REGISTRY_6BONE == 8
REGISTRY_RESERVED == 14
REGISTRY_UNKNOWN == 15
MMDB_FILE_OPEN_ERROR == 1
AS_UNKNOWN == 0
GEONAMEID_UNKNOWN == 0
TYPE_UNKNOWN == 0

(* What a source says of a country: an index, or one of these.              *)
NOT_FOUND == -1       \* the lookup failed
NOT_TWO   == -2       \* a text that has not two characters
NO_CODE   == -3       \* two characters that are no code
Country   == {NOT_FOUND, NOT_TWO, NO_CODE} \cup (0 .. 935)

Place == [ id : Nat, type : 0 .. 5 ]

(* One source's files: the features they have, whether they can be opened,  *)
(* when they were created and what they say of each address.                *)
File ==
  [ features : SUBSET Feature, opens : BOOLEAN, unixtime : [Proto -> Nat],
    cc : [Addr -> Country], as : [Addr -> Nat], place : [Addr -> Place],
    registry : [Addr -> 0 .. 15] ]

ASSUME AddrAssumption ==
  /\ Addr # {} /\ ProtoOf \in [Addr -> Proto]
  /\ Reserved \subseteq Addr /\ ReservedString \subseteq Addr /\ SixBone \subseteq Addr
ASSUME DatabasesAssumption ==
  /\ Databases \in [Installed -> [ library : BOOLEAN, file : [Source -> File] ]]
  /\ \A d \in Installed, s \in Source : \A f \in Databases[d].file[s].features :
       /\ f[2] \in Implemented(s)
       /\ f[2] = "REGISTRY" => Databases[d].file[s].unixtime[f[1]] > 0
ASSUME OptionsAssumption ==
  /\ Disableable \subseteq Source /\ MaxOptions \in Nat
  /\ \A t \in Priorities : t \in Seq(Source \cup {UNKNOWN}) /\ Len(t) \in 1 .. 6

VARIABLES
  installed,     \* what is installed: the MaxMindDB library and each source's files
  phase,         \* "options", "running", or "exited"
  disable,       \* the sources that are not used
  priority_by_option, priority_selector,   \* how many entries, [1 .. 6 -> source]
  features_selector,                       \* [Feature -> the sources to ask]
  cc_last, as_last, geo_last,              \* what the lookups remember
  accepted,      \* auxiliary: the priorities asked for last
  given,         \* how many options were given, for MaxOptions
  answer         \* the lookup answered last

options == <<disable, priority_by_option, priority_selector, accepted, given>>
lastused == <<cc_last, as_last, geo_last>>
vars == <<installed, phase, options, features_selector, lastused, answer>>

files == Databases[installed].file
library == Databases[installed].library

--------------------------------------------------------------------------------
(* Options, given before the initialisation.                                *)

Nothing == [ kind |-> "none" ]

OptionDisable(s) ==
  /\ phase = "options" /\ given < MaxOptions /\ given' = given + 1
  /\ disable' = disable \cup {s}
  /\ UNCHANGED <<installed, phase, priority_by_option, priority_selector, accepted,
                 features_selector, lastused, answer>>

(* Tokens are taken one after the other; each but the first is compared     *)
(* with those before it and with what an earlier option left at its place.  *)
Taken(tokens) ==
  /\ \A n \in DOMAIN tokens : tokens[n] # UNKNOWN
  /\ \A n \in 2 .. Len(tokens) :
       tokens[n] # priority_selector[n] /\ \A m \in 1 .. (n - 1) : tokens[n] # tokens[m]

(* A token not known, or taken for a duplicate, ends the program.           *)
OptionPriorization(tokens) ==
  /\ phase = "options" /\ given < MaxOptions /\ given' = given + 1
  /\ IF Taken(tokens)
     THEN /\ priority_selector' =
               [ n \in Source |-> IF n <= Len(tokens) THEN tokens[n] ELSE priority_selector[n] ]
          /\ priority_by_option' = Len(tokens)
          /\ accepted' = tokens
          /\ UNCHANGED phase
     ELSE /\ phase' = "exited"
          /\ UNCHANGED <<priority_selector, priority_by_option, accepted>>
  /\ UNCHANGED <<installed, disable, features_selector, lastused, answer>>

--------------------------------------------------------------------------------
(* Initialisation.                                                          *)

(* A source is put behind an order it is not yet in.                        *)
Behind(order, s) == IF \E n \in DOMAIN order : order[n] = s THEN order ELSE Append(order, s)

(* The order the option gives, with the first n of the table of names that  *)
(* it does not mention behind.                                              *)
Filled[n \in 0 .. 6] ==
  IF n = 0 THEN SubSeq(priority_selector, 1, priority_by_option)
  ELSE Behind(Filled[n - 1], data_sources[n])

(* Faulty: the sources named by the option are added once more.             *)
Priority_again ==
  SubSeq(SubSeq(priority_selector, 1, priority_by_option) \o data_sources, 1, 6)

(* The order of the sources: by number, or as the option says.              *)
Priority == IF priority_by_option = 0 THEN [ n \in Source |-> n ] ELSE Filled[6]

(* Without the library its sources are disabled.                            *)
Disabled == disable \cup (IF library THEN {} ELSE MMDB)

(* A feature counts as soon as a file of it is there, opened or not.        *)
FeaturesOf(s) == IF s \in Disabled THEN {} ELSE files[s].features

(* The two sources of registries, if each has a file with a date.           *)
BothDated(p) == \A s \in {BUILTIN, EXTERNAL} : files[s].unixtime[p] > 0

(* Faulty: the older one is kept.                                           *)
Newer_older(p) ==
  IF files[BUILTIN].unixtime[p] < files[EXTERNAL].unixtime[p] THEN BUILTIN ELSE EXTERNAL

Newer(p) ==
  IF files[BUILTIN].unixtime[p] < files[EXTERNAL].unixtime[p] THEN EXTERNAL ELSE BUILTIN

(* The sources of a feature; of two sources of registries only the newer    *)
(* one stays.                                                               *)
Selected(f) ==
  LET all == { s \in Source : f \in FeaturesOf(s) }
  IN IF f[2] = "REGISTRY" /\ {BUILTIN, EXTERNAL} \subseteq all /\ BothDated(f[1])
     THEN {Newer(f[1])} ELSE all

WrapperInit ==
  /\ phase = "options" /\ phase' = "running"
  /\ priority_selector' = Priority
  /\ priority_by_option' = IF priority_by_option = 0 THEN 0 ELSE 6
  /\ disable' = Disabled
  /\ features_selector' = [ f \in Feature |-> Selected(f) ]
  /\ UNCHANGED <<installed, accepted, given, lastused, answer>>

--------------------------------------------------------------------------------
(* What the sources say.                                                    *)

Code(s, a) == IF files[s].opens THEN files[s].cc[a] ELSE NOT_FOUND

Asn(s, a) == IF files[s].opens THEN files[s].as[a] ELSE AS_UNKNOWN

(* The number of the error of the open is returned as a GeonameID.          *)
Geo(s, a) == IF files[s].opens THEN files[s].place[a]
             ELSE [ id |-> MMDB_FILE_OPEN_ERROR, type |-> TYPE_UNKNOWN ]

Knows(s, k, a) ==
  \/ k = "CC" /\ Code(s, a) # NOT_FOUND
  \/ k = "AS" /\ Asn(s, a) # AS_UNKNOWN
  \/ k = "GEONAMEID" /\ Geo(s, a).id # GEONAMEID_UNKNOWN

Asked(k, a) == features_selector[<<ProtoOf[a], k>>]

(* The first, and the last, of some sources in the order of priority.       *)
FirstOf(S) ==
  IF \A n \in Source : priority_selector[n] \notin S THEN UNKNOWN
  ELSE priority_selector[CHOOSE n \in Source :
         priority_selector[n] \in S /\ \A m \in 1 .. (n - 1) : priority_selector[m] \notin S]

LastOf(S) ==
  IF \A n \in Source : priority_selector[n] \notin S THEN UNKNOWN
  ELSE priority_selector[CHOOSE n \in Source :
         priority_selector[n] \in S /\ \A m \in (n + 1) .. 6 : priority_selector[m] \notin S]

(* The source that answers a question: the first one asked that knows.      *)
Answerer(k, a) ==
  IF a \in Reserved THEN UNKNOWN ELSE FirstOf({ s \in Asked(k, a) : Knows(s, k, a) })

(* Faulty: the text of the country is not looked at.                        *)
IndexOf_unchecked(c) == c

IndexOf(c) == IF c \in 0 .. 935 THEN c ELSE COUNTRYCODE_INDEX_UNKNOWN

CcByAddr(a) ==
  LET s == Answerer("CC", a)
  IN IF s = UNKNOWN THEN COUNTRYCODE_INDEX_UNKNOWN ELSE IndexOf(Code(s, a))

AsByAddr(a) ==
  LET s == Answerer("AS", a) IN IF s = UNKNOWN THEN AS_UNKNOWN ELSE Asn(s, a)

GeoByAddr(a) ==
  LET s == Answerer("GEONAMEID", a)
  IN IF s = UNKNOWN THEN [ id |-> GEONAMEID_UNKNOWN, type |-> TYPE_UNKNOWN ] ELSE Geo(s, a)

(* All sources of registries are asked, and the last one's word stays.      *)
RegistryByAddr(a) ==
  LET s == LastOf(Asked("REGISTRY", a))
  IN IF a \in ReservedString THEN REGISTRY_RESERVED
     ELSE IF a \in SixBone THEN REGISTRY_6BONE
     ELSE IF s = UNKNOWN THEN REGISTRY_UNKNOWN
     ELSE files[s].registry[a]

--------------------------------------------------------------------------------
(* Lookups.                                                                 *)

(* Faulty: the words of the address are not compared.                       *)
Hit_proto(last, a) == last.valid /\ ProtoOf[last.addr] = ProtoOf[a]

Hit(last, a) == last.valid /\ last.addr = a

Answered(k, a, value, source, type) ==
  answer' = [ kind |-> k, addr |-> a, value |-> value, source |-> source, type |-> type ]

(* A hit tells the source stored last, which a lookup whose text has not    *)
(* two characters has changed.                                              *)
CcHit(a) ==
  /\ Hit(cc_last, a)
  /\ Answered("CC", a, cc_last.index, cc_last.source, TYPE_UNKNOWN)
  /\ UNCHANGED cc_last

CcMiss(a) ==
  LET s == Answerer("CC", a)
  IN /\ ~Hit(cc_last, a)
     /\ CASE s = UNKNOWN -> UNCHANGED cc_last
          [] s # UNKNOWN /\ Code(s, a) = NOT_TWO -> cc_last' = [cc_last EXCEPT !.source = s]
          [] OTHER -> cc_last' = [ valid |-> TRUE, addr |-> a, index |-> CcByAddr(a), source |-> s ]
     /\ Answered("CC", a, CcByAddr(a),
                 IF s # UNKNOWN /\ Code(s, a) = NOT_TWO THEN UNKNOWN ELSE s, TYPE_UNKNOWN)

CcIndexByAddr(a) ==
  /\ phase = "running"
  /\ CcHit(a) \/ CcMiss(a)
  /\ UNCHANGED <<installed, phase, options, features_selector, as_last, geo_last>>

(* Faulty: the source asked last is remembered, whether it knew or not.     *)
AsSource_asked(a) == LastOf(Asked("AS", a))

AsSource(a) == Answerer("AS", a)

(* The name of the organisation is not remembered: who wants it is never    *)
(* answered from the last lookup.                                           *)
AsHit(a, orgname) ==
  /\ Hit(as_last, a) /\ ~orgname /\ a \notin Reserved
  /\ Answered("AS", a, as_last.num, as_last.source, TYPE_UNKNOWN)
  /\ UNCHANGED as_last

AsMiss(a, orgname) ==
  /\ ~Hit(as_last, a) \/ orgname \/ a \in Reserved
  /\ Answered("AS", a, AsByAddr(a), AsSource(a), TYPE_UNKNOWN)
  /\ as_last' = IF AsByAddr(a) = AS_UNKNOWN THEN as_last
                ELSE [ valid |-> TRUE, addr |-> a, num |-> AsByAddr(a), source |-> AsSource(a) ]

AsNum32ByAddr(a, orgname) ==
  /\ phase = "running"
  /\ AsHit(a, orgname) \/ AsMiss(a, orgname)
  /\ UNCHANGED <<installed, phase, options, features_selector, cc_last, geo_last>>

(* After a hit, too, the kind of place found is stored and told: by then    *)
(* none has been looked for.                                                *)
GeoHit(a) ==
  /\ Hit(geo_last, a) /\ a \notin Reserved
  /\ Answered("GEONAMEID", a, geo_last.id, geo_last.source, TYPE_UNKNOWN)
  /\ geo_last' = [geo_last EXCEPT !.type = TYPE_UNKNOWN]

GeoMiss(a) ==
  LET s == Answerer("GEONAMEID", a)
      place == GeoByAddr(a)
  IN /\ ~Hit(geo_last, a) \/ a \in Reserved
     /\ Answered("GEONAMEID", a, place.id, s, place.type)
     /\ geo_last' = IF place.id = GEONAMEID_UNKNOWN THEN geo_last
                    ELSE [ valid |-> TRUE, addr |-> a, id |-> place.id, type |-> place.type,
                           source |-> s ]

GeonameIDByAddr(a) ==
  /\ phase = "running"
  /\ GeoHit(a) \/ GeoMiss(a)
  /\ UNCHANGED <<installed, phase, options, features_selector, cc_last, as_last>>

(* These two lookups compare the places of the addresses in memory, not the *)
(* addresses: what they store is never found again and is left out.         *)
RegistryNumByAddr(a) ==
  /\ phase = "running"
  /\ Answered("REGISTRY", a, RegistryByAddr(a), UNKNOWN, TYPE_UNKNOWN)
  /\ UNCHANGED <<installed, phase, options, features_selector, lastused>>

--------------------------------------------------------------------------------
(* Static variables are zero, no matter which address that is.             *)
Zero == CHOOSE a \in Addr : TRUE

Init ==
  /\ installed \in Installed /\ phase = "options" /\ disable = {} /\ given = 0
  /\ priority_by_option = 0 /\ priority_selector = [ n \in Source |-> UNKNOWN ] /\ accepted = <<>>
  /\ features_selector = [ f \in Feature |-> {} ]
  /\ cc_last  = [ valid |-> FALSE, addr |-> Zero, index |-> 0, source |-> UNKNOWN ]
  /\ as_last  = [ valid |-> FALSE, addr |-> Zero, num |-> 0, source |-> UNKNOWN ]
  /\ geo_last = [ valid |-> FALSE, addr |-> Zero, id |-> 0, type |-> TYPE_UNKNOWN, source |-> UNKNOWN ]
  /\ answer = Nothing

Next ==
  \/ \E s \in Disableable : OptionDisable(s)
  \/ \E tokens \in Priorities : OptionPriorization(tokens)
  \/ WrapperInit
  \/ \E a \in Addr : CcIndexByAddr(a) \/ GeonameIDByAddr(a) \/ RegistryNumByAddr(a)
  \/ \E a \in Addr, orgname \in BOOLEAN : AsNum32ByAddr(a, orgname)

Spec == Init /\ [][Next]_vars

--------------------------------------------------------------------------------
(* Properties.                                                              *)

(* What is remembered keeps its type: an index of a country is one of two   *)
(* letters or the one for unknown, whatever the texts of the databases.     *)
TypeOK ==
  /\ installed \in Installed /\ phase \in {"options", "running", "exited"}
  /\ disable \subseteq Source /\ priority_by_option \in Nat
  /\ features_selector \in [Feature -> SUBSET Source]
  /\ cc_last \in [ valid : BOOLEAN, addr : Addr,
                   index : (0 .. 935) \cup {COUNTRYCODE_INDEX_UNKNOWN}, source : Told ]
  /\ as_last \in [ valid : BOOLEAN, addr : Addr, num : Nat, source : Told ]
  /\ geo_last \in [ valid : BOOLEAN, addr : Addr, id : Nat, type : 0 .. 5, source : Told ]

(* Once initialised every source has one place in the order of priority,    *)
(* and those of the last option come first, as they were given: although    *)
(* an earlier option may have left other entries behind.                    *)
OrderAsAsked ==
  phase = "running" =>
    /\ { priority_selector[n] : n \in Source } = Source
    /\ \A n \in DOMAIN accepted : priority_selector[n] = accepted[n]

(* A registry is asked of one source only, and no other that is enabled has *)
(* newer data: of two, the one asked last would have the last word.         *)
RegistrySingleNewest ==
  phase = "running" =>
    \A p \in Proto :
      LET asked == features_selector[<<p, "REGISTRY">>]
      IN /\ Cardinality(asked) <= 1
         /\ \A s \in asked, t \in Source \ disable :
              <<p, "REGISTRY">> \in files[t].features =>
                files[t].unixtime[p] <= files[s].unixtime[p]

(* The enabled sources that have a feature and know an address.             *)
Able(k, a) ==
  { s \in Source \ disable : <<ProtoOf[a], k>> \in files[s].features /\ Knows(s, k, a) }

TextsHaveTwo == \A s \in Source, b \in Addr : files[s].cc[b] # NOT_TWO

(* The source told with an answer is one that gave it, and no other that    *)
(* could have answered is before it, also when the answer is remembered.    *)
(* For countries as long as all texts have two characters: another text     *)
(* leaves its source with the country remembered from an earlier lookup.    *)
SourceIsPreferred ==
  LET k == answer.kind
      a == answer.addr
  IN /\ k \in {"CC", "AS", "GEONAMEID"} /\ a \notin Reserved
     /\ k = "CC" => TextsHaveTwo
     => \/ /\ answer.source \in Able(k, a)
           /\ \E n \in Source :
                /\ priority_selector[n] = answer.source
                /\ \A m \in 1 .. (n - 1) : priority_selector[m] \notin Able(k, a)
        \/ /\ answer.source = UNKNOWN
           /\ \A n \in Source : priority_selector[n] \notin Able(k, a)

(* What the databases have for a question.                                  *)
Truth(k, a) ==
  CASE k = "CC"        -> CcByAddr(a)
    [] k = "AS"        -> AsByAddr(a)
    [] k = "GEONAMEID" -> GeoByAddr(a).id
    [] k = "REGISTRY"  -> RegistryByAddr(a)

Service == INSTANCE LookupService WITH
  Value <- Int,
  serving <- phase = "running",
  oracle <- [ k \in Kind |-> [ a \in Addr |-> Truth(k, a) ] ],
  reply <- IF answer.kind \in Kind
           THEN [ kind |-> answer.kind, addr |-> answer.addr, value |-> answer.value ]
           ELSE Nothing

(* However lookups follow each other, an answer depends on its question and *)
(* the databases alone: what is remembered cannot be told from it.          *)
ImplementsService == Service!Spec

(* "set only source from cache if caller request it" (comment at the cache  *)
(* hit of the GeonameID lookup): the kind of place that is told with a      *)
(* GeonameID is the one the database has for it.                            *)
GeonameIDTypeIsKept ==
  answer.kind = "GEONAMEID" /\ answer.addr \notin Reserved
    => answer.type = GeoByAddr(answer.addr).type

================================================================================
