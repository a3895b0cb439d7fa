------------------------------- MODULE ModConfig -------------------------------
(***************************************************************************)
(* mod_ipv6calc from httpd's reading of the configuration to its children: *)
(* each server section with a directive of the module gets a record of its *)
(* own, all others share the main server's, since the module does not      *)
(* merge records.  Options for the libraries go to one list, applied once, *)
(* to the main server.  post_config then initialises the databases and     *)
(* settles the method of anonymization.  The directives are also allowed   *)
(* in .htaccess files, where they change the record the child holds.       *)
(***************************************************************************)
EXTENDS Integers, Sequences, FiniteSets

CONSTANTS
  Vhost,         \* the servers
  Main,          \* the one outside of any VirtualHost section
  Source,        \* the sources of the database wrapper
  Installed,     \* what may be installed
  Databases,     \* [Installed -> [fails : BOOLEAN, features : [Source -> features]]]
  Directive,     \* the directives that are given, but for ipv6calcOption
  Option,        \* the options given with ipv6calcOption
  MinLimit, Size,\* IPV6CALC_CACHE_LRI_LIMIT_MIN and _SIZE
  OptionsMax,    \* mod_ipv6calc_options_max, the length of the list of options
  MaxDirectives, \* bound: the directives in the configuration
  MaxOverrides   \* bound: the directives a child reads in .htaccess files

Action  == {"IP_ANON", "COUNTRYCODE", "ASN", "REGISTRY", "GEONAMEID"}
Feature == {"IPV4"} \X {"CC", "AS", "GEONAMEID"} \cup {"IPV6"} \X {"CC", "AS", "GEONAMEID"}

Method == {"anonymize", "zeroize", "keep-type-asn-cc", "keep-type-geonameid"}
Masks  == {"standard", "careful", "paranoid", "custom"}
AnonSet == [ method : Method, masks : Masks ]

(* The presets: "as" and its like by length of the masks, the two methods   *)
(* that keep types with those of "as".                                      *)
Preset ==
  [ method : {"anonymize", "zeroize"}, masks : {"standard", "careful", "paranoid"} ]
    \cup [ method : {"keep-type-asn-cc", "keep-type-geonameid"}, masks : {"standard"} ]
as == [ method |-> "anonymize", masks |-> "standard" ]

(* What anonymize functions ask of the databases.                           *)
KEEPTYPEASNCC_REQ_DB     == {"IPV4", "IPV6"} \X {"CC", "AS"}
KEEPTYPEGEONAMEID_REQ_DB == {"IPV4", "IPV6"} \X {"GEONAMEID"}

Name == {"", "IPV6CALC_CLIENT_IP"}

(* A server's record.                                                       *)
Server ==
  [ enabled : BOOLEAN, default_active : BOOLEAN, no_fallback : BOOLEAN,
    source_env_name : Name, cache : BOOLEAN, cache_limit : MinLimit .. Size,
    actions : SUBSET Action, anon_set : AnonSet ]

(* ipv6calc_create_svr_conf.                                                *)
Default ==
  [ enabled |-> FALSE, default_active |-> TRUE, no_fallback |-> FALSE,
    source_env_name |-> "", cache |-> TRUE, cache_limit |-> MinLimit,
    actions |-> {}, anon_set |-> as ]

(* "too long" stands for a name longer than the field, "Logging" for the    *)
(* two directives on what is logged, whose fields are left out.             *)
DirectiveForm ==
  [ name : {"Enable", "DefaultActive", "NoFallback", "Cache"}, value : BOOLEAN ]
    \cup [ name : {"Action"}, action : Action, value : BOOLEAN ]
    \cup [ name : {"SourceEnvName"}, value : Name \cup {"too long"} ]
    \cup [ name : {"CacheLimit"}, value : Int ] \cup [ name : {"Logging"} ]

(* "invalid" stands for a value the library exits on, "unknown" for an      *)
(* option that is not there, or is given with the value "off".              *)
OptionForm ==
  [ kind : {"preset"}, set : Preset ] \cup [ kind : {"method"}, method : Method ]
    \cup [ kind : {"disable"}, source : Source ]
    \cup [ kind : {"mask", "invalid", "unknown"} ]

ASSUME ServersAssumption == Main \in Vhost
ASSUME LimitsAssumption ==
  /\ MinLimit \in Nat \ {0} /\ Size \in Nat /\ MinLimit <= Size
  /\ OptionsMax \in Nat /\ MaxDirectives \in Nat /\ MaxOverrides \in Nat
ASSUME DatabasesAssumption ==
  Databases \in [Installed -> [ fails : BOOLEAN, features : [Source -> SUBSET Feature] ]]
ASSUME DirectivesAssumption == Directive \subseteq DirectiveForm /\ Option \subseteq OptionForm

VARIABLES
  phase,         \* "config", "options", "method", "running" or "stopped"
  installed,     \* the files post_config finds
  own,           \* the servers with a record of their own
  conf,          \* [Vhost -> Server], read for the servers of own
  option_list,   \* what ipv6calcOption gave
  applied,       \* how many of them were applied
  disable,       \* the sources options have disabled
  feature_kp, feature_kg,   \* whether the databases support the methods
  anon_method_name,         \* what children tell as the method
  child,         \* a child's copy of conf
  given          \* how many directives were read, for the bounds

startup == <<installed, own, option_list, applied, disable, feature_kp, feature_kg, anon_method_name>>
vars == <<phase, conf, child, given, startup>>

--------------------------------------------------------------------------------
(* Reading the configuration.                                               *)

Owner(h) == IF h \in own THEN h ELSE Main

(* Faulty: the length of the arrays is not a limit.                         *)
FitsCache_any(n) == n >= MinLimit

FitsCache(n) == n >= MinLimit /\ n <= Size

(* A record after a directive: what is out of range is skipped.             *)
After(c, d) ==
  CASE d.name = "Enable"        -> [c EXCEPT !.enabled = d.value]
    [] d.name = "DefaultActive" -> [c EXCEPT !.default_active = d.value]
    [] d.name = "NoFallback"    -> [c EXCEPT !.no_fallback = d.value]
    [] d.name = "Cache"         -> [c EXCEPT !.cache = d.value]
    [] d.name = "Action" ->
         [c EXCEPT !.actions = IF d.value THEN @ \cup {d.action} ELSE @ \ {d.action}]
    [] d.name = "SourceEnvName" ->
         [c EXCEPT !.source_env_name = IF d.value = "too long" THEN @ ELSE d.value]
    [] d.name = "CacheLimit"    -> [c EXCEPT !.cache_limit = IF FitsCache(d.value) THEN d.value ELSE @]
    [] d.name = "Logging"       -> c

(* A directive in the section of server h, which thereby has its own record.*)
Configure(h, d) ==
  /\ phase = "config" /\ given < MaxDirectives /\ given' = given + 1
  /\ own' = own \cup {h}
  /\ conf' = [conf EXCEPT ![h] = After(@, d)]
  /\ UNCHANGED <<phase, installed, option_list, applied, disable, feature_kp, feature_kg,
                 anon_method_name, child>>

(* An option too many is an error of the configuration: httpd stops.        *)
ConfigureOption(h, o) ==
  /\ phase = "config" /\ given < MaxDirectives /\ given' = given + 1
  /\ own' = own \cup {h}
  /\ IF Len(option_list) < OptionsMax
     THEN option_list' = Append(option_list, o) /\ UNCHANGED phase
     ELSE phase' = "stopped" /\ UNCHANGED option_list
  /\ UNCHANGED <<conf, installed, applied, disable, feature_kp, feature_kg,
                 anon_method_name, child>>

--------------------------------------------------------------------------------
(* post_config, which looks at the main server only.                        *)

NotEnabled ==
  /\ phase = "config" /\ ~conf[Main].enabled
  /\ phase' = "running" /\ child' = conf /\ given' = 0
  /\ UNCHANGED <<conf, startup>>

SupportInit ==
  /\ phase = "config" /\ conf[Main].enabled
  /\ phase' = "options"
  /\ UNCHANGED <<conf, child, given, startup>>

AnonSetAfter(s, o) ==
  CASE o.kind = "preset" -> o.set
    [] o.kind = "method" -> [s EXCEPT !.method = o.method]
    [] o.kind = "mask"   -> [s EXCEPT !.masks = "custom"]
    [] OTHER -> s

(* The options are applied in their order; an option not understood is      *)
(* warned of, an invalid value ends the process.                            *)
ApplyOption ==
  /\ phase = "options" /\ applied < Len(option_list)
  /\ LET o == option_list[applied + 1]
     IN /\ conf' = [conf EXCEPT ![Main].anon_set = AnonSetAfter(@, o)]
        /\ disable' = IF o.kind = "disable" THEN disable \cup {o.source} ELSE disable
        /\ phase' = IF o.kind = "invalid" THEN "stopped" ELSE phase
  /\ applied' = applied + 1
  /\ UNCHANGED <<installed, own, option_list, feature_kp, feature_kg, anon_method_name, child, given>>

fails == Databases[installed].fails

wrapper_features ==
  UNION { Databases[installed].features[s] : s \in Source \ disable }

(* Faulty: without a fallback the module is disabled and httpd goes on.     *)
FailureStops_never == FALSE

(* Whether a failure of the databases stops httpd.                          *)
FailureStops == conf[Main].no_fallback

(* Databases that fail disable the module at the main server; post_config   *)
(* goes on with the features as they are.                                   *)
DbWrapperInit ==
  /\ phase = "options" /\ applied = Len(option_list)
  /\ IF fails
     THEN /\ conf' = [conf EXCEPT ![Main].enabled = FALSE]
          /\ phase' = IF FailureStops THEN "stopped" ELSE "method"
          /\ UNCHANGED <<feature_kp, feature_kg>>
     ELSE /\ feature_kp' = (KEEPTYPEASNCC_REQ_DB \subseteq wrapper_features)
          /\ feature_kg' = (KEEPTYPEGEONAMEID_REQ_DB \subseteq wrapper_features)
          /\ phase' = "method"
          /\ UNCHANGED conf
  /\ UNCHANGED <<installed, own, option_list, applied, disable, anon_method_name, child, given>>

(* Faulty: either feature missing is a reason to fall back.                 *)
Lacks_either(s) == s.method = "keep-type-asn-cc" /\ (~feature_kp \/ ~feature_kg)

(* The method is only given up if the databases support neither of the two  *)
(* that keep types, and only keep-type-asn-cc is looked at.                 *)
Lacks(s) == s.method = "keep-type-asn-cc" /\ ~feature_kp /\ ~feature_kg

(* Faulty: the method is named before it falls back.                        *)
Named_before(s) == conf[Main].anon_set.method

Named(s) == s.method

(* Faulty: the setting against a fallback is not looked at.                 *)
FallsBack_always(c) == Lacks(c.anon_set)

FallsBack(c) == Lacks(c.anon_set) /\ ~c.no_fallback

ChooseMethod ==
  /\ phase = "method"
  /\ LET c == conf[Main]
         s == IF FallsBack(c) THEN as ELSE c.anon_set
     IN IF Lacks(c.anon_set) /\ ~FallsBack(c)
        THEN phase' = "stopped" /\ UNCHANGED <<conf, anon_method_name, child, given>>
        ELSE /\ conf' = [conf EXCEPT ![Main].anon_set = s]
             /\ anon_method_name' = Named(s)
             /\ phase' = "running" /\ child' = conf' /\ given' = 0
  /\ UNCHANGED <<installed, own, option_list, applied, disable, feature_kp, feature_kg>>

--------------------------------------------------------------------------------
(* Children.                                                                *)

(* A directive in a .htaccess file changes the record of the request's      *)
(* server in the child's memory, for all that follows.                      *)
Override(h, d) ==
  /\ phase = "running" /\ given < MaxOverrides /\ given' = given + 1
  /\ child' = [child EXCEPT ![Owner(h)] = After(@, d)]
  /\ UNCHANGED <<phase, conf, startup>>

NewChild ==
  /\ phase = "running"
  /\ child' = conf /\ given' = 0
  /\ UNCHANGED <<phase, conf, startup>>

Defaults == [ h \in Vhost |-> Default ]

Init ==
  /\ phase = "config" /\ installed \in Installed /\ own = {Main} /\ given = 0
  /\ conf = Defaults /\ child = Defaults
  /\ option_list = <<>> /\ applied = 0 /\ disable = {}
  /\ feature_kp = FALSE /\ feature_kg = FALSE /\ anon_method_name = "-"

(* httpd reads its configuration twice when it starts, and once more at     *)
(* each restart, always with the module loaded anew; files may have changed.*)
Restart ==
  /\ phase = "running"
  /\ phase' = "config" /\ installed' \in Installed /\ own' = {Main} /\ given' = 0
  /\ conf' = Defaults /\ child' = Defaults
  /\ option_list' = <<>> /\ applied' = 0 /\ disable' = {}
  /\ feature_kp' = FALSE /\ feature_kg' = FALSE /\ anon_method_name' = "-"

Next ==
  \/ \E h \in Vhost : \/ \E d \in Directive : Configure(h, d) \/ Override(h, d)
                      \/ \E o \in Option : ConfigureOption(h, o)
  \/ NotEnabled \/ SupportInit \/ ApplyOption \/ DbWrapperInit \/ ChooseMethod
  \/ NewChild \/ Restart

Spec == Init /\ [][Next]_vars

--------------------------------------------------------------------------------
(* Properties.                                                              *)

(* What every variable holds; above all, no directive in any place gives a  *)
(* server, or a server in a child, a cache limit the arrays do not have.    *)
TypeOK ==
  /\ phase \in {"config", "options", "method", "running", "stopped"}
  /\ installed \in Installed /\ own \in SUBSET Vhost /\ Main \in own
  /\ conf \in [Vhost -> Server] /\ child \in [Vhost -> Server]
  /\ option_list \in Seq(Option) /\ Len(option_list) <= OptionsMax
  /\ applied \in 0 .. Len(option_list) /\ disable \in SUBSET Source
  /\ feature_kp \in BOOLEAN /\ feature_kg \in BOOLEAN
  /\ anon_method_name \in Method \cup {"-"} /\ given \in Nat

(* The method the first n options ask for: that of the last one which names *)
(* a method, or the default.                                                *)
MethodOf(o) == IF o.kind = "preset" THEN o.set.method ELSE o.method

Asked(n) ==
  LET naming == { i \in 1 .. n : option_list[i].kind \in {"preset", "method"} }
  IN IF naming = {} THEN "anonymize"
     ELSE MethodOf(option_list[CHOOSE i \in naming : \A j \in naming : j <= i])

(* A server that is started without fallback uses the method it was asked   *)
(* for.                                                                     *)
NoFallbackKeepsMethod ==
  phase = "running" /\ conf[Main].enabled /\ conf[Main].no_fallback =>
    conf[Main].anon_set.method = Asked(Len(option_list))

(* Another method than the one asked for is only ever the standard one, in  *)
(* place of keep-type-asn-cc, when the databases lack something of it.      *)
FallbackOnlyWhenNeeded ==
  phase = "running" /\ conf[Main].enabled
    /\ conf[Main].anon_set.method # Asked(Len(option_list)) =>
       /\ conf[Main].anon_set = as
       /\ Asked(Len(option_list)) = "keep-type-asn-cc"
       /\ ~(KEEPTYPEASNCC_REQ_DB \subseteq wrapper_features)

(* The method told to requests is the one the main server uses.             *)
MethodIsNamed ==
  phase = "running" /\ conf[Main].enabled => anon_method_name = conf[Main].anon_set.method

(* Told not to fall back, httpd never runs with databases that fail, unless *)
(* the module was not enabled at all (no method is named then); not told    *)
(* so, it is never stopped for want of databases.                           *)
StopsAsAsked ==
  /\ phase = "running" /\ conf[Main].no_fallback /\ fails => anon_method_name = "-"
  /\ phase = "stopped" /\ ~conf[Main].no_fallback =>
       \/ Len(option_list) = OptionsMax
       \/ applied > 0 /\ option_list[applied].kind = "invalid"

================================================================================
