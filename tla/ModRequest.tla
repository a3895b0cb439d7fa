------------------------------ MODULE ModRequest ------------------------------
(***************************************************************************)
(* mod_ipv6calc's fixup hook (ipv6calc_post_read_request) and the cache of *)
(* one httpd child process.  A request arrives at a virtual host; the hook *)
(* leaves seven variables in the request's environment.  The cache is a    *)
(* static of the process, so every virtual host uses the same one, each    *)
(* under its own configuration.  A child serves one request at a time      *)
(* here, as under the prefork MPM.                                         *)
(***************************************************************************)
EXTENDS Integers, RingCache

CONSTANTS
  Vhost,          \* the virtual hosts
  Main,           \* the main server, the one post_config was called for
  Configurations, \* the configurations [Vhost -> Config] to start from
  Addr4, Addr6,   \* IPv4 and IPv6 addresses, each standing for its text
  MappedOf,       \* [Addr6 -> Addr4 \cup {NoAddr}]: the IPv4 half of ::ffff:a.b.c.d
  IncludedOf,     \* [Addr6 -> Addr4 \cup {NoAddr}]: the public IPv4 a 6to4 (...) holds
  Global,         \* the addresses whose typeinfo has the GLOBAL bit
  Db,             \* [Addr -> [Retrieved -> Text]]: what the database wrapper answers
  RegistryResult, \* [Addr -> 0 .. 2]: the result code of the registry lookup
  Anon,           \* the anonymization settings a server may have
  Text,           \* what a variable or a slot may hold
  AnonText,       \* [Anon -> [Addr -> Text]]: the address anonymized
  MethodName,     \* [Anon -> Text]: the method's name
  Size,           \* IPV6CALC_CACHE_LRI_SIZE, the length of the cache arrays
  NoAddr,         \* no address: an empty slot, no IPv4 half
  MaxChecked      \* bound: the lookups a child counts before it is replaced

Addr  == Addr4 \cup Addr6
Proto == {"IPv4", "IPv6"}

(* The data a request can be told; each has an ipv6calcAction directive.    *)
Retrieved == {"COUNTRYCODE", "ASN", "REGISTRY", "GEONAMEID"}
Action    == Retrieved \cup {"IP_ANON"}
EnvVar    == Action \cup {"IP", "ANON_METHOD"}
Unset     == "(not in the environment)"

(* The per server configuration, as far as requests depend on it; source:   *)
(* ipv6calcSourceEnvName names a variable.                                  *)
Config ==
  [ enabled : BOOLEAN, default_active : BOOLEAN, source : BOOLEAN,
    cache : BOOLEAN, cache_limit : 1 .. Size,
    actions : SUBSET Action, anon_set : Anon ]

(* A client address as the socket or the environment gives it.              *)
Client ==
  [ family : {"inet"}, addr : Addr4 ] \cup [ family : {"inet6"}, addr : Addr6 ]
    \cup [ family : {"other"}, addr : {NoAddr} ]

(* flag: the environment variable ipv6calcActive (or ipv6calcPassive) that  *)
(* the configuration asks about is there.                                   *)
Request ==
  [ vhost : Vhost, client : Client, flag : BOOLEAN,
    source_env : Client \cup [ family : {"unset", "unparsable"}, addr : {NoAddr} ] ]

ASSUME NoAddrAssumption == NoAddr \notin Addr
ASSUME SizeAssumption == Size \in Nat \ {0}
ASSUME MaxCheckedAssumption == MaxChecked \in Nat
ASSUME MainAssumption == Main \in Vhost
(* The main server is enabled: post_config initialised the databases.       *)
ASSUME ConfigurationsAssumption ==
  Configurations \subseteq { c \in [Vhost -> Config] : c[Main].enabled }
ASSUME AddressAssumption ==
  /\ Addr4 \cap Addr6 = {}
  /\ MappedOf \in [Addr6 -> Addr4 \cup {NoAddr}]
  /\ IncludedOf \in [Addr6 -> Addr4 \cup {NoAddr}]
ASSUME TextAssumption ==
  /\ {"", "-"} \subseteq Text
  /\ Db \in [Addr -> [Retrieved -> Text]]
  /\ RegistryResult \in [Addr -> 0 .. 2]
  /\ AnonText \in [Anon -> [Addr -> Text]]
  /\ MethodName \in [Anon -> Text]

VARIABLES
  conf,           \* the configuration of each server, fixed once httpd runs
  lri_max, lri_last, lri_checked, lri_statistics,   \* [Proto -> ...]
  lri_token,      \* [Proto -> [1 .. Size -> Addr \cup {NoAddr}]]
  lri_value,      \* [Proto -> [1 .. Size -> [Action -> Text]]]
  response        \* the request answered last and the environment it got

cacheVars == <<lri_max, lri_last, lri_checked, lri_statistics, lri_token, lri_value>>
vars == <<conf, cacheVars, response>>

--------------------------------------------------------------------------------
(* Which address a request is about.                                        *)

(* The source variable's address, if it is one, else the client's.         *)
Peer(r) ==
  IF conf[r.vhost].source /\ r.source_env \in Client THEN r.source_env ELSE r.client

IsMapped(c) == c.family = "inet6" /\ MappedOf[c.addr] # NoAddr

ProtoOf(c) == IF c.family = "inet" \/ IsMapped(c) THEN "IPv4" ELSE "IPv6"

(* What the cache is asked for: a mapped address counts as its IPv4 half.   *)
Token(c) == IF IsMapped(c) THEN MappedOf[c.addr] ELSE c.addr

--------------------------------------------------------------------------------
(* What the hook computes when the cache does not know the address.         *)

HoldsIPv4(a) == a \in Addr6 /\ IncludedOf[a] # NoAddr

(* The address the databases are asked about.                               *)
Subject(a) ==
  IF HoldsIPv4(a) /\ IncludedOf[a] \in Global THEN IncludedOf[a] ELSE a

(* The data that is looked up at all, whatever the actions.                 *)
Retrievable(a) ==
  IF HoldsIPv4(a)
  THEN {"REGISTRY", "GEONAMEID"}
         \cup (IF IncludedOf[a] \in Global THEN {"COUNTRYCODE", "ASN"} ELSE {})
  ELSE {"REGISTRY"} \cup (IF a \in Global THEN Retrieved ELSE {})

ResultRegistry(c, a) ==
  IF "REGISTRY" \in c.actions \cap Retrievable(a)
  THEN RegistryResult[Subject(a)] ELSE -1

(* Whether a datum is taken from the databases: the country code and the    *)
(* registry when there is one, the GeonameID depending on the result of the *)
(* registry lookup.                                                         *)
Known(c, f, a) ==
  /\ f \in Retrievable(a)
  /\ f = "COUNTRYCODE" => Db[Subject(a)][f] # ""
  /\ f = "REGISTRY" => ResultRegistry(c, a) \in {0, 2} /\ Db[Subject(a)][f] # ""
  /\ f = "GEONAMEID" => ResultRegistry(c, a) = 0

(* The text of one datum under configuration c.                             *)
Datum(c, f, a) ==
  IF f = "IP_ANON" THEN AnonText[c.anon_set][a]
  ELSE IF Known(c, f, a) THEN Db[Subject(a)][f] ELSE "-"

(* Named once, by post_config, after the main server's settings.            *)
AnonMethodName == MethodName[conf[Main].anon_set]

MissEnv(h, peer) ==
  LET c == conf[h]
  IN [ v \in EnvVar |->
         CASE v = "IP"          -> peer.addr
           [] v = "ANON_METHOD" -> IF "IP_ANON" \in c.actions THEN AnonMethodName ELSE "disabled"
           [] OTHER -> IF v \in c.actions THEN Datum(c, v, Token(peer)) ELSE "disabled" ]

(* Faulty: the newest slot answers.                                         *)
HitEnv_newest(h, peer, slot) ==
  [ MissEnv(h, peer) EXCEPT
      !["IP_ANON"] = lri_value[ProtoOf(peer)][lri_last[ProtoOf(peer)]]["IP_ANON"] ]

(* A hit answers the configured actions only, from the slot it found.       *)
HitEnv(h, peer, slot) ==
  LET c == conf[h]
  IN [ v \in EnvVar |->
         CASE v = "IP"          -> peer.addr
           [] v = "ANON_METHOD" -> IF "IP_ANON" \in c.actions THEN AnonMethodName ELSE Unset
           [] OTHER -> IF v \in c.actions THEN lri_value[ProtoOf(peer)][slot][v] ELSE Unset ]

(* Faulty: a slot's old data is not overwritten.                            *)
Stored_onlyFirst(h, peer, old) ==
  [ f \in Action |->
      IF f \in conf[h].actions /\ old[f] = "" THEN Datum(conf[h], f, Token(peer)) ELSE old[f] ]

(* Faulty: a slot is given the configured data and no other field.          *)
Stored_configuredOnly(h, peer, old) ==
  [ f \in conf[h].actions |-> Datum(conf[h], f, Token(peer)) ]

(* What a miss leaves in the slot: the configured actions' data; the rest   *)
(* of the slot keeps what the previous occupant left there.                 *)
Stored(h, peer, old) ==
  [ f \in Action |->
      IF f \in conf[h].actions THEN Datum(conf[h], f, Token(peer)) ELSE old[f] ]

--------------------------------------------------------------------------------
(* The paths through the hook.                                              *)

NoPeer == [ family |-> "other", addr |-> NoAddr ]

Answer(r, kind, peer, env) ==
  response' = [ kind |-> kind, vhost |-> r.vhost, peer |-> peer, env |-> env ]

AllVars(text) == [ v \in EnvVar |-> text ]

(* Not enabled at this server: the environment is left alone.  As in the    *)
(* passive case, the hook has not looked at the address yet.                *)
Disabled(r) ==
  /\ ~conf[r.vhost].enabled
  /\ Answer(r, "disabled", NoPeer, AllVars(Unset))
  /\ UNCHANGED <<conf, cacheVars>>

IsActive(r) ==
  /\ conf[r.vhost].enabled
  /\ conf[r.vhost].default_active # r.flag

(* Not active by default and not activated, or active by default and made   *)
(* passive: every variable gets the text that says so.                      *)
Passive(r) ==
  /\ conf[r.vhost].enabled /\ ~IsActive(r)
  /\ Answer(r, "passive", NoPeer,
            AllVars(IF conf[r.vhost].default_active THEN "-PbE-" ELSE "-PbD-"))
  /\ UNCHANGED <<conf, cacheVars>>

(* Neither IPv4 nor IPv6: only the address itself is set.                   *)
UnsupportedFamily(r) ==
  /\ IsActive(r) /\ Peer(r).family = "other"
  /\ Answer(r, "unsupported", Peer(r), [ AllVars(Unset) EXCEPT !["IP"] = Peer(r).addr ])
  /\ UNCHANGED <<conf, cacheVars>>

(* A request the hook looks up data for; with the cache on, it first asks   *)
(* the cache unless that is still empty.                                    *)
Served(r) == IsActive(r) /\ Peer(r).family # "other"
Caching(r) == Served(r) /\ conf[r.vhost].cache

Found(r) ==
  LET p == ProtoOf(Peer(r))
  IN Matches(lri_token[p], lri_max[p], lri_last[p], Token(Peer(r)))

(* A lookup in a ring that is not empty is counted.                         *)
CountLookup(p) ==
  /\ lri_max[p] > 0 => lri_checked["IPv4"] + lri_checked["IPv6"] < MaxChecked
  /\ lri_checked' =
       [ lri_checked EXCEPT ![p] = IF lri_max[p] > 0 THEN @ + 1 ELSE @ ]

(* Faulty: the slot is counted in place of the distance.                    *)
CacheHit_countsSlot(r) ==
  LET p    == ProtoOf(Peer(r))
      slot == SlotAt(lri_max[p], lri_last[p], Nearest(Found(r)))
  IN /\ Caching(r) /\ Found(r) # {}
     /\ CountLookup(p)
     /\ lri_statistics' = [ lri_statistics EXCEPT ![p][slot] = @ + 1 ]
     /\ Answer(r, "hit", Peer(r), HitEnv(r.vhost, Peer(r), slot))
     /\ UNCHANGED <<conf, lri_max, lri_last, lri_token, lri_value>>

(* The nearest matching slot answers and its distance is counted.           *)
CacheHit(r) ==
  LET p == ProtoOf(Peer(r))
      d == Nearest(Found(r))
  IN /\ Caching(r) /\ Found(r) # {}
     /\ CountLookup(p)
     /\ lri_statistics' = [ lri_statistics EXCEPT ![p][d] = @ + 1 ]
     /\ Answer(r, "hit", Peer(r),
               HitEnv(r.vhost, Peer(r), SlotAt(lri_max[p], lri_last[p], d)))
     /\ UNCHANGED <<conf, lri_max, lri_last, lri_token, lri_value>>

(* The next slot takes the address, then the data as it is retrieved.       *)
CacheMiss(r) ==
  LET p     == ProtoOf(Peer(r))
      limit == conf[r.vhost].cache_limit
      slot  == NextLast(lri_max[p], lri_last[p], limit)
  IN /\ Caching(r) /\ Found(r) = {}
     /\ CountLookup(p)
     /\ lri_max'   = [ lri_max   EXCEPT ![p] = NextMax(@, limit) ]
     /\ lri_last'  = [ lri_last  EXCEPT ![p] = slot ]
     /\ lri_token' = [ lri_token EXCEPT ![p][slot] = Token(Peer(r)) ]
     /\ lri_value' = [ lri_value EXCEPT ![p][slot] = Stored(r.vhost, Peer(r), @) ]
     /\ Answer(r, "served", Peer(r), MissEnv(r.vhost, Peer(r)))
     /\ UNCHANGED <<conf, lri_statistics>>

(* Cache switched off at this server: everything is computed, nothing kept. *)
Uncached(r) ==
  /\ Served(r) /\ ~conf[r.vhost].cache
  /\ Answer(r, "served", Peer(r), MissEnv(r.vhost, Peer(r)))
  /\ UNCHANGED <<conf, cacheVars>>

(* The statics of a fresh process.                                          *)
Zero         == [ p \in Proto |-> 0 ]
NoStatistics == [ p \in Proto |-> [ d \in 0 .. (Size - 1) |-> 0 ] ]
NoTokens     == [ p \in Proto |-> [ i \in 1 .. Size |-> NoAddr ] ]
NoValues     == [ p \in Proto |-> [ i \in 1 .. Size |-> [ f \in Action |-> "" ] ] ]

NoResponse ==
  [ kind |-> "none", vhost |-> Main, peer |-> NoPeer, env |-> AllVars(Unset) ]

(* httpd replaces the child process: the statics start as in a new one.     *)
NewChild ==
  /\ lri_max' = Zero /\ lri_last' = Zero /\ lri_checked' = Zero
  /\ lri_statistics' = NoStatistics /\ lri_token' = NoTokens /\ lri_value' = NoValues
  /\ response' = NoResponse
  /\ UNCHANGED conf

Init ==
  /\ conf \in Configurations
  /\ lri_max = Zero /\ lri_last = Zero /\ lri_checked = Zero
  /\ lri_statistics = NoStatistics /\ lri_token = NoTokens /\ lri_value = NoValues
  /\ response = NoResponse

Handle(r) ==
  \/ Disabled(r) \/ Passive(r) \/ UnsupportedFamily(r)
  \/ CacheHit(r) \/ CacheMiss(r) \/ Uncached(r)

(* The address that is not used can be anything, so one stands for all: a   *)
(* server that names no source variable reads none, and one that finds an   *)
(* address there does not look at the socket's.                             *)
Next ==
  \/ \E r \in Request :
       /\ IF conf[r.vhost].source THEN r.source_env \in Client => r.client = r.source_env
          ELSE r.source_env.family = "unset"
       /\ Handle(r)
  \/ NewChild

Spec == Init /\ [][Next]_vars

--------------------------------------------------------------------------------
(* What a configuration has to agree on before the shared cache can work.   *)

CachingHosts(c) == { h \in Vhost : c[h].enabled /\ c[h].cache }

SameLimit(c) == \A g, h \in CachingHosts(c) : c[g].cache_limit = c[h].cache_limit

SameContents(c) ==
  \A g, h \in CachingHosts(c) :
    c[g].actions = c[h].actions /\ c[g].anon_set = c[h].anon_set

LimitInUse ==
  IF CachingHosts(conf) = {} THEN Size
  ELSE conf[CHOOSE h \in CachingHosts(conf) : TRUE].cache_limit

Slots(p) == 1 .. lri_max[p]

--------------------------------------------------------------------------------
(* Properties.                                                              *)

(* Every variable holds a value of its kind.                                *)
TypeOK ==
  /\ conf \in Configurations
  /\ lri_max \in [Proto -> Nat] /\ lri_last \in [Proto -> Nat]
  /\ lri_checked \in [Proto -> Nat]
  /\ lri_statistics \in [Proto -> [0 .. (Size - 1) -> Nat]]
  /\ lri_token \in [Proto -> [1 .. Size -> Addr \cup {NoAddr}]]
  /\ lri_value \in [Proto -> [1 .. Size -> [Action -> Text]]]
  /\ response.kind \in {"none", "disabled", "passive", "unsupported", "hit", "served"}
  /\ response.vhost \in Vhost /\ response.peer \in Client

(* Servers that agree on the limit: the ring never outgrows it, its newest  *)
(* slot is a filled one, it only wraps once it is full, and the filled      *)
(* slots are exactly the first ones.                                        *)
RingIntact ==
  \A p \in Proto :
    /\ lri_max[p] \in 0 .. LimitInUse
    /\ lri_last[p] \in 0 .. lri_max[p]
    /\ lri_last[p] = 0 => lri_max[p] = 0
    /\ lri_max[p] < LimitInUse => lri_last[p] = lri_max[p]
    /\ \A i \in 1 .. Size : lri_token[p][i] # NoAddr <=> i \in Slots(p)

(* No address takes up two slots of its ring, however it reached the        *)
(* server (directly, mapped, or through the environment).                   *)
NoDuplicates ==
  \A p \in Proto : \A i, j \in Slots(p) : lri_token[p][i] = lri_token[p][j] => i = j

(* Servers that agree on the contents: what a slot holds for a configured   *)
(* action is what a lookup of the slot's address gives.                     *)
SlotsFresh ==
  \A p \in Proto : \A i \in Slots(p) : \A h \in CachingHosts(conf) :
    \A f \in conf[h].actions : lri_value[p][i][f] = Datum(conf[h], f, lri_token[p][i])

(* The cache cannot be seen in the configured actions' variables: they are  *)
(* what an uncached server would have answered.                             *)
HitIsTransparent ==
  response.kind = "hit" =>
    LET c == conf[response.vhost]
    IN \A v \in {"IP"} \cup c.actions \cup (IF "IP_ANON" \in c.actions THEN {"ANON_METHOD"} ELSE {}) :
         response.env[v] = MissEnv(response.vhost, response.peer)[v]

(* A counted distance is one a hit can have: smaller than the number of     *)
(* filled slots.                                                            *)
DistancesInRange ==
  \A p \in Proto : \A d \in 0 .. (Size - 1) : lri_statistics[p][d] > 0 => d < lri_max[p]

(* The rings implement the list of the newest addresses.                    *)
AddressList ==
  [ p \in Proto |->
      [ n \in 1 .. lri_max[p] |-> lri_token[p][SlotAt(lri_max[p], lri_last[p], n - 1)] ] ]

List == INSTANCE LriList WITH
          Owner <- Proto, Key <- Addr, limit <- LimitInUse, newest <- AddressList

ImplementsList == List!Spec

--------------------------------------------------------------------------------
(* What the documentation says, which some configuration refutes.           *)

(* A datum is about the address the request came from.                      *)
DataIsThisAddress ==
  response.kind \in {"hit", "served"} =>
    \A f \in Retrieved \cap conf[response.vhost].actions :
      response.env[f] = Datum(conf[response.vhost], f, Token(response.peer))

================================================================================
