-------------------------------- MODULE LogAnon --------------------------------
(***************************************************************************)
(* ipv6loganon: for each line of a log the first token is anonymized, by   *)
(* way of a cache of the tokens inserted last, and the line is printed     *)
(* with the result in its place.  A line whose first token is no address   *)
(* is dropped.                                                             *)
(*                                                                         *)
(* The four address structures are local variables of anonymizetoken.  It  *)
(* marks those of IPv6 and IPv4 invalid, then fills the one that fits the  *)
(* token, then takes the first valid one in the order IPv6, IPv4, EUI-64,  *)
(* MAC.  What the EUI-64 structure holds on entry is what an earlier call  *)
(* of this or of another function left on the stack.                       *)
(***************************************************************************)
EXTENDS RingCache

CONSTANTS
  Tokens,         \* first tokens of the lines
  Kind,           \* what the token is detected as and parsed to: "ipv4",
                  \*   "ipv6", "eui64", "mac", or "none" of these
  Texts,          \* what can be printed in place of a token
  Anonymous,      \* the anonymized token
  Leftover,       \* what other functions may leave in the EUI-64 structure
  None,           \* an empty slot, an invalid structure, no line
  cache_lru_limit,
  CACHE_LRU_SIZE,
  flag_nocache

VARIABLES
  cache_lru_max, cache_lru_last,
  cache_lru_key_token, cache_lru_value, cache_lru_statistics,
  eui64addr,      \* the structure, as the text it would be printed as
  line            \* the last line: its token, and what was printed for it

cacheVars == <<cache_lru_max, cache_lru_last, cache_lru_key_token, cache_lru_value>>
logVars == <<cacheVars, cache_lru_statistics, eui64addr, line>>

Slot == 1 .. CACHE_LRU_SIZE
Distance == 0 .. (CACHE_LRU_SIZE - 1)

LogInit ==
  /\ cache_lru_max = 0
  /\ cache_lru_last = 0
  /\ cache_lru_key_token = [s \in Slot |-> None]
  /\ cache_lru_value = [s \in Slot |-> None]
  /\ cache_lru_statistics = [d \in Distance |-> 0]
  /\ eui64addr \in Leftover
  /\ line = [token |-> None, printed |-> None]

Emit(t, text) == line' = [token |-> t, printed |-> text]

Found(t) == Matches(cache_lru_key_token, cache_lru_max, cache_lru_last, t)

(* A faulty form: the slot is counted instead of its distance.              *)
CountHit_slot(d) ==
  cache_lru_statistics' =
    [cache_lru_statistics EXCEPT ![SlotAt(cache_lru_max, cache_lru_last, d)] = @ + 1]

CountHit(d) == cache_lru_statistics' = [cache_lru_statistics EXCEPT ![d] = @ + 1]

(* The token is in the cache.                                               *)
Hit(t) ==
  /\ ~ flag_nocache
  /\ Found(t) # {}
  /\ LET d == Nearest(Found(t)) IN
       /\ Emit(t, cache_lru_value[SlotAt(cache_lru_max, cache_lru_last, d)])
       /\ CountHit(d)
  /\ UNCHANGED <<cacheVars, eui64addr>>

Missed(t) == flag_nocache \/ Found(t) = {}

(* A faulty form: the result goes where the last one went.                  *)
Store_stays(t, text) ==
  /\ cache_lru_max' = NextMax(cache_lru_max, cache_lru_limit)
  /\ cache_lru_last' = NextLast(cache_lru_max, cache_lru_last, cache_lru_limit)
  /\ cache_lru_key_token' = [cache_lru_key_token EXCEPT ![cache_lru_last'] = t]
  /\ cache_lru_value' =
       [cache_lru_value EXCEPT ![IF cache_lru_last = 0 THEN 1 ELSE cache_lru_last] = text]

Store(t, text) ==
  IF flag_nocache THEN UNCHANGED cacheVars
  ELSE /\ cache_lru_max' = NextMax(cache_lru_max, cache_lru_limit)
       /\ cache_lru_last' = NextLast(cache_lru_max, cache_lru_last, cache_lru_limit)
       /\ cache_lru_key_token' = [cache_lru_key_token EXCEPT ![cache_lru_last'] = t]
       /\ cache_lru_value' = [cache_lru_value EXCEPT ![cache_lru_last'] = text]

Insert(t, text) ==
  /\ Store(t, text)
  /\ Emit(t, text)
  /\ UNCHANGED cache_lru_statistics

(* The structure of the token's own kind is the first valid one.            *)
AnonymizeIp(t) ==
  /\ Missed(t)
  /\ Kind[t] \in {"ipv4", "ipv6"}
  /\ Insert(t, Anonymous[t])
  /\ UNCHANGED eui64addr

AnonymizeEui64(t) ==
  /\ Missed(t)
  /\ Kind[t] = "eui64"
  /\ Insert(t, Anonymous[t])
  /\ eui64addr' = Anonymous[t]

(* A MAC address comes after the EUI-64 structure, which nothing has marked *)
(* invalid: it still holds what the last call left, unless another function *)
(* has used that part of the stack since.  The second anonymization of what *)
(* is in there changes nothing.                                             *)
AnonymizeMac(t) ==
  /\ Missed(t)
  /\ Kind[t] = "mac"
  /\ \E held \in {eui64addr} \cup Leftover :
       /\ Insert(t, IF held = None THEN Anonymous[t] ELSE held)
       /\ eui64addr' = held

(* A faulty form: a line without an address is passed on as it is.          *)
Drop_passes(t) ==
  /\ Missed(t)
  /\ Kind[t] = "none"
  /\ Emit(t, t)
  /\ UNCHANGED <<cacheVars, cache_lru_statistics, eui64addr>>

(* Not an address, or one that cannot be parsed: the line is lost.          *)
Drop(t) ==
  /\ Missed(t)
  /\ Kind[t] = "none"
  /\ Emit(t, None)
  /\ UNCHANGED <<cacheVars, cache_lru_statistics, eui64addr>>

anonymizetoken(t) ==
  \/ Hit(t)
  \/ AnonymizeIp(t)
  \/ AnonymizeEui64(t)
  \/ AnonymizeMac(t)
  \/ Drop(t)

LogNext == \E t \in Tokens : anonymizetoken(t)

LogSpec == LogInit /\ [][LogNext]_logVars

--------------------------------------------------------------------------------
ASSUME LimitAssumption ==
  /\ cache_lru_limit \in Nat \ {0}
  /\ CACHE_LRU_SIZE \in Nat
  /\ cache_lru_limit <= CACHE_LRU_SIZE
  /\ flag_nocache \in BOOLEAN

ASSUME TokensAssumption ==
  /\ None \notin Tokens \cup Texts
  /\ Kind \in [Tokens -> {"ipv4", "ipv6", "eui64", "mac", "none"}]
  /\ Anonymous \in [Tokens -> Texts]
  /\ Leftover \subseteq Texts \cup {None}

--------------------------------------------------------------------------------
LogTypeOK ==
  /\ cache_lru_max \in 0 .. cache_lru_limit
  /\ cache_lru_last \in 0 .. cache_lru_limit
  /\ cache_lru_key_token \in [Slot -> Tokens \cup {None}]
  /\ cache_lru_value \in [Slot -> Texts \cup {None}]
  /\ cache_lru_statistics \in [Distance -> Nat]
  /\ eui64addr \in Texts \cup {None}
  /\ line \in [token : Tokens \cup {None}, printed : Texts \cup {None}]

(* The slots 1 to max are filled and no other; each token is in one slot at *)
(* most, so that an address is anonymized once while it stays in the cache. *)
Filled == { s \in Slot : cache_lru_key_token[s] # None }

OneSlotPerToken ==
  /\ Filled = 1 .. cache_lru_max
  /\ \A s, u \in Filled : cache_lru_key_token[s] = cache_lru_key_token[u] => s = u

(* The cache changes nothing but the speed: what is printed for a token     *)
(* does not depend on the lines before it.  (A MAC address is the           *)
(* exception.)                                                              *)
Faithful(t, text) ==
  CASE Kind[t] = "none" -> text = None
    [] Kind[t] \in {"ipv4", "ipv6", "eui64"} -> text = Anonymous[t]
    [] OTHER -> text # None

CacheIsTransparent == line.token # None => Faithful(line.token, line.printed)

(* "set addresses to invalid" (ipv6loganon.c:473), as the comment has it    *)
(* for all four structures: a MAC address is printed as a MAC address.      *)
EachTokenOnItsOwn ==
  line.token # None /\ Kind[line.token] # "none" => line.printed = Anonymous[line.token]

(* The statistics are kept and printed for the distances below the limit:   *)
(* no hit is counted where the report does not look.                        *)
HitsAreReported ==
  \A d \in Distance : cache_lru_statistics[d] > 0 => d < cache_lru_max /\ d < cache_lru_limit

================================================================================
