---------------------------- MODULE DbWrapper_proofs ----------------------------
(***************************************************************************)
(* Proofs about the database wrapper, for any databases, addresses and     *)
(* options: what the lookups remember is what the databases say, so that   *)
(* the wrapper is a service whose answers depend on the question alone.    *)
(***************************************************************************)
EXTENDS DbWrapper, FiniteSetTheorems, TLAPS

--------------------------------------------------------------------------------
(* The files of an installation have their types.                           *)
LEMMA FilesTyped ==
  ASSUME installed \in Installed
  PROVE  files \in [Source -> File]
BY DatabasesAssumption DEF files

(* The first of some sources, in the order of priority: it is one of them,  *)
(* none of them is at a place before it, and there is none only if none of  *)
(* them has a place at all.                                                 *)
LEMMA FirstOfIsFirst ==
  ASSUME NEW S, S \subseteq Source
  PROVE  \/ /\ FirstOf(S) \in S
            /\ \E n \in Source :
                 /\ priority_selector[n] = FirstOf(S)
                 /\ \A m \in 1 .. (n - 1) : priority_selector[m] \notin S
         \/ /\ FirstOf(S) = UNKNOWN
            /\ \A n \in Source : priority_selector[n] \notin S
<1> DEFINE At(n) == priority_selector[n] \in S
           First(n) == At(n) /\ \A m \in 1 .. (n - 1) : ~At(m)
<1>1. CASE \A n \in Source : ~At(n)
  BY <1>1 DEF FirstOf
<1>2. CASE \E n \in Source : At(n)
  <2>1. \E n \in Source : First(n)
    <3>1. PICK n \in 1 .. 6 : At(n)
      BY <1>2 DEF Source
    <3> HIDE DEF At
    <3>2. CASE At(1)
      BY <3>2 DEF Source
    <3>3. CASE ~At(1) /\ At(2)
      BY <3>3 DEF Source
    <3>4. CASE ~At(1) /\ ~At(2) /\ At(3)
      BY <3>4 DEF Source
    <3>5. CASE ~At(1) /\ ~At(2) /\ ~At(3) /\ At(4)
      BY <3>5 DEF Source
    <3>6. CASE ~At(1) /\ ~At(2) /\ ~At(3) /\ ~At(4) /\ At(5)
      BY <3>6 DEF Source
    <3>7. CASE ~At(1) /\ ~At(2) /\ ~At(3) /\ ~At(4) /\ ~At(5) /\ At(6)
      BY <3>7 DEF Source
    <3> QED
      BY <3>1, <3>2, <3>3, <3>4, <3>5, <3>6, <3>7
  <2> DEFINE c == CHOOSE n \in Source : First(n)
  <2>2. c \in Source /\ First(c)
    BY <2>1
  <2>3. FirstOf(S) = priority_selector[c]
    BY <1>2 DEF FirstOf
  <2> QED
    BY <2>2, <2>3
<1> QED
  BY <1>1, <1>2

(* Likewise the last of some sources is one of them.                        *)
LEMMA LastOfIsOne ==
  ASSUME NEW S, \E n \in Source : priority_selector[n] \in S
  PROVE  LastOf(S) \in S
<1> DEFINE At(n) == priority_selector[n] \in S
           Final(n) == At(n) /\ \A m \in (n + 1) .. 6 : ~At(m)
<1>1. \E n \in Source : Final(n)
  <2>1. PICK n \in 1 .. 6 : At(n)
    BY DEF Source
  <2> HIDE DEF At
  <2>2. CASE At(6)
    BY <2>2 DEF Source
  <2>3. CASE ~At(6) /\ At(5)
    BY <2>3 DEF Source
  <2>4. CASE ~At(6) /\ ~At(5) /\ At(4)
    BY <2>4 DEF Source
  <2>5. CASE ~At(6) /\ ~At(5) /\ ~At(4) /\ At(3)
    BY <2>5 DEF Source
  <2>6. CASE ~At(6) /\ ~At(5) /\ ~At(4) /\ ~At(3) /\ At(2)
    BY <2>6 DEF Source
  <2>7. CASE ~At(6) /\ ~At(5) /\ ~At(4) /\ ~At(3) /\ ~At(2) /\ At(1)
    BY <2>7 DEF Source
  <2> QED
    BY <2>1, <2>2, <2>3, <2>4, <2>5, <2>6, <2>7
<1> DEFINE c == CHOOSE n \in Source : Final(n)
<1>2. Final(c)
  BY <1>1
<1>3. LastOf(S) = priority_selector[c]
  BY DEF LastOf
<1> QED
  BY <1>2, <1>3

(* Whoever answers is one of the sources asked, and knows.                  *)
LEMMA AnswererKnows ==
  ASSUME TypeOK, NEW k \in Kind, NEW a \in Addr
  PROVE  /\ Answerer(k, a) \in Told
         /\ Answerer(k, a) # UNKNOWN =>
              Answerer(k, a) \in Asked(k, a) /\ Knows(Answerer(k, a), k, a)
<1>1. Asked(k, a) \subseteq Source
  BY AddrAssumption DEF TypeOK, Asked, Feature
<1> DEFINE S == { s \in Asked(k, a) : Knows(s, k, a) }
<1>2. S \subseteq Source
  BY <1>1
<1>3. FirstOf(S) \in S \/ FirstOf(S) = UNKNOWN
  BY <1>2, FirstOfIsFirst
<1>4. Answerer(k, a) = UNKNOWN \/ Answerer(k, a) = FirstOf(S)
  BY DEF Answerer
<1> QED
  BY <1>1, <1>3, <1>4 DEF Told

(* What the databases have is of the types of the answers.                  *)
LEMMA AnswersTyped ==
  ASSUME TypeOK, NEW a \in Addr
  PROVE  /\ CcByAddr(a) \in (0 .. 935) \cup {COUNTRYCODE_INDEX_UNKNOWN}
         /\ AsByAddr(a) \in Nat
         /\ GeoByAddr(a).id \in Nat /\ GeoByAddr(a).type \in 0 .. 5
         /\ RegistryByAddr(a) \in 0 .. 15
<1>0. files \in [Source -> File]
  BY FilesTyped DEF TypeOK
<1>1. CcByAddr(a) \in (0 .. 935) \cup {COUNTRYCODE_INDEX_UNKNOWN}
  BY DEF CcByAddr, IndexOf
<1>2. AsByAddr(a) \in Nat
  <2>1. Answerer("AS", a) \in Told
    BY AnswererKnows DEF Kind
  <2>2. \A s \in Source : Asn(s, a) \in Nat
    BY <1>0 DEF Asn, File, AS_UNKNOWN
  <2> QED
    BY <2>1, <2>2 DEF AsByAddr, Told, AS_UNKNOWN
<1>3. GeoByAddr(a).id \in Nat /\ GeoByAddr(a).type \in 0 .. 5
  <2>1. Answerer("GEONAMEID", a) \in Told
    BY AnswererKnows DEF Kind
  <2>2. \A s \in Source : Geo(s, a).id \in Nat /\ Geo(s, a).type \in 0 .. 5
    BY <1>0 DEF Geo, File, Place, MMDB_FILE_OPEN_ERROR, TYPE_UNKNOWN
  <2> QED
    BY <2>1, <2>2 DEF GeoByAddr, Told, GEONAMEID_UNKNOWN, TYPE_UNKNOWN
<1>4. RegistryByAddr(a) \in 0 .. 15
  <2> DEFINE S == Asked("REGISTRY", a)
  <2>1. S \subseteq Source
    BY AddrAssumption DEF TypeOK, Asked, Feature, Kind
  <2>2. CASE \A n \in Source : priority_selector[n] \notin S
    BY <2>2 DEF RegistryByAddr, LastOf, REGISTRY_RESERVED, REGISTRY_6BONE, REGISTRY_UNKNOWN
  <2>3. CASE \E n \in Source : priority_selector[n] \in S
    <3>1. LastOf(S) \in S
      BY <2>1, <2>3, LastOfIsOne
    <3>2. \A s \in Source : files[s].registry[a] \in 0 .. 15
      BY <1>0 DEF File
    <3> QED
      BY <2>1, <3>1, <3>2
         DEF RegistryByAddr, REGISTRY_RESERVED, REGISTRY_6BONE, REGISTRY_UNKNOWN
  <2> QED
    BY <2>2, <2>3
<1> QED
  BY <1>1, <1>2, <1>3, <1>4

--------------------------------------------------------------------------------
(* What is remembered is what the databases have, and before the            *)
(* initialisation nothing is remembered and no source is asked.             *)
Remembered ==
  /\ phase # "running" =>
       /\ ~cc_last.valid /\ ~as_last.valid /\ ~geo_last.valid
       /\ \A f \in Feature : features_selector[f] = {}
  /\ \A a \in Addr :
       /\ Hit(cc_last, a)  => cc_last.index = CcByAddr(a)
       /\ Hit(as_last, a)  => as_last.num = AsByAddr(a)
       /\ Hit(geo_last, a) => geo_last.id = GeoByAddr(a).id

IInv == TypeOK /\ Remembered

(* What the databases have depends on these variables only.                 *)
LEMMA TruthStays ==
  ASSUME UNCHANGED <<installed, priority_selector, features_selector>>, NEW a \in Addr
  PROVE  /\ CcByAddr(a)' = CcByAddr(a) /\ AsByAddr(a)' = AsByAddr(a)
         /\ GeoByAddr(a)' = GeoByAddr(a) /\ RegistryByAddr(a)' = RegistryByAddr(a)
<1>1. UNCHANGED files
  BY DEF files
<1>2. \A k : Answerer(k, a)' = Answerer(k, a)
  BY <1>1 DEF Answerer, FirstOf, Asked, Knows, Code, Asn, Geo
<1>3. \A s : Code(s, a)' = Code(s, a) /\ Asn(s, a)' = Asn(s, a) /\ Geo(s, a)' = Geo(s, a)
  BY <1>1 DEF Code, Asn, Geo
<1> QED
  BY <1>1, <1>2, <1>3 DEF CcByAddr, AsByAddr, GeoByAddr, RegistryByAddr, LastOf, Asked

LEMMA InitIInv == Init => IInv
<1> SUFFICES ASSUME Init PROVE IInv
  OBVIOUS
<1>1. Zero \in Addr
  BY AddrAssumption DEF Zero
<1> QED
  BY <1>1 DEF Init, IInv, TypeOK, Remembered, Hit, Feature, Source, Told, TYPE_UNKNOWN

(* Options and the initialisation leave alone what is remembered.           *)
LEMMA SetUpIInv ==
  ASSUME IInv,
         \/ \E s \in Disableable : OptionDisable(s)
         \/ \E tokens \in Priorities : OptionPriorization(tokens)
         \/ WrapperInit
  PROVE  IInv'
<1> USE DEF IInv
<1>1. /\ phase = "options" /\ UNCHANGED <<installed, cc_last, as_last, geo_last>>
      /\ phase' = "running" \/ UNCHANGED features_selector
  BY DEF OptionDisable, OptionPriorization, WrapperInit, options, lastused
<1>2. Remembered'
  BY <1>1 DEF Remembered, Hit
<1>3. ASSUME NEW s \in Disableable, OptionDisable(s) PROVE TypeOK'
  BY <1>1, <1>3, OptionsAssumption DEF TypeOK, OptionDisable
<1>4. ASSUME NEW tokens \in Priorities, OptionPriorization(tokens) PROVE TypeOK'
  <2>1. Len(tokens) \in Nat
    BY <1>4, OptionsAssumption
  <2> QED
    BY <1>1, <1>4, <2>1 DEF TypeOK, OptionPriorization
<1>5. ASSUME WrapperInit PROVE TypeOK'
  <2>1. Disabled \subseteq Source
    BY DEF TypeOK, Disabled, MMDB, GEOIP2, IP2LOCATION2, DBIP2, Source
  <2>2. \A f \in Feature : Selected(f) \subseteq Source
    <3>1. \A p : Newer(p) \in Source
      BY DEF Newer, Source, BUILTIN, EXTERNAL
    <3> QED
      BY <3>1 DEF Selected
  <2>3. features_selector' \in [Feature -> SUBSET Source]
    BY <1>5, <2>2 DEF WrapperInit
  <2> QED
    BY <1>1, <1>5, <2>1, <2>3 DEF TypeOK, WrapperInit
<1> QED
  BY <1>2, <1>3, <1>4, <1>5

(* A lookup remembers what the databases have, or what it remembered.       *)
LEMMA LookupIInv ==
  ASSUME IInv, NEW a \in Addr,
         \/ CcIndexByAddr(a)
         \/ \E orgname \in BOOLEAN : AsNum32ByAddr(a, orgname)
         \/ GeonameIDByAddr(a)
         \/ RegistryNumByAddr(a)
  PROVE  IInv'
<1>1. phase = "running" /\ UNCHANGED <<installed, phase, options, features_selector>>
  BY DEF CcIndexByAddr, AsNum32ByAddr, GeonameIDByAddr, RegistryNumByAddr
<1>2. /\ Answerer("CC", a) \in Told /\ Answerer("AS", a) \in Told
      /\ Answerer("GEONAMEID", a) \in Told
  BY AnswererKnows DEF Kind, IInv
<1>3. /\ CcByAddr(a) \in (0 .. 935) \cup {COUNTRYCODE_INDEX_UNKNOWN}
      /\ AsByAddr(a) \in Nat /\ GeoByAddr(a).id \in Nat /\ GeoByAddr(a).type \in 0 .. 5
  BY AnswersTyped DEF IInv
<1>4. TYPE_UNKNOWN \in 0 .. 5
  BY DEF TYPE_UNKNOWN
<1>5. \/ UNCHANGED cc_last
      \/ cc_last' = [cc_last EXCEPT !.source = Answerer("CC", a)]
      \/ cc_last' = [ valid |-> TRUE, addr |-> a, index |-> CcByAddr(a),
                      source |-> Answerer("CC", a) ]
  BY DEF CcIndexByAddr, CcHit, CcMiss, AsNum32ByAddr, GeonameIDByAddr, RegistryNumByAddr, lastused
<1>6. \/ UNCHANGED as_last
      \/ as_last' = [ valid |-> TRUE, addr |-> a, num |-> AsByAddr(a),
                      source |-> Answerer("AS", a) ]
  BY DEF CcIndexByAddr, AsNum32ByAddr, AsHit, AsMiss, AsSource, GeonameIDByAddr,
         RegistryNumByAddr, lastused
<1>7. \/ UNCHANGED geo_last
      \/ geo_last' = [geo_last EXCEPT !.type = TYPE_UNKNOWN]
      \/ geo_last' = [ valid |-> TRUE, addr |-> a, id |-> GeoByAddr(a).id,
                       type |-> GeoByAddr(a).type, source |-> Answerer("GEONAMEID", a) ]
  BY DEF CcIndexByAddr, AsNum32ByAddr, GeonameIDByAddr, GeoHit, GeoMiss, RegistryNumByAddr, lastused
<1>8. /\ cc_last \in [ valid : BOOLEAN, addr : Addr,
                       index : (0 .. 935) \cup {COUNTRYCODE_INDEX_UNKNOWN}, source : Told ]
      /\ as_last \in [ valid : BOOLEAN, addr : Addr, num : Nat, source : Told ]
      /\ geo_last \in [ valid : BOOLEAN, addr : Addr, id : Nat, type : 0 .. 5, source : Told ]
  BY DEF TypeOK, IInv
<1>9. TypeOK'
  <2>1. cc_last' \in [ valid : BOOLEAN, addr : Addr,
                       index : (0 .. 935) \cup {COUNTRYCODE_INDEX_UNKNOWN}, source : Told ]
    <3>1. CASE UNCHANGED cc_last
      BY <1>8, <3>1
    <3>2. CASE cc_last' = [cc_last EXCEPT !.source = Answerer("CC", a)]
      BY <1>2, <1>8, <3>2
    <3>3. CASE cc_last' = [ valid |-> TRUE, addr |-> a, index |-> CcByAddr(a),
                            source |-> Answerer("CC", a) ]
      BY <1>2, <1>3, <3>3
    <3> QED
      BY <1>5, <3>1, <3>2, <3>3
  <2>2. as_last' \in [ valid : BOOLEAN, addr : Addr, num : Nat, source : Told ]
    <3>1. CASE UNCHANGED as_last
      BY <1>8, <3>1
    <3>2. CASE as_last' = [ valid |-> TRUE, addr |-> a, num |-> AsByAddr(a),
                            source |-> Answerer("AS", a) ]
      BY <1>2, <1>3, <3>2
    <3> QED
      BY <1>6, <3>1, <3>2
  <2>3. geo_last' \in [ valid : BOOLEAN, addr : Addr, id : Nat, type : 0 .. 5, source : Told ]
    <3>1. CASE UNCHANGED geo_last
      BY <1>8, <3>1
    <3>2. CASE geo_last' = [geo_last EXCEPT !.type = TYPE_UNKNOWN]
      BY <1>4, <1>8, <3>2
    <3>3. CASE geo_last' = [ valid |-> TRUE, addr |-> a, id |-> GeoByAddr(a).id,
                             type |-> GeoByAddr(a).type, source |-> Answerer("GEONAMEID", a) ]
      BY <1>2, <1>3, <3>3
    <3> QED
      BY <1>7, <3>1, <3>2, <3>3
  <2> QED
    BY <1>1, <2>1, <2>2, <2>3 DEF TypeOK, IInv, options
<1>10. ASSUME NEW b \in Addr
       PROVE  /\ Hit(cc_last, b)'  => cc_last'.index = CcByAddr(b)'
              /\ Hit(as_last, b)'  => as_last'.num = AsByAddr(b)'
              /\ Hit(geo_last, b)' => geo_last'.id = GeoByAddr(b)'.id
  <2>1. CcByAddr(b)' = CcByAddr(b) /\ AsByAddr(b)' = AsByAddr(b) /\ GeoByAddr(b)' = GeoByAddr(b)
    BY <1>1, TruthStays DEF options
  <2>2. /\ Hit(cc_last, b)  => cc_last.index = CcByAddr(b)
        /\ Hit(as_last, b)  => as_last.num = AsByAddr(b)
        /\ Hit(geo_last, b) => geo_last.id = GeoByAddr(b).id
    BY DEF IInv, Remembered
  <2>3. Hit(cc_last, b)' => cc_last'.index = CcByAddr(b)
    BY <1>5, <1>8, <2>2 DEF Hit
  <2>4. Hit(as_last, b)' => as_last'.num = AsByAddr(b)
    BY <1>6, <1>8, <2>2 DEF Hit
  <2>5. Hit(geo_last, b)' => geo_last'.id = GeoByAddr(b).id
    BY <1>7, <1>8, <2>2 DEF Hit
  <2> QED
    BY <2>1, <2>3, <2>4, <2>5
<1> QED
  BY <1>1, <1>9, <1>10 DEF IInv, Remembered

LEMMA Invariant == Spec => []IInv
<1>1. Init => IInv
  BY InitIInv
<1>2. IInv /\ [Next]_vars => IInv'
  <2> SUFFICES ASSUME IInv, [Next]_vars PROVE IInv'
    OBVIOUS
  <2>1. CASE \/ \E s \in Disableable : OptionDisable(s)
             \/ \E tokens \in Priorities : OptionPriorization(tokens)
             \/ WrapperInit
    BY <2>1, SetUpIInv
  <2>2. ASSUME NEW a \in Addr,
               \/ CcIndexByAddr(a)
               \/ \E orgname \in BOOLEAN : AsNum32ByAddr(a, orgname)
               \/ GeonameIDByAddr(a)
               \/ RegistryNumByAddr(a)
        PROVE  IInv'
    BY <2>2, LookupIInv
  <2>3. CASE UNCHANGED vars
    <3>1. /\ TypeOK'
          /\ UNCHANGED <<installed, priority_selector, features_selector, phase>>
          /\ UNCHANGED lastused
      BY <2>3 DEF IInv, TypeOK, vars, options, lastused
    <3>2. ASSUME NEW b \in Addr
          PROVE  CcByAddr(b)' = CcByAddr(b) /\ AsByAddr(b)' = AsByAddr(b)
                 /\ GeoByAddr(b)' = GeoByAddr(b)
      BY <3>1, TruthStays
    <3> QED
      BY <3>1, <3>2 DEF IInv, Remembered, Hit, lastused
  <2> QED
    BY <2>1, <2>2, <2>3 DEF Next
<1> QED
  BY <1>1, <1>2, PTL DEF Spec

(* What is remembered keeps its type, whatever the databases say.           *)
THEOREM TypeCorrect == Spec => []TypeOK
<1>1. IInv => TypeOK
  BY DEF IInv
<1> QED
  BY <1>1, Invariant, PTL

--------------------------------------------------------------------------------
(* The abstract service: a question and its answer as the wrapper gives it. *)
Question(k, a) ==
  /\ phase = "running"
  /\ UNCHANGED <<installed, phase, priority_selector, features_selector>>
  /\ answer'.kind = k /\ answer'.addr = a /\ answer'.value = Truth(k, a)

(* Every lookup is answered with what the databases have.                   *)
LEMMA LookupsAnswerTruly ==
  ASSUME IInv, NEW a \in Addr
  PROVE  /\ CcIndexByAddr(a) => Question("CC", a)
         /\ \A orgname \in BOOLEAN : AsNum32ByAddr(a, orgname) => Question("AS", a)
         /\ GeonameIDByAddr(a) => Question("GEONAMEID", a)
         /\ RegistryNumByAddr(a) => Question("REGISTRY", a)
<1>1. /\ Hit(cc_last, a)  => cc_last.index = CcByAddr(a)
      /\ Hit(as_last, a)  => as_last.num = AsByAddr(a)
      /\ Hit(geo_last, a) => geo_last.id = GeoByAddr(a).id
  BY DEF IInv, Remembered
<1>2. CcIndexByAddr(a) => Question("CC", a)
  BY <1>1 DEF CcIndexByAddr, CcHit, CcMiss, Answered, Question, Truth, options
<1>3. ASSUME NEW orgname \in BOOLEAN, AsNum32ByAddr(a, orgname) PROVE Question("AS", a)
  BY <1>1, <1>3 DEF AsNum32ByAddr, AsHit, AsMiss, Answered, Question, Truth, options
<1>4. GeonameIDByAddr(a) => Question("GEONAMEID", a)
  BY <1>1 DEF GeonameIDByAddr, GeoHit, GeoMiss, Answered, Question, Truth, options
<1>5. RegistryNumByAddr(a) => Question("REGISTRY", a)
  BY DEF RegistryNumByAddr, Answered, Question, Truth, options
<1> QED
  BY <1>2, <1>3, <1>4, <1>5

(* What the databases have, as the abstract service's oracle.               *)
Oracle == [ k \in Kind |-> [ a \in Addr |-> Truth(k, a) ] ]

LEMMA OracleTyped == TypeOK => Oracle \in [Kind -> [Addr -> Int]]
<1> SUFFICES ASSUME TypeOK PROVE Oracle \in [Kind -> [Addr -> Int]]
  OBVIOUS
<1>1. ASSUME NEW k \in Kind, NEW a \in Addr PROVE Truth(k, a) \in Int
  BY AnswersTyped DEF Kind, Truth, COUNTRYCODE_INDEX_UNKNOWN
<1> QED
  BY <1>1 DEF Oracle

LEMMA OracleStays ==
  ASSUME UNCHANGED <<installed, priority_selector, features_selector>>
  PROVE  Oracle' = Oracle
<1>1. ASSUME NEW k \in Kind, NEW a \in Addr PROVE Truth(k, a)' = Truth(k, a)
  BY TruthStays DEF Truth, Kind
<1> QED
  BY <1>1 DEF Oracle

LEMMA ServiceInit == Init => Service!Init
<1> SUFFICES ASSUME Init PROVE Service!Init
  OBVIOUS
<1>1. Oracle \in [Kind -> [Addr -> Int]]
  BY InitIInv, OracleTyped DEF IInv
<1>2. phase # "running" /\ answer.kind \notin Kind
  BY DEF Init, Kind, Nothing
<1> QED
  BY <1>1, <1>2 DEF Service!Init, Oracle

(* A question to the wrapper is one to the service.                         *)
LEMMA ServiceAsk ==
  ASSUME IInv, NEW k \in Kind, NEW a \in Addr, Question(k, a)
  PROVE  Service!Next
<1>1. Truth(k, a) \in Int
  BY OracleTyped DEF IInv, Oracle
<1>2. Oracle' = Oracle
  BY OracleStays DEF Question
<1>3. answer'.kind \in Kind
  BY DEF Question
<1>4. Service!Ask(k, a)
  BY <1>1, <1>2, <1>3 DEF Service!Ask, Question, Oracle
<1> QED
  BY <1>4 DEF Service!Next

(* The initialisation sets the service up; options are not seen by it.      *)
LEMMA ServiceSetUp ==
  ASSUME IInv, IInv',
         \/ \E s \in Disableable : OptionDisable(s)
         \/ \E tokens \in Priorities : OptionPriorization(tokens)
         \/ WrapperInit
  PROVE  Service!Next \/ UNCHANGED Service!vars
<1>1. (TypeOK => Oracle \in [Kind -> [Addr -> Int]])'
  BY OracleTyped, PTL
<1>2. Oracle' \in [Kind -> [Addr -> Int]]
  BY <1>1 DEF IInv
<1>3. UNCHANGED answer
  BY DEF OptionDisable, OptionPriorization, WrapperInit
<1>4. CASE WrapperInit
  <2>1. Service!SetUp
    BY <1>2, <1>3, <1>4 DEF Service!SetUp, WrapperInit, Oracle
  <2> QED
    BY <2>1 DEF Service!Next
<1>5. CASE ~WrapperInit
  <2>1. UNCHANGED <<installed, features_selector>> /\ phase # "running" /\ phase' # "running"
    BY <1>5 DEF OptionDisable, OptionPriorization
  <2>2. \A f \in Feature : features_selector[f] = {} /\ features_selector'[f] = {}
    BY <2>1 DEF IInv, Remembered
  <2>3. ASSUME NEW k \in Kind, NEW a \in Addr PROVE Truth(k, a)' = Truth(k, a)
    <3>1. Asked(k, a) = {} /\ Asked(k, a)' = {}
      BY <2>2, AddrAssumption DEF Asked, Feature
    <3>2. Answerer(k, a) = UNKNOWN /\ Answerer(k, a)' = UNKNOWN
      BY <3>1 DEF Answerer, FirstOf
    <3>3. LastOf(Asked(k, a)) = UNKNOWN /\ LastOf(Asked(k, a))' = UNKNOWN
      BY <3>1 DEF LastOf
    <3> QED
      BY <3>2, <3>3 DEF Truth, CcByAddr, AsByAddr, GeoByAddr, RegistryByAddr, Kind
  <2>4. Oracle' = Oracle
    BY <2>3 DEF Oracle
  <2> QED
    BY <1>3, <2>1, <2>4 DEF Service!vars, Oracle
<1> QED
  BY <1>4, <1>5

(* The wrapper implements the service: of no answer can be told what was    *)
(* asked before it.                                                         *)
THEOREM WrapperIsService == Spec => ImplementsService
<1>1. Init => Service!Init
  BY ServiceInit
<1>2. IInv /\ IInv' /\ [Next]_vars => [Service!Next]_(Service!vars)
  <2> SUFFICES ASSUME IInv, IInv', [Next]_vars
               PROVE  Service!Next \/ UNCHANGED Service!vars
    OBVIOUS
  <2>1. CASE \/ \E s \in Disableable : OptionDisable(s)
             \/ \E tokens \in Priorities : OptionPriorization(tokens)
             \/ WrapperInit
    BY <2>1, ServiceSetUp
  <2>2. ASSUME NEW a \in Addr,
               \/ CcIndexByAddr(a)
               \/ \E orgname \in BOOLEAN : AsNum32ByAddr(a, orgname)
               \/ GeonameIDByAddr(a)
               \/ RegistryNumByAddr(a)
        PROVE  Service!Next
    <3>1. \E k \in Kind : Question(k, a)
      BY <2>2, LookupsAnswerTruly DEF Kind
    <3> QED
      BY <3>1, ServiceAsk
  <2>3. CASE UNCHANGED vars
    <3>1. Oracle' = Oracle
      BY <2>3, OracleStays DEF vars, options
    <3> QED
      BY <2>3, <3>1 DEF Service!vars, Oracle, vars
  <2> QED
    BY <2>1, <2>2, <2>3 DEF Next
<1> QED
  BY <1>1, <1>2, Invariant, PTL DEF Spec, ImplementsService, Service!Spec

--------------------------------------------------------------------------------
(* Sources: the lists are those of the enabled sources that have the        *)
(* feature, and the source told or remembered is the one that answers.      *)
Located == {"CC", "AS", "GEONAMEID"}

Sourced ==
  /\ phase # "running" => answer = Nothing
  /\ answer.kind \in Located => answer.addr \in Addr
  /\ phase = "running" =>
       \A p \in Proto, k \in Located :
         features_selector[<<p, k>>] = { s \in Source \ disable : <<p, k>> \in files[s].features }
  /\ \A a \in Addr :
       /\ Hit(as_last, a)  => as_last.source = Answerer("AS", a)
       /\ Hit(geo_last, a) => geo_last.source = Answerer("GEONAMEID", a)
       /\ TextsHaveTwo /\ Hit(cc_last, a) => cc_last.source = Answerer("CC", a)
  /\ \A k \in Located, a \in Addr :
       answer.kind = k /\ answer.addr = a /\ (k = "CC" => TextsHaveTwo)
         => answer.source = Answerer(k, a)

LEMMA AnswererStays ==
  ASSUME UNCHANGED <<installed, priority_selector, features_selector>>
  PROVE  /\ UNCHANGED files /\ TextsHaveTwo' = TextsHaveTwo
         /\ \A k \in Located, a \in Addr : Answerer(k, a)' = Answerer(k, a)
BY DEF files, TextsHaveTwo, Answerer, FirstOf, Asked, Knows, Code, Asn, Geo

LEMMA SetUpSourced ==
  ASSUME IInv, Sourced,
         \/ \E s \in Disableable : OptionDisable(s)
         \/ \E tokens \in Priorities : OptionPriorization(tokens)
         \/ WrapperInit
  PROVE  Sourced'
<1>1. /\ phase = "options" /\ UNCHANGED <<installed, cc_last, as_last, geo_last, answer>>
      /\ ~cc_last.valid /\ ~as_last.valid /\ ~geo_last.valid /\ answer = Nothing
  BY DEF OptionDisable, OptionPriorization, WrapperInit, options, lastused, IInv, Remembered, Sourced
<1>2. answer'.kind \notin Located
  BY <1>1 DEF Nothing, Located
<1>3. ASSUME phase' = "running", NEW p \in Proto, NEW k \in Located
      PROVE  features_selector'[<<p, k>>] =
               { s \in Source \ disable' : <<p, k>> \in files'[s].features }
  <2>1. WrapperInit
    BY <1>1, <1>3 DEF OptionDisable, OptionPriorization
  <2>2. <<p, k>> \in Feature
    BY DEF Feature, Kind, Located
  <2>3. features_selector'[<<p, k>>] = Selected(<<p, k>>)
    BY <2>1, <2>2 DEF WrapperInit
  <2>4. disable' = Disabled /\ files' = files
    BY <1>1, <2>1 DEF WrapperInit, files
  <2>5. Selected(<<p, k>>) = { s \in Source : <<p, k>> \in FeaturesOf(s) }
    BY DEF Selected, Located
  <2> QED
    BY <2>3, <2>4, <2>5 DEF FeaturesOf
<1> QED
  BY <1>1, <1>2, <1>3 DEF Sourced, Hit

LEMMA LookupSourced ==
  ASSUME IInv, Sourced, NEW a \in Addr,
         \/ CcIndexByAddr(a)
         \/ \E orgname \in BOOLEAN : AsNum32ByAddr(a, orgname)
         \/ GeonameIDByAddr(a)
         \/ RegistryNumByAddr(a)
  PROVE  Sourced'
<1>1. phase = "running" /\ UNCHANGED <<installed, phase, options, features_selector>>
  BY DEF CcIndexByAddr, AsNum32ByAddr, GeonameIDByAddr, RegistryNumByAddr
<1>2. /\ UNCHANGED <<files, disable>> /\ TextsHaveTwo' = TextsHaveTwo
      /\ \A k \in Located, b \in Addr : Answerer(k, b)' = Answerer(k, b)
  BY <1>1, AnswererStays DEF options
<1>3. files \in [Source -> File]
  BY FilesTyped DEF IInv, TypeOK
<1>4. Answerer("CC", a) # UNKNOWN => Answerer("CC", a) \in Source
  BY AnswererKnows DEF IInv, Kind, Told
<1>5. TextsHaveTwo /\ Answerer("CC", a) # UNKNOWN => Code(Answerer("CC", a), a) # NOT_TWO
  BY <1>4 DEF TextsHaveTwo, Code, NOT_FOUND, NOT_TWO
<1>6. /\ cc_last \in [ valid : BOOLEAN, addr : Addr,
                       index : (0 .. 935) \cup {COUNTRYCODE_INDEX_UNKNOWN}, source : Told ]
      /\ as_last \in [ valid : BOOLEAN, addr : Addr, num : Nat, source : Told ]
      /\ geo_last \in [ valid : BOOLEAN, addr : Addr, id : Nat, type : 0 .. 5, source : Told ]
  BY DEF TypeOK, IInv
<1>7. \A b \in Addr :
        /\ Hit(as_last, b)  => as_last.source = Answerer("AS", b)
        /\ Hit(geo_last, b) => geo_last.source = Answerer("GEONAMEID", b)
        /\ TextsHaveTwo /\ Hit(cc_last, b) => cc_last.source = Answerer("CC", b)
  BY DEF Sourced
<1>8. ASSUME CcIndexByAddr(a)
      PROVE  /\ UNCHANGED <<as_last, geo_last>> /\ answer'.kind = "CC" /\ answer'.addr = a
             /\ TextsHaveTwo =>
                  /\ answer'.source = Answerer("CC", a)
                  /\ \A b \in Addr : Hit(cc_last, b)' => cc_last'.source = Answerer("CC", b)
  BY <1>5, <1>6, <1>7, <1>8 DEF CcIndexByAddr, CcHit, CcMiss, Answered, Hit
<1>9. ASSUME NEW orgname \in BOOLEAN, AsNum32ByAddr(a, orgname)
      PROVE  /\ UNCHANGED <<cc_last, geo_last>> /\ answer'.kind = "AS" /\ answer'.addr = a
             /\ answer'.source = Answerer("AS", a)
             /\ \A b \in Addr : Hit(as_last, b)' => as_last'.source = Answerer("AS", b)
  BY <1>6, <1>7, <1>9 DEF AsNum32ByAddr, AsHit, AsMiss, AsSource, Answered, Hit
<1>10. ASSUME GeonameIDByAddr(a)
       PROVE  /\ UNCHANGED <<cc_last, as_last>> /\ answer'.kind = "GEONAMEID" /\ answer'.addr = a
              /\ answer'.source = Answerer("GEONAMEID", a)
              /\ \A b \in Addr : Hit(geo_last, b)' => geo_last'.source = Answerer("GEONAMEID", b)
  BY <1>6, <1>7, <1>10 DEF GeonameIDByAddr, GeoHit, GeoMiss, Answered, Hit
<1>11. ASSUME RegistryNumByAddr(a)
       PROVE  UNCHANGED <<cc_last, as_last, geo_last>> /\ answer'.kind = "REGISTRY"
  BY <1>11 DEF RegistryNumByAddr, Answered, lastused
<1>14. answer'.kind \in Located => answer'.addr \in Addr
  BY <1>8, <1>9, <1>10, <1>11 DEF Located
<1>12. \A k \in Located, b \in Addr :
         answer'.kind = k /\ answer'.addr = b /\ (k = "CC" => TextsHaveTwo)
           => answer'.source = Answerer(k, b)
  BY <1>8, <1>9, <1>10, <1>11 DEF Located
<1>13. \A b \in Addr :
         /\ Hit(as_last, b)'  => as_last'.source = Answerer("AS", b)
         /\ Hit(geo_last, b)' => geo_last'.source = Answerer("GEONAMEID", b)
         /\ TextsHaveTwo /\ Hit(cc_last, b)' => cc_last'.source = Answerer("CC", b)
  BY <1>7, <1>8, <1>9, <1>10, <1>11 DEF Hit
<1> QED
  BY <1>1, <1>2, <1>12, <1>13, <1>14 DEF Sourced, Located

(* Who answers comes first of those that could.                             *)
LEMMA AnswererIsPreferred ==
  ASSUME IInv, Sourced PROVE SourceIsPreferred
<1> SUFFICES ASSUME answer.kind \in Located, answer.addr \notin Reserved,
                    answer.kind = "CC" => TextsHaveTwo
             PROVE  SourceIsPreferred
  BY DEF SourceIsPreferred, Located
<1> DEFINE k == answer.kind
           a == answer.addr
<1>1. phase = "running" /\ a \in Addr
  BY DEF Sourced, Nothing, Located
<1>2. Able(k, a) = { s \in Asked(k, a) : Knows(s, k, a) }
  <2>1. ProtoOf[a] \in Proto
    BY <1>1, AddrAssumption
  <2>2. Asked(k, a) = { s \in Source \ disable : <<ProtoOf[a], k>> \in files[s].features }
    BY <1>1, <2>1 DEF Sourced, Asked
  <2> QED
    BY <2>2 DEF Able
<1>3. answer.source = FirstOf(Able(k, a))
  BY <1>1, <1>2 DEF Sourced, Answerer
<1>4. Able(k, a) \subseteq Source
  BY DEF Able
<1> HIDE DEF k, a
<1> QED
  BY <1>3, <1>4, FirstOfIsFirst DEF SourceIsPreferred, k, a

(* The source told with a country, an AS number or a GeonameID is the first *)
(* in the order of priority of the enabled ones that know the address, no   *)
(* matter what was asked before.                                            *)
THEOREM SourcePreferred == Spec => []SourceIsPreferred
<1>1. Init => Sourced
  BY DEF Init, Sourced, Nothing, Located, Hit
<1>2. IInv /\ Sourced /\ [Next]_vars => Sourced'
  <2> SUFFICES ASSUME IInv, Sourced, [Next]_vars PROVE Sourced'
    OBVIOUS
  <2>1. CASE \/ \E s \in Disableable : OptionDisable(s)
             \/ \E tokens \in Priorities : OptionPriorization(tokens)
             \/ WrapperInit
    BY <2>1, SetUpSourced
  <2>2. ASSUME NEW a \in Addr,
               \/ CcIndexByAddr(a)
               \/ \E orgname \in BOOLEAN : AsNum32ByAddr(a, orgname)
               \/ GeonameIDByAddr(a)
               \/ RegistryNumByAddr(a)
        PROVE  Sourced'
    BY <2>2, LookupSourced
  <2>3. CASE UNCHANGED vars
    <3>1. UNCHANGED <<installed, priority_selector, features_selector, disable, phase, answer,
                      cc_last, as_last, geo_last>>
      BY <2>3 DEF vars, options, lastused
    <3>2. /\ UNCHANGED files /\ TextsHaveTwo' = TextsHaveTwo
          /\ \A k \in Located, a \in Addr : Answerer(k, a)' = Answerer(k, a)
      BY <3>1, AnswererStays
    <3> QED
      BY <3>1, <3>2 DEF Sourced, Hit, Located
  <2> QED
    BY <2>1, <2>2, <2>3 DEF Next
<1>3. IInv /\ Sourced => SourceIsPreferred
  BY AnswererIsPreferred
<1> QED
  BY <1>1, <1>2, <1>3, Invariant, PTL DEF Spec

--------------------------------------------------------------------------------
(* The order of the sources.                                                *)
Distinct(order) == \A m, n \in 1 .. Len(order) : order[m] = order[n] => m = n

Listed(order) == { order[n] : n \in 1 .. Len(order) }

(* What is behind an order that begins as another.                          *)
Begins(order, longer) ==
  /\ Len(order) <= Len(longer)
  /\ \A n \in 1 .. Len(order) : longer[n] = order[n]

(* The recursive function is the loop over the table of names.              *)
LEMMA FilledUnrolled ==
  /\ Filled[0] = SubSeq(priority_selector, 1, priority_by_option)
  /\ \A n \in 1 .. 6 : Filled[n] = Behind(Filled[n - 1], data_sources[n])
<1> DEFINE first == SubSeq(priority_selector, 1, priority_by_option)
           then(order, n) == Behind(order, data_sources[n])
           o1 == then(first, 1)
           o2 == then(o1, 2)
           o3 == then(o2, 3)
           o4 == then(o3, 4)
           o5 == then(o4, 5)
           o6 == then(o5, 6)
           body(f) == [ n \in 0 .. 6 |-> IF n = 0 THEN first ELSE then(f[n - 1], n) ]
           w == [ n \in 0 .. 6 |-> IF n = 0 THEN first ELSE IF n = 1 THEN o1
                                   ELSE IF n = 2 THEN o2 ELSE IF n = 3 THEN o3
                                   ELSE IF n = 4 THEN o4 ELSE IF n = 5 THEN o5 ELSE o6 ]
<1>1. Filled = CHOOSE f : f = body(f)
  BY DEF Filled
<1>2. ASSUME NEW n \in 0 .. 6 PROVE w[n] = body(w)[n]
  <2> HIDE DEF first, then
  <2>1. n = 0 \/ n = 1 \/ n = 2 \/ n = 3 \/ n = 4 \/ n = 5 \/ n = 6
    OBVIOUS
  <2> QED
    BY <2>1
<1>3. w = body(w)
  <2>1. DOMAIN w = 0 .. 6 /\ w = [ n \in 0 .. 6 |-> w[n] ]
    OBVIOUS
  <2>2. body(w) = [ n \in 0 .. 6 |-> body(w)[n] ]
    OBVIOUS
  <2> HIDE DEF w, body
  <2> QED
    BY <1>2, <2>1, <2>2
<1>4. Filled = body(Filled)
  <2> HIDE DEF w, body
  <2> QED
    BY <1>1, <1>3
<1>5. \A n \in 0 .. 6 : Filled[n] = IF n = 0 THEN first ELSE then(Filled[n - 1], n)
  <2> HIDE DEF first, then
  <2> QED
    BY <1>4
<1> HIDE DEF first, then
<1> QED
  BY <1>5 DEF first, then

(* A source put behind an order is in it once.                              *)
LEMMA BehindAdds ==
  ASSUME NEW order \in Seq(Source), Distinct(order), NEW s \in Source
  PROVE  /\ Behind(order, s) \in Seq(Source) /\ Distinct(Behind(order, s))
         /\ Listed(Behind(order, s)) = Listed(order) \cup {s}
         /\ Begins(order, Behind(order, s))
<1>1. CASE \E n \in DOMAIN order : order[n] = s
  <2>1. Behind(order, s) = order
    BY <1>1 DEF Behind
  <2>2. s \in Listed(order)
    BY <1>1 DEF Listed
  <2> QED
    BY <2>1, <2>2 DEF Begins
<1>2. CASE ~ \E n \in DOMAIN order : order[n] = s
  <2>1. Behind(order, s) = Append(order, s)
    BY <1>2 DEF Behind
  <2> DEFINE longer == Append(order, s)
             l == Len(order)
  <2>2. /\ longer \in Seq(Source) /\ Len(longer) = l + 1 /\ l \in Nat
        /\ longer[l + 1] = s /\ \A n \in 1 .. l : longer[n] = order[n]
    OBVIOUS
  <2>3. \A n \in 1 .. l : order[n] # s
    BY <1>2
  <2>4. \A n \in 1 .. (l + 1) : n \in 1 .. l \/ n = l + 1
    BY <2>2
  <2>5. Distinct(longer)
    <3> HIDE DEF longer
    <3> QED
      BY <2>2, <2>3, <2>4 DEF Distinct
  <2>6. Listed(longer) = Listed(order) \cup {s}
    <3> HIDE DEF longer
    <3>1. 1 .. (l + 1) = (1 .. l) \cup {l + 1}
      BY <2>2
    <3> QED
      BY <2>2, <3>1 DEF Listed
  <2>7. Begins(order, longer)
    <3> HIDE DEF longer
    <3> QED
      BY <2>2 DEF Begins
  <2> QED
    BY <2>1, <2>2, <2>5, <2>6, <2>7
<1> QED
  BY <1>1, <1>2

(* An order of distinct sources that has all of them has six places.        *)
LEMMA AllHaveSixPlaces ==
  ASSUME NEW order \in Seq(Source), Distinct(order), Listed(order) = Source
  PROVE  Len(order) = 6
<1> DEFINE l == Len(order)
<1>1. l \in Nat /\ order \in [1 .. l -> Source]
  OBVIOUS
<1>2. IsFiniteSet(Source) /\ Cardinality(Source) = 6
  <2>0. 1 \in Int /\ 6 \in Int
    OBVIOUS
  <2>1. IsFiniteSet(1 .. 6) /\ Cardinality(1 .. 6) = IF 1 > 6 THEN 0 ELSE 6 - 1 + 1
    BY ONLY <2>0, FS_Interval, Zenon
  <2>2. (IF 1 > 6 THEN 0 ELSE 6 - 1 + 1) = 6
    OBVIOUS
  <2> QED
    BY <2>1, <2>2 DEF Source
<1>3. IsFiniteSet(1 .. l) /\ Cardinality(1 .. l) = l
  BY <1>1, FS_Interval
<1>4. order \in Injection(1 .. l, Source)
  BY <1>1 DEF Distinct, Injection, IsInjective
<1>5. order \in Surjection(1 .. l, Source)
  BY <1>1 DEF Listed, Surjection
<1>6. Cardinality(1 .. l) = Cardinality(Source)
  BY <1>2, <1>4, <1>5, FS_Injection
<1> QED
  BY <1>2, <1>3, <1>6

(* The order filled up has every source at one place, and begins with what  *)
(* was there before.                                                        *)
LEMMA FilledIsWhole ==
  ASSUME Filled[0] \in Seq(Source), Distinct(Filled[0])
  PROVE  /\ Filled[6] \in Seq(Source) /\ Len(Filled[6]) = 6
         /\ Listed(Filled[6]) = Source /\ Begins(Filled[0], Filled[6])
<1> DEFINE Good(n) ==
      /\ Filled[n] \in Seq(Source) /\ Distinct(Filled[n]) /\ Begins(Filled[0], Filled[n])
<1>1. ASSUME NEW n \in 1 .. 6, Good(n - 1)
      PROVE  Good(n) /\ Listed(Filled[n]) = Listed(Filled[n - 1]) \cup {data_sources[n]}
  <2>1. Filled[n] = Behind(Filled[n - 1], data_sources[n])
    BY FilledUnrolled
  <2>2. data_sources[n] \in Source
    BY DEF data_sources, Source, GEOIP2, IP2LOCATION, IP2LOCATION2, DBIP2, EXTERNAL, BUILTIN
  <2>3. /\ Filled[n] \in Seq(Source) /\ Distinct(Filled[n])
        /\ Listed(Filled[n]) = Listed(Filled[n - 1]) \cup {data_sources[n]}
        /\ Begins(Filled[n - 1], Filled[n])
    BY <1>1, <2>1, <2>2, BehindAdds
  <2>4. Len(Filled[0]) \in Nat /\ Len(Filled[n - 1]) \in Nat /\ Len(Filled[n]) \in Nat
    BY <1>1, <2>3
  <2>5. Begins(Filled[0], Filled[n])
    BY <1>1, <2>3, <2>4 DEF Begins
  <2> QED
    BY <2>3, <2>5
<1>2. Good(0)
  BY DEF Begins
<1> HIDE DEF Good
<1>3. Good(1) /\ Good(2) /\ Good(3) /\ Good(4) /\ Good(5) /\ Good(6)
  <2>1. Good(1)
    BY <1>1, <1>2
  <2>2. Good(2)
    BY <1>1, <2>1
  <2>3. Good(3)
    BY <1>1, <2>2
  <2>4. Good(4)
    BY <1>1, <2>3
  <2>5. Good(5)
    BY <1>1, <2>4
  <2>6. Good(6)
    BY <1>1, <2>5
  <2> QED
    BY <2>1, <2>2, <2>3, <2>4, <2>5, <2>6
<1>4. \A n \in 1 .. 6 : Listed(Filled[n]) = Listed(Filled[n - 1]) \cup {data_sources[n]}
  <2> SUFFICES ASSUME NEW n \in 1 .. 6
               PROVE  Listed(Filled[n]) = Listed(Filled[n - 1]) \cup {data_sources[n]}
    OBVIOUS
  <2>1. Good(n - 1)
    BY <1>2, <1>3
  <2> QED
    BY <1>1, <2>1
<1>5. \A n \in 1 .. 6 : data_sources[n] \in Listed(Filled[6])
  <2> DEFINE L(n) == Listed(Filled[n])
  <2>1. \A n \in 1 .. 6 : L(n) = L(n - 1) \cup {data_sources[n]}
    BY <1>4
  <2> HIDE DEF L
  <2>2. /\ data_sources[1] \in L(1) /\ L(1) \subseteq L(2) /\ data_sources[2] \in L(2)
        /\ L(2) \subseteq L(3) /\ data_sources[3] \in L(3) /\ L(3) \subseteq L(4)
        /\ data_sources[4] \in L(4) /\ L(4) \subseteq L(5) /\ data_sources[5] \in L(5)
        /\ L(5) \subseteq L(6) /\ data_sources[6] \in L(6)
    BY <2>1
  <2>3. \A n \in 1 .. 6 : n = 1 \/ n = 2 \/ n = 3 \/ n = 4 \/ n = 5 \/ n = 6
    OBVIOUS
  <2>4. \A n \in 1 .. 6 : data_sources[n] \in L(6)
    BY <2>2, <2>3
  <2> QED
    BY <2>4 DEF L
<1>6. Listed(Filled[6]) = Source
  <2>1. /\ data_sources[1] = 1 /\ data_sources[2] = 2 /\ data_sources[3] = 4
        /\ data_sources[4] = 5 /\ data_sources[5] = 6 /\ data_sources[6] = 3
    BY DEF data_sources, GEOIP2, IP2LOCATION, IP2LOCATION2, DBIP2, EXTERNAL, BUILTIN
  <2>2. {1, 2, 3, 4, 5, 6} \subseteq Listed(Filled[6])
    BY <1>5, <2>1
  <2>3. Source = {1, 2, 3, 4, 5, 6}
    BY DEF Source
  <2>4. Listed(Filled[6]) \subseteq Source
    BY <1>3 DEF Good, Listed
  <2> QED
    BY <2>2, <2>3, <2>4
<1>7. Len(Filled[6]) = 6
  BY <1>3, <1>6, AllHaveSixPlaces DEF Good
<1> QED
  BY <1>3, <1>6, <1>7 DEF Good

(* What is true of the order of priority: until the initialisation it       *)
(* begins with the sources of the last option, all different, and what an   *)
(* earlier option left may follow.                                          *)
OrderInv ==
  /\ phase = "options" =>
       /\ accepted \in Seq(Source) /\ Distinct(accepted)
       /\ Len(accepted) = priority_by_option /\ priority_by_option <= 6
       /\ \A n \in 1 .. Len(accepted) : priority_selector[n] = accepted[n]
  /\ OrderAsAsked

LEMMA OptionOrder ==
  ASSUME OrderInv, NEW tokens \in Priorities, OptionPriorization(tokens)
  PROVE  OrderInv'
<1>1. CASE Taken(tokens)
  <2>1. phase = "options" /\ phase' = "options" /\ accepted' = tokens
    BY <1>1 DEF OptionPriorization
  <2>2. tokens \in Seq(Told) /\ Len(tokens) \in 1 .. 6
    BY OptionsAssumption DEF Told
  <2>3. \A n \in 1 .. Len(tokens) : tokens[n] \in Source
    BY <1>1, <2>2 DEF Taken, Told
  <2>4. tokens \in Seq(Source)
    BY <2>2, <2>3
  <2>5. Distinct(tokens)
    BY <1>1, <2>2 DEF Taken, Distinct
  <2>6. priority_by_option' = Len(tokens)
        /\ \A n \in 1 .. Len(tokens) : priority_selector'[n] = tokens[n]
    <3>1. /\ priority_by_option' = Len(tokens)
          /\ priority_selector' = [ n \in Source |-> IF n <= Len(tokens) THEN tokens[n]
                                                   ELSE priority_selector[n] ]
      BY <1>1 DEF OptionPriorization
    <3>2. \A n \in 1 .. Len(tokens) : n \in Source /\ n <= Len(tokens)
      <4>1. \A l \in 1 .. 6 : \A n \in 1 .. l : n \in 1 .. 6 /\ n <= l
        OBVIOUS
      <4> QED
        BY <2>2, <4>1 DEF Source
    <3> QED
      BY <3>1, <3>2
  <2> QED
    BY <2>1, <2>2, <2>4, <2>5, <2>6 DEF OrderInv, OrderAsAsked
<1>2. CASE ~Taken(tokens)
  BY <1>2 DEF OptionPriorization, OrderInv, OrderAsAsked
<1> QED
  BY <1>1, <1>2

(* The initialisation fills up what the option began.                       *)
LEMMA InitOrder ==
  ASSUME TypeOK, OrderInv, WrapperInit
  PROVE  OrderInv'
<1>1. /\ phase = "options" /\ phase' = "running" /\ accepted' = accepted
      /\ priority_selector' = Priority
  BY DEF WrapperInit
<1>2. /\ accepted \in Seq(Source) /\ Distinct(accepted)
      /\ Len(accepted) = priority_by_option /\ priority_by_option <= 6
      /\ \A n \in 1 .. Len(accepted) : priority_selector[n] = accepted[n]
  BY <1>1 DEF OrderInv
<1>3. CASE priority_by_option = 0
  <2>1. Priority = [ n \in Source |-> n ]
    BY <1>3 DEF Priority
  <2>2. DOMAIN accepted = {}
    BY <1>2, <1>3
  <2> QED
    BY <1>1, <2>1, <2>2 DEF OrderInv, OrderAsAsked
<1>4. CASE priority_by_option # 0
  <2>1. Priority = Filled[6]
    BY <1>4 DEF Priority
  <2>2. Filled[0] = accepted
    <3>1. Filled[0] = [ n \in 1 .. priority_by_option |-> priority_selector[n] ]
      <4>1. Filled[0] = SubSeq(priority_selector, 1, priority_by_option)
        BY FilledUnrolled
      <4> QED
        BY <1>2, <4>1
    <3>2. accepted = [ n \in 1 .. priority_by_option |-> accepted[n] ]
      BY <1>2
    <3> QED
      BY <1>2, <3>1, <3>2
  <2>3. /\ Priority \in Seq(Source) /\ Len(Priority) = 6
        /\ Listed(Priority) = Source /\ Begins(accepted, Priority)
    BY <1>2, <2>1, <2>2, FilledIsWhole
  <2>4. { Priority[n] : n \in Source } = Source
    BY <2>3 DEF Listed, Source
  <2>5. \A n \in DOMAIN accepted : Priority[n] = accepted[n]
    BY <1>2, <2>3 DEF Begins
  <2> QED
    BY <1>1, <2>4, <2>5 DEF OrderInv, OrderAsAsked
<1> QED
  BY <1>3, <1>4

(* Once initialised the order has every source at one place, and begins     *)
(* with those of the last option as they were given, whatever options came  *)
(* before it.                                                               *)
THEOREM OrderIsAsAsked == Spec => []OrderAsAsked
<1>1. Init => OrderInv
  BY DEF Init, OrderInv, OrderAsAsked, Distinct, Source
<1>2. TypeOK /\ OrderInv /\ [Next]_vars => OrderInv'
  <2> SUFFICES ASSUME TypeOK, OrderInv, [Next]_vars PROVE OrderInv'
    OBVIOUS
  <2>1. ASSUME NEW tokens \in Priorities, OptionPriorization(tokens) PROVE OrderInv'
    BY <2>1, OptionOrder
  <2>2. CASE WrapperInit
    BY <2>2, InitOrder
  <2>3. CASE UNCHANGED <<phase, priority_by_option, priority_selector, accepted>>
    BY <2>3 DEF OrderInv, OrderAsAsked
  <2>4. CASE \/ \E s \in Disableable : OptionDisable(s)
             \/ \E a \in Addr : CcIndexByAddr(a) \/ GeonameIDByAddr(a) \/ RegistryNumByAddr(a)
             \/ \E a \in Addr, orgname \in BOOLEAN : AsNum32ByAddr(a, orgname)
             \/ UNCHANGED vars
    <3>1. UNCHANGED <<phase, priority_by_option, priority_selector, accepted>>
      BY <2>4 DEF OptionDisable, CcIndexByAddr, GeonameIDByAddr, RegistryNumByAddr,
                  AsNum32ByAddr, vars, options
    <3> QED
      BY <2>3, <3>1
  <2> QED
    BY <2>1, <2>2, <2>4 DEF Next
<1>3. OrderInv => OrderAsAsked
  BY DEF OrderInv
<1> QED
  BY <1>1, <1>2, <1>3, TypeCorrect, PTL DEF Spec

--------------------------------------------------------------------------------
(* The sources of registries, as the initialisation selects them.           *)
RegistriesInv ==
  phase = "running" =>
    /\ disable = Disabled
    /\ \A p \in Proto : features_selector[<<p, "REGISTRY">>] = Selected(<<p, "REGISTRY">>)

(* Only one source of registries is selected, and none enabled is newer.    *)
LEMMA OneRegistrySelected ==
  ASSUME TypeOK, NEW p \in Proto
  PROVE  LET asked == Selected(<<p, "REGISTRY">>)
         IN /\ asked = {} \/ \E s \in Source : asked = {s}
            /\ \A s \in asked, t \in Source \ Disabled :
                 <<p, "REGISTRY">> \in files[t].features =>
                   files[t].unixtime[p] <= files[s].unixtime[p]
<1> DEFINE f == <<p, "REGISTRY">>
           all == { s \in Source : f \in FeaturesOf(s) }
           date(s) == files[s].unixtime[p]
<1>1. files \in [Source -> File]
  BY FilesTyped DEF TypeOK
<1>2. \A s \in Source : date(s) \in Nat
  BY <1>1 DEF File
<1>3. \A s \in Source : f \in files[s].features => s \in {BUILTIN, EXTERNAL} /\ date(s) > 0
  <2> SUFFICES ASSUME NEW s \in Source, f \in files[s].features
               PROVE  s \in {BUILTIN, EXTERNAL} /\ date(s) > 0
    OBVIOUS
  <2>1. "REGISTRY" \in Implemented(s) /\ date(s) > 0
    BY DatabasesAssumption DEF TypeOK, files
  <2>2. s \in MMDB \/ s = IP2LOCATION \/ s = EXTERNAL \/ s = BUILTIN
    BY DEF Source, MMDB, GEOIP2, IP2LOCATION, IP2LOCATION2, DBIP2, EXTERNAL, BUILTIN
  <2>3. ASSUME s \in MMDB PROVE "REGISTRY" \notin Implemented(s)
    <3>1. Implemented(s) = {"CC", "AS", "GEONAMEID"}
      BY <2>3 DEF Implemented, MMDB, GEOIP2, IP2LOCATION, IP2LOCATION2, DBIP2, EXTERNAL, BUILTIN
    <3> QED
      BY <3>1
  <2>4. ASSUME s = IP2LOCATION PROVE "REGISTRY" \notin Implemented(s)
    <3>1. Implemented(s) = {"CC", "AS"}
      BY <2>4 DEF Implemented, MMDB, GEOIP2, IP2LOCATION, IP2LOCATION2, DBIP2, EXTERNAL, BUILTIN
    <3> QED
      BY <3>1
  <2> QED
    BY <2>1, <2>2, <2>3, <2>4
<1>4. \A s \in Source : s \in all <=> s \notin Disabled /\ f \in files[s].features
  BY DEF FeaturesOf
<1>5. all \subseteq {BUILTIN, EXTERNAL}
  BY <1>3, <1>4
<1>6. BUILTIN \in Source /\ EXTERNAL \in Source
  BY DEF BUILTIN, EXTERNAL, Source
<1>7. CASE {BUILTIN, EXTERNAL} \subseteq all
  <2>1. BothDated(p)
    BY <1>3, <1>4, <1>6, <1>7 DEF BothDated
  <2>2. Selected(f) = {Newer(p)}
    BY <1>7, <2>1 DEF Selected
  <2>3. /\ Newer(p) \in {BUILTIN, EXTERNAL}
        /\ date(BUILTIN) <= date(Newer(p)) /\ date(EXTERNAL) <= date(Newer(p))
    BY <1>2, <1>6 DEF Newer
  <2> HIDE DEF date
  <2>4. \A t \in Source \ Disabled : f \in files[t].features => date(t) <= date(Newer(p))
    BY <1>3, <2>3
  <2> QED
    BY <1>6, <2>2, <2>3, <2>4 DEF date
<1>8. CASE ~({BUILTIN, EXTERNAL} \subseteq all)
  <2>1. Selected(f) = all
    BY <1>8 DEF Selected
  <2>2. all = {} \/ \E s \in {BUILTIN, EXTERNAL} : all = {s}
    BY <1>5, <1>8
  <2>3. \A s \in all, t \in Source \ Disabled : f \in files[t].features => t = s
    BY <1>4, <2>2
  <2> HIDE DEF all, f
  <2>4. \A s \in all, t \in Source \ Disabled :
          f \in files[t].features => files[t].unixtime[p] <= files[s].unixtime[p]
    BY <1>2, <2>3
  <2> QED
    BY <1>6, <2>1, <2>2, <2>4 DEF f
<1> QED
  BY <1>7, <1>8

(* A registry is asked of one source, the newest that is enabled.           *)
THEOREM RegistryIsSingleNewest == Spec => []RegistrySingleNewest
<1>1. Init => RegistriesInv
  BY DEF Init, RegistriesInv
<1>2. RegistriesInv /\ [Next]_vars => RegistriesInv'
  <2> SUFFICES ASSUME RegistriesInv, [Next]_vars PROVE RegistriesInv'
    OBVIOUS
  <2>1. CASE WrapperInit
    <3>1. disable' = Disabled /\ UNCHANGED <<files, library>>
      BY <2>1 DEF WrapperInit, files, library
    <3>2. Disabled' = Disabled
      BY <3>1 DEF Disabled
    <3>3. \A p \in Proto : Selected(<<p, "REGISTRY">>)' = Selected(<<p, "REGISTRY">>)
      BY <3>1, <3>2 DEF Selected, FeaturesOf, BothDated, Newer
    <3>4. \A p \in Proto : features_selector'[<<p, "REGISTRY">>] = Selected(<<p, "REGISTRY">>)
      BY <2>1 DEF WrapperInit, Feature, Kind
    <3> QED
      BY <3>1, <3>2, <3>3, <3>4 DEF RegistriesInv
  <2>2. CASE phase' # "running"
    BY <2>2 DEF RegistriesInv
  <2>3. CASE UNCHANGED <<installed, phase, disable, features_selector>>
    <3>1. UNCHANGED <<files, library>>
      BY <2>3 DEF files, library
    <3>2. Disabled' = Disabled
      BY <2>3, <3>1 DEF Disabled
    <3>3. \A p \in Proto : Selected(<<p, "REGISTRY">>)' = Selected(<<p, "REGISTRY">>)
      BY <3>1, <3>2 DEF Selected, FeaturesOf, BothDated, Newer
    <3> QED
      BY <2>3, <3>2, <3>3 DEF RegistriesInv
  <2>4. CASE \/ \E s \in Disableable : OptionDisable(s)
             \/ \E tokens \in Priorities : OptionPriorization(tokens)
    <3>1. phase' # "running"
      BY <2>4 DEF OptionDisable, OptionPriorization
    <3> QED
      BY <2>2, <3>1
  <2>5. CASE \/ \E a \in Addr : CcIndexByAddr(a) \/ GeonameIDByAddr(a) \/ RegistryNumByAddr(a)
             \/ \E a \in Addr, orgname \in BOOLEAN : AsNum32ByAddr(a, orgname)
             \/ UNCHANGED vars
    <3>1. UNCHANGED <<installed, phase, disable, features_selector>>
      BY <2>5 DEF CcIndexByAddr, GeonameIDByAddr, RegistryNumByAddr, AsNum32ByAddr, vars, options
    <3> QED
      BY <2>3, <3>1
  <2> QED
    BY <2>1, <2>4, <2>5 DEF Next
<1>3. TypeOK /\ RegistriesInv => RegistrySingleNewest
  <2> SUFFICES ASSUME TypeOK, RegistriesInv, phase = "running", NEW p \in Proto
               PROVE  LET asked == features_selector[<<p, "REGISTRY">>]
                      IN /\ Cardinality(asked) <= 1
                         /\ \A s \in asked, t \in Source \ disable :
                              <<p, "REGISTRY">> \in files[t].features =>
                                files[t].unixtime[p] <= files[s].unixtime[p]
    BY DEF RegistrySingleNewest
  <2> DEFINE asked == Selected(<<p, "REGISTRY">>)
  <2>1. features_selector[<<p, "REGISTRY">>] = asked /\ disable = Disabled
    BY DEF RegistriesInv
  <2>2. /\ asked = {} \/ \E s \in Source : asked = {s}
        /\ \A s \in asked, t \in Source \ Disabled :
             <<p, "REGISTRY">> \in files[t].features =>
               files[t].unixtime[p] <= files[s].unixtime[p]
    BY OneRegistrySelected
  <2>3. Cardinality(asked) = 0 \/ Cardinality(asked) = 1
    <3> HIDE DEF asked
    <3> QED
      BY <2>2, FS_EmptySet, FS_Singleton, Zenon
  <2>4. Cardinality(asked) <= 1
    <3> HIDE DEF asked
    <3> QED
      BY <2>3
  <2> QED
    BY <2>1, <2>2, <2>4
<1> QED
  BY <1>1, <1>2, <1>3, TypeCorrect, PTL DEF Spec

================================================================================
