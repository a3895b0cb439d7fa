---------------------------- MODULE ModConfig_proofs ----------------------------
(***************************************************************************)
(* Proofs about ModConfig, for any servers, directives, options and        *)
(* databases.                                                              *)
(***************************************************************************)
EXTENDS ModConfig, TLAPS

(* A directive keeps a record a record: no limit is taken that the arrays   *)
(* do not have.                                                             *)
LEMMA AfterType ==
  ASSUME NEW c \in Server, NEW d \in Directive
  PROVE  After(c, d) \in Server
<1>1. d \in DirectiveForm
  BY DirectivesAssumption
<1>2. CASE d \in [ name : {"Enable", "DefaultActive", "NoFallback", "Cache"}, value : BOOLEAN ]
  BY <1>2 DEF After, Server
<1>3. CASE d \in [ name : {"Action"}, action : Action, value : BOOLEAN ]
  BY <1>3 DEF After, Server
<1>4. CASE d \in [ name : {"SourceEnvName"}, value : Name \cup {"too long"} ]
  BY <1>4 DEF After, Server, Name
<1>5. CASE d \in [ name : {"CacheLimit"}, value : Int ]
  BY <1>5, LimitsAssumption DEF After, Server, FitsCache
<1>6. CASE d \in [ name : {"Logging"} ]
  BY <1>6 DEF After
<1> QED BY <1>1, <1>2, <1>3, <1>4, <1>5, <1>6 DEF DirectiveForm

LEMMA DefaultType == Default \in Server
BY LimitsAssumption DEF Default, Server, Name, as, AnonSet, Method, Masks

(* An option keeps anonymization settings what they are.                    *)
LEMMA AnonSetAfterType ==
  ASSUME NEW s \in AnonSet, NEW o \in Option
  PROVE  AnonSetAfter(s, o) \in AnonSet
<1>1. o \in OptionForm
  BY DirectivesAssumption
<1>2. CASE o \in [ kind : {"preset"}, set : Preset ]
  BY <1>2 DEF AnonSetAfter, AnonSet, Preset, Method, Masks
<1>3. CASE o \in [ kind : {"method"}, method : Method ]
  BY <1>3 DEF AnonSetAfter, AnonSet
<1>4. CASE o \in [ kind : {"disable"}, source : Source ] \cup [ kind : {"mask", "invalid", "unknown"} ]
  BY <1>4 DEF AnonSetAfter, AnonSet, Masks
<1> QED BY <1>1, <1>2, <1>3, <1>4 DEF OptionForm

LEMMA OptionSource ==
  ASSUME NEW o \in Option, o.kind = "disable"
  PROVE  o.source \in Source
BY DirectivesAssumption DEF OptionForm

LEMMA ServerParts ==
  ASSUME NEW c \in Server
  PROVE  /\ c.anon_set \in AnonSet /\ c.enabled \in BOOLEAN /\ c.no_fallback \in BOOLEAN
         /\ \A s \in AnonSet : [c EXCEPT !.anon_set = s] \in Server
         /\ [c EXCEPT !.enabled = FALSE] \in Server
BY DEF Server

LEMMA DefaultsType == Defaults \in [Vhost -> Server]
BY DefaultType DEF Defaults

LEMMA NoOptions == <<>> \in Seq(Option) /\ Len(<<>>) = 0
OBVIOUS

THEOREM InitType == Init => TypeOK
<1> SUFFICES ASSUME Init PROVE TypeOK
  OBVIOUS
<1>1. option_list \in Seq(Option) /\ Len(option_list) = 0 /\ 0 \in 0 .. 0 /\ 0 <= OptionsMax
  BY NoOptions, LimitsAssumption DEF Init
<1>2. phase = "config" /\ {Main} \in SUBSET Vhost /\ {} \in SUBSET Source
  BY ServersAssumption DEF Init
<1> QED BY <1>1, <1>2, DefaultsType DEF Init, TypeOK, Method

THEOREM TypeStep == TypeOK /\ [Next]_vars => TypeOK'
<1> SUFFICES ASSUME TypeOK, [Next]_vars PROVE TypeOK'
  OBVIOUS
<1> USE ServersAssumption, LimitsAssumption
<1>1. ASSUME NEW h \in Vhost, NEW d \in Directive, Configure(h, d) PROVE TypeOK'
  <2>1. After(conf[h], d) \in Server
    BY AfterType DEF TypeOK
  <2> QED BY <1>1, <2>1 DEF TypeOK, Configure
<1>2. ASSUME NEW h \in Vhost, NEW d \in Directive, Override(h, d) PROVE TypeOK'
  <2>1. Owner(h) \in Vhost
    BY DEF Owner, TypeOK
  <2>2. After(child[Owner(h)], d) \in Server
    BY <2>1, AfterType DEF TypeOK
  <2> QED BY <1>2, <2>1, <2>2 DEF TypeOK, Override, startup
<1>3. ASSUME NEW h \in Vhost, NEW o \in Option, ConfigureOption(h, o) PROVE TypeOK'
  <2>1. CASE Len(option_list) < OptionsMax
    <3>1. option_list' = Append(option_list, o) /\ UNCHANGED phase
      BY <1>3, <2>1 DEF ConfigureOption
    <3>2. option_list' \in Seq(Option) /\ Len(option_list') = Len(option_list) + 1
      BY <3>1 DEF TypeOK
    <3> QED BY <1>3, <2>1, <3>1, <3>2 DEF TypeOK, ConfigureOption
  <2>2. CASE ~(Len(option_list) < OptionsMax)
    BY <1>3, <2>2 DEF TypeOK, ConfigureOption
  <2> QED BY <2>1, <2>2
<1>4. CASE NotEnabled
  BY <1>4 DEF TypeOK, NotEnabled, startup
<1>5. CASE SupportInit
  BY <1>5 DEF TypeOK, SupportInit, startup
<1>6. CASE ApplyOption
  <2> DEFINE o == option_list[applied + 1]
  <2>1. applied + 1 \in 1 .. Len(option_list) /\ o \in Option
    BY <1>6 DEF TypeOK, ApplyOption
  <2>2. AnonSetAfter(conf[Main].anon_set, o) \in AnonSet
    BY <2>1, AnonSetAfterType, ServerParts DEF TypeOK
  <2>3. [conf[Main] EXCEPT !.anon_set = AnonSetAfter(conf[Main].anon_set, o)] \in Server
    BY <2>2, ServerParts DEF TypeOK
  <2>4. conf' \in [Vhost -> Server]
    BY <1>6, <2>3 DEF TypeOK, ApplyOption
  <2>5. disable' \in SUBSET Source
    BY <1>6, <2>1, OptionSource DEF TypeOK, ApplyOption
  <2>6. phase' \in {"options", "stopped"}
    BY <1>6 DEF ApplyOption
  <2>7. applied' \in 0 .. Len(option_list')
    BY <1>6, <2>1 DEF TypeOK, ApplyOption
  <2> QED BY <1>6, <2>4, <2>5, <2>6, <2>7 DEF TypeOK, ApplyOption
<1>7. CASE DbWrapperInit
  <2>1. conf' \in [Vhost -> Server]
    <3>1. [conf[Main] EXCEPT !.enabled = FALSE] \in Server
      BY ServerParts DEF TypeOK
    <3> QED BY <1>7, <3>1 DEF TypeOK, DbWrapperInit
  <2>2. feature_kp' \in BOOLEAN /\ feature_kg' \in BOOLEAN
    BY <1>7 DEF TypeOK, DbWrapperInit
  <2>3. phase' \in {"method", "stopped"}
    BY <1>7 DEF DbWrapperInit
  <2> QED BY <1>7, <2>1, <2>2, <2>3 DEF TypeOK, DbWrapperInit
<1>8. CASE ChooseMethod
  <2> DEFINE s == IF FallsBack(conf[Main]) THEN as ELSE conf[Main].anon_set
  <2>1. s \in AnonSet /\ s.method \in Method
    BY ServerParts DEF TypeOK, as, AnonSet, Method, Masks
  <2>2. [conf[Main] EXCEPT !.anon_set = s] \in Server
    BY <2>1, ServerParts DEF TypeOK
  <2>3. CASE Lacks(conf[Main].anon_set) /\ ~FallsBack(conf[Main])
    BY <1>8, <2>3 DEF TypeOK, ChooseMethod
  <2>4. CASE ~(Lacks(conf[Main].anon_set) /\ ~FallsBack(conf[Main]))
    <3>1. /\ conf' = [conf EXCEPT ![Main].anon_set = s] /\ anon_method_name' = s.method
          /\ phase' = "running" /\ child' = conf' /\ given' = 0
      BY <1>8, <2>4 DEF ChooseMethod, Named
    <3>2. conf' \in [Vhost -> Server]
      BY <3>1, <2>2 DEF TypeOK
    <3> HIDE DEF s
    <3> QED BY <1>8, <2>1, <3>1, <3>2 DEF TypeOK, ChooseMethod
  <2> QED BY <2>3, <2>4
<1>9. CASE NewChild
  BY <1>9 DEF TypeOK, NewChild, startup
<1>10. CASE Restart
  <2>1. option_list' \in Seq(Option) /\ Len(option_list') = 0 /\ 0 \in 0 .. 0 /\ 0 <= OptionsMax
    BY <1>10, NoOptions, LimitsAssumption DEF Restart
  <2>2. phase' = "config" /\ {Main} \in SUBSET Vhost /\ {} \in SUBSET Source
    BY <1>10, ServersAssumption DEF Restart
  <2> QED BY <1>10, <2>1, <2>2, DefaultsType DEF Restart, TypeOK, Method
<1>11. CASE UNCHANGED vars
  BY <1>11 DEF TypeOK, vars, startup
<1> QED BY <1>1, <1>2, <1>3, <1>4, <1>5, <1>6, <1>7, <1>8, <1>9, <1>10, <1>11 DEF Next

(* Every variable keeps a value of its kind: however directives are mixed,  *)
(* in the configuration or in a child, no server gets a cache limit that    *)
(* the arrays do not have.                                                  *)
THEOREM TypeCorrect == Spec => []TypeOK
<1>1. Init => TypeOK
  BY InitType
<1>2. TypeOK /\ [Next]_vars => TypeOK'
  BY TypeStep
<1> QED BY <1>1, <1>2, PTL DEF Spec

--------------------------------------------------------------------------------
(* The method in effect.                                                    *)

Naming(n) == { i \in 1 .. n : option_list[i].kind \in {"preset", "method"} }

LEMMA AskedIs ==
  \A n : Asked(n) = IF Naming(n) = {} THEN "anonymize"
                    ELSE MethodOf(option_list[CHOOSE i \in Naming(n) : \A j \in Naming(n) : j <= i])
BY DEF Asked, Naming

(* What was asked for depends on the list of options only.                  *)
LEMMA AskedStays ==
  ASSUME option_list' = option_list
  PROVE  \A n : Asked(n)' = Asked(n)
BY DEF Asked, MethodOf

LEMMA NothingAsked == Asked(0) = "anonymize"
<1>1. Naming(0) = {}
  BY DEF Naming
<1> QED BY <1>1, AskedIs

(* The method asked for is that of the option applied last, if it names     *)
(* one.                                                                     *)
LEMMA AskedStep ==
  ASSUME NEW n \in Nat
  PROVE  Asked(n + 1) = IF option_list[n + 1].kind \in {"preset", "method"}
                        THEN MethodOf(option_list[n + 1]) ELSE Asked(n)
<1>1. CASE option_list[n + 1].kind \in {"preset", "method"}
  <2>1. n + 1 \in Naming(n + 1) /\ \A j \in Naming(n + 1) : j <= n + 1
    BY <1>1 DEF Naming
  <2>2. \A i \in Naming(n + 1) : (\A j \in Naming(n + 1) : j <= i) => i = n + 1
    BY <2>1 DEF Naming
  <2>3. (CHOOSE i \in Naming(n + 1) : \A j \in Naming(n + 1) : j <= i) = n + 1
    BY <2>1, <2>2
  <2>4. Naming(n + 1) # {}
    BY <2>1
  <2>5. Asked(n + 1) =
          MethodOf(option_list[CHOOSE i \in Naming(n + 1) : \A j \in Naming(n + 1) : j <= i])
    BY <2>4, AskedIs
  <2> QED BY <1>1, <2>3, <2>5
<1>2. CASE option_list[n + 1].kind \notin {"preset", "method"}
  <2>1. Naming(n + 1) = Naming(n)
    BY <1>2 DEF Naming
  <2> QED BY <1>2, <2>1, AskedIs
<1> QED BY <1>1, <1>2

(* An option changes the method as it is asked to.                          *)
LEMMA AnonSetAfterMethod ==
  ASSUME NEW s \in AnonSet, NEW o \in Option
  PROVE  AnonSetAfter(s, o).method =
           IF o.kind \in {"preset", "method"} THEN MethodOf(o) ELSE s.method
<1>1. o \in OptionForm
  BY DirectivesAssumption
<1> QED BY <1>1 DEF AnonSetAfter, MethodOf, OptionForm, AnonSet

LEMMA AfterAnonSet ==
  ASSUME NEW c \in Server, NEW d \in Directive
  PROVE  After(c, d).anon_set = c.anon_set
<1>1. d \in DirectiveForm
  BY DirectivesAssumption
<1> QED BY <1>1 DEF After, Server, DirectiveForm

Reading ==
  phase = "config" =>
    applied = 0 /\ anon_method_name = "-" /\ \A h \in Vhost : conf[h].anon_set = as

Applying ==
  phase \in {"options", "method"} =>
    conf[Main].anon_set.method = Asked(applied) /\ anon_method_name = "-"

Initialised ==
  phase = "method" =>
    /\ applied = Len(option_list)
    /\ ~fails => /\ conf[Main].enabled
                 /\ feature_kp = (KEEPTYPEASNCC_REQ_DB \subseteq wrapper_features)
    /\ fails => ~conf[Main].enabled /\ ~conf[Main].no_fallback

(* Before the databases are looked at, the main server is enabled.          *)
Chosen == phase = "options" => conf[Main].enabled

(* The method is the one asked for, or has been given up for a reason.      *)
Kept == conf[Main].anon_set.method = Asked(Len(option_list))

GivenUp ==
  /\ ~conf[Main].no_fallback /\ conf[Main].anon_set = as
  /\ Asked(Len(option_list)) = "keep-type-asn-cc"
  /\ ~(KEEPTYPEASNCC_REQ_DB \subseteq wrapper_features)

Started ==
  phase = "running" =>
    /\ conf[Main].no_fallback /\ fails => anon_method_name = "-"
    /\ conf[Main].enabled => anon_method_name = conf[Main].anon_set.method /\ (Kept \/ GivenUp)

Stopped ==
  phase = "stopped" /\ ~conf[Main].no_fallback =>
    \/ Len(option_list) = OptionsMax
    \/ applied > 0 /\ option_list[applied].kind = "invalid"

Settled == Reading /\ Applying /\ Initialised /\ Chosen /\ Started /\ Stopped

THEOREM InitSettled == Init => Settled
<1> SUFFICES ASSUME Init PROVE Settled
  OBVIOUS
<1>1. phase = "config" /\ applied = 0 /\ anon_method_name = "-" /\ conf = Defaults
  BY DEF Init
<1>2. \A h \in Vhost : conf[h].anon_set = as
  BY <1>1 DEF Defaults, Default
<1> QED BY <1>1, <1>2 DEF Settled, Reading, Applying, Initialised, Chosen, Started, Stopped

(* What Settled says depends on these variables only.                       *)
LEMMA SettledFrame ==
  ASSUME Settled, UNCHANGED <<phase, conf, startup>>
  PROVE  Settled'
<1>1. Asked(applied)' = Asked(applied) /\ Asked(Len(option_list))' = Asked(Len(option_list))
  BY AskedStays DEF startup
<1>2. fails' = fails /\ wrapper_features' = wrapper_features
  BY DEF fails, wrapper_features, startup
<1> QED BY <1>1, <1>2 DEF Settled, Reading, Applying, Initialised, Chosen, Started, Kept, GivenUp,
           Stopped, startup

THEOREM SettledStep == TypeOK /\ Settled /\ [Next]_vars => Settled'
<1> SUFFICES ASSUME TypeOK, Settled, [Next]_vars PROVE Settled'
  OBVIOUS
<1> USE ServersAssumption DEF Settled
<1>1. ASSUME NEW h \in Vhost, NEW d \in Directive, Configure(h, d) PROVE Settled'
  <2>1. phase = "config" /\ phase' = "config" /\ applied' = 0 /\ anon_method_name' = "-"
    BY <1>1 DEF Configure, Reading
  <2>2. \A g \in Vhost : conf'[g].anon_set = as
    BY <1>1, <2>1, AfterAnonSet DEF Configure, Reading, TypeOK
  <2> QED BY <2>1, <2>2 DEF Reading, Applying, Initialised, Chosen, Started, Stopped
<1>2. ASSUME NEW h \in Vhost, NEW d \in Directive, Override(h, d) PROVE Settled'
  BY <1>2, SettledFrame DEF Override
<1>3. ASSUME NEW h \in Vhost, NEW o \in Option, ConfigureOption(h, o) PROVE Settled'
  <2>1. phase = "config" /\ applied' = 0 /\ anon_method_name' = "-" /\ conf' = conf
    BY <1>3 DEF ConfigureOption, Reading
  <2>2. CASE Len(option_list) < OptionsMax
    BY <1>3, <2>1, <2>2 DEF ConfigureOption, Reading, Applying, Initialised, Chosen, Started, Stopped
  <2>3. CASE ~(Len(option_list) < OptionsMax)
    <3>1. phase' = "stopped" /\ option_list' = option_list /\ Len(option_list) = OptionsMax
      BY <1>3, <2>3, LimitsAssumption DEF ConfigureOption, TypeOK
    <3> QED BY <3>1 DEF Reading, Applying, Initialised, Chosen, Started, Stopped
  <2> QED BY <2>2, <2>3
<1>4. CASE NotEnabled
  <2>1. phase' = "running" /\ ~conf'[Main].enabled /\ anon_method_name' = "-"
    BY <1>4 DEF NotEnabled, Reading, startup
  <2> QED BY <2>1 DEF Reading, Applying, Initialised, Chosen, Started, Stopped
<1>5. CASE SupportInit
  <2>1. /\ phase' = "options" /\ applied' = 0 /\ anon_method_name' = "-" /\ conf'[Main].enabled
        /\ conf'[Main].anon_set.method = "anonymize" /\ option_list' = option_list
    BY <1>5 DEF SupportInit, Reading, startup, as
  <2>2. Asked(0)' = "anonymize"
    <3>1. Asked(0)' = Asked(0)
      BY <2>1, AskedStays
    <3> QED BY <3>1, NothingAsked
  <2> QED BY <2>1, <2>2 DEF Reading, Applying, Initialised, Chosen, Started, Stopped
<1>6. CASE ApplyOption
  <2> DEFINE o == option_list[applied + 1]
  <2>1. /\ applied \in Nat /\ applied + 1 \in 1 .. Len(option_list) /\ o \in Option
        /\ phase = "options" /\ applied' = applied + 1 /\ option_list' = option_list
    BY <1>6 DEF TypeOK, ApplyOption
  <2>2. conf[Main] \in Server /\ conf[Main].anon_set \in AnonSet
    BY ServerParts DEF TypeOK
  <2>3. conf'[Main] = [conf[Main] EXCEPT !.anon_set = AnonSetAfter(conf[Main].anon_set, o)]
    BY <1>6 DEF TypeOK, ApplyOption
  <2>4. /\ conf'[Main].enabled = conf[Main].enabled
        /\ conf'[Main].anon_set = AnonSetAfter(conf[Main].anon_set, o)
    BY <2>2, <2>3 DEF Server
  <2>5. conf[Main].anon_set.method = Asked(applied)
    BY <2>1 DEF Applying
  <2>6. conf'[Main].anon_set.method = Asked(applied + 1)
    BY <2>1, <2>2, <2>4, <2>5, AnonSetAfterMethod, AskedStep
  <2>7. Asked(applied)' = Asked(applied + 1)
    BY <2>1, AskedStays
  <2>8. anon_method_name' = "-"
    BY <1>6, <2>1 DEF ApplyOption, Applying
  <2>9. phase' = IF o.kind = "invalid" THEN "stopped" ELSE "options"
    BY <1>6, <2>1 DEF ApplyOption
  <2>10. conf'[Main].enabled
    BY <2>1, <2>4 DEF Chosen
  <2>11. Stopped'
    BY <2>1, <2>9 DEF Stopped
  <2> QED BY <2>6, <2>7, <2>8, <2>9, <2>10, <2>11 DEF Reading, Applying, Initialised, Chosen, Started
<1>7. CASE DbWrapperInit
  <2>1. /\ phase = "options" /\ applied = Len(option_list) /\ anon_method_name' = "-"
        /\ applied' = applied /\ option_list' = option_list /\ conf[Main].enabled
        /\ conf[Main].anon_set.method = Asked(applied)
    BY <1>7 DEF DbWrapperInit, Applying, Chosen
  <2>2. Asked(applied)' = Asked(applied)
    BY <2>1, AskedStays
  <2>3. fails' = fails /\ wrapper_features' = wrapper_features
    BY <1>7 DEF DbWrapperInit, fails, wrapper_features
  <2>4. /\ conf'[Main].anon_set = conf[Main].anon_set
        /\ conf'[Main].no_fallback = conf[Main].no_fallback
        /\ conf'[Main].enabled = ~fails
    <3>1. conf[Main] \in Server /\ fails \in BOOLEAN
      BY DatabasesAssumption DEF TypeOK, fails
    <3>2. CASE fails
      <4> HIDE DEF Settled
      <4>1. conf' = [conf EXCEPT ![Main].enabled = FALSE]
        BY <1>7, <3>2 DEF DbWrapperInit
      <4>2. conf \in [Vhost -> Server] /\ Main \in Vhost
        BY DEF TypeOK
      <4>3. conf'[Main] = [conf[Main] EXCEPT !.enabled = FALSE]
        BY <4>1, <4>2
      <4> QED BY <3>1, <3>2, <4>3 DEF Server
    <3>3. CASE ~fails
      BY <1>7, <2>1, <3>1, <3>3 DEF DbWrapperInit
    <3> QED BY <3>2, <3>3
  <2>5. CASE fails
    BY <1>7, <2>1, <2>2, <2>3, <2>4, <2>5
       DEF DbWrapperInit, FailureStops, Reading, Applying, Initialised, Chosen, Started, Stopped
  <2>6. CASE ~fails
    <3>1. phase' = "method" /\ feature_kp' = (KEEPTYPEASNCC_REQ_DB \subseteq wrapper_features)
      BY <1>7, <2>6 DEF DbWrapperInit
    <3> QED BY <2>1, <2>2, <2>3, <2>4, <2>6, <3>1
            DEF Reading, Applying, Initialised, Chosen, Started, Stopped
  <2> QED BY <2>5, <2>6
<1>8. CASE ChooseMethod
  <2>1. /\ phase = "method" /\ applied = Len(option_list) /\ option_list' = option_list
        /\ conf[Main].anon_set.method = Asked(Len(option_list)) /\ anon_method_name = "-"
    BY <1>8 DEF ChooseMethod, Applying, Initialised
  <2>2. Asked(Len(option_list))' = Asked(Len(option_list))
    BY <2>1, AskedStays
  <2>3. fails' = fails /\ wrapper_features' = wrapper_features
    BY <1>8 DEF ChooseMethod, fails, wrapper_features
  <2>4. CASE Lacks(conf[Main].anon_set) /\ ~FallsBack(conf[Main])
    BY <1>8, <2>4 DEF ChooseMethod, FallsBack, Reading, Applying, Initialised, Chosen, Started, Stopped
  <2>5. CASE FallsBack(conf[Main])
    <3>1. /\ conf' = [conf EXCEPT ![Main].anon_set = as] /\ anon_method_name' = as.method
          /\ phase' = "running"
      BY <1>8, <2>5 DEF ChooseMethod, Named
    <3>2. /\ conf'[Main].anon_set = as /\ conf'[Main].enabled = conf[Main].enabled
          /\ conf'[Main].no_fallback = conf[Main].no_fallback
      BY <3>1 DEF TypeOK, Server
    <3>3. /\ ~conf[Main].no_fallback /\ ~feature_kp
          /\ Asked(Len(option_list)) = "keep-type-asn-cc"
      BY <2>1, <2>5 DEF FallsBack, Lacks
    <3>4. conf[Main].enabled => ~(KEEPTYPEASNCC_REQ_DB \subseteq wrapper_features)
      <4>1. conf[Main].enabled => ~fails
        BY <2>1 DEF Initialised
      <4> QED BY <2>1, <3>3, <4>1 DEF Initialised
    <3>5. conf[Main].enabled => GivenUp'
      BY <2>2, <2>3, <3>2, <3>3, <3>4 DEF GivenUp
    <3> QED BY <3>1, <3>2, <3>3, <3>5 DEF Reading, Applying, Initialised, Chosen, Started, Stopped
  <2>6. CASE ~FallsBack(conf[Main]) /\ ~Lacks(conf[Main].anon_set)
    <3>1. /\ conf' = [conf EXCEPT ![Main].anon_set = conf[Main].anon_set]
          /\ anon_method_name' = conf[Main].anon_set.method /\ phase' = "running"
      BY <1>8, <2>6 DEF ChooseMethod, Named
    <3>2. conf'[Main] = conf[Main]
      BY <3>1 DEF TypeOK, Server
    <3>3. Kept'
      BY <2>1, <2>2, <3>2 DEF Kept
    <3>4. fails => ~conf[Main].no_fallback
      BY <2>1 DEF Initialised
    <3> QED BY <2>3, <3>1, <3>2, <3>3, <3>4
            DEF Reading, Applying, Initialised, Chosen, Started, Stopped
  <2> QED BY <2>4, <2>5, <2>6 DEF FallsBack
<1>9. CASE NewChild
  BY <1>9, SettledFrame DEF NewChild
<1>10. CASE Restart
  <2>1. /\ phase' = "config" /\ applied' = 0 /\ anon_method_name' = "-" /\ conf' = Defaults
    BY <1>10 DEF Restart
  <2> QED BY <2>1 DEF Reading, Applying, Initialised, Chosen, Started, Stopped, Defaults, Default
<1>11. CASE UNCHANGED vars
  BY <1>11, SettledFrame DEF vars
<1> QED BY <1>1, <1>2, <1>3, <1>4, <1>5, <1>6, <1>7, <1>8, <1>9, <1>10, <1>11 DEF Next

LEMMA AlwaysSettled == Spec => [](TypeOK /\ Settled)
<1>1. Init => TypeOK /\ Settled
  BY InitType, InitSettled
<1>2. TypeOK /\ Settled /\ [Next]_vars => (TypeOK /\ Settled)'
  BY TypeStep, SettledStep
<1> QED BY <1>1, <1>2, PTL DEF Spec

(* A main server started without fallback uses the method that was asked    *)
(* for, whatever the databases are.                                         *)
THEOREM MethodKept == Spec => []NoFallbackKeepsMethod
<1>1. Settled => NoFallbackKeepsMethod
  BY DEF Settled, Started, Kept, GivenUp, NoFallbackKeepsMethod
<1> QED BY <1>1, AlwaysSettled, PTL

(* Any other method is the standard one in place of keep-type-asn-cc, when  *)
(* the databases lack something for it.                                     *)
THEOREM FallbackNeeded == Spec => []FallbackOnlyWhenNeeded
<1>1. Settled => FallbackOnlyWhenNeeded
  BY DEF Settled, Started, Kept, GivenUp, FallbackOnlyWhenNeeded
<1> QED BY <1>1, AlwaysSettled, PTL

(* The method told is the main server's.                                    *)
THEOREM MethodNamed == Spec => []MethodIsNamed
<1>1. Settled => MethodIsNamed
  BY DEF Settled, Started, MethodIsNamed
<1> QED BY <1>1, AlwaysSettled, PTL

(* httpd is stopped, and is not stopped, as the main server's setting says. *)
THEOREM StopsRightly == Spec => []StopsAsAsked
<1>1. Settled => StopsAsAsked
  BY DEF Settled, Started, Stopped, StopsAsAsked
<1> QED BY <1>1, AlwaysSettled, PTL

================================================================================
