------------------------------- MODULE RunProofs -------------------------------
(***************************************************************************)
(* Theorems about what a run is made from and held against: the registries *)
(* (RunRegistries), the paced clock (SimTime), the scenario runner         *)
(* (ScenarioRun), the versions of a schema (SchemaCompat), the unified     *)
(* namespace (UnifiedNamespace), the loaders of the configuration          *)
(* (FacilityConfig), and the projection of the roadmap onto the tracker    *)
(* (RoadmapSync).  As in ComponentsProofs, each is proved about the        *)
(* component and lifted to PartsSpec.                                      *)
(***************************************************************************)
EXTENDS ComponentsProofs
-----------------------------------------------------------------------------
(* RunRegistries: addresses and their generators.                          *)

Declaration == [name : StreamNames, retired : BOOLEAN]

\* What get() records of a handout.
Issue(name, args) ==
    [name |-> name, args |-> args, generator |-> generator_for(Resolve(name, args))]

\* The arguments get() lets through for a name.
GoodArgs(name, args) ==
    /\ args \in [Placeholders(name) -> Slugs \cup BadIds]
    /\ \A key \in Placeholders(name) : args[key] \in Slugs

Issues == {Issue(name, args) : name \in StreamNames, args \in UNION {ArgsFor(n) : n \in StreamNames}}

DeclarationsInv ==
    /\ declared \in Seq(Declaration) /\ Len(declared) <= STREAM_COUNT_CEILING
    /\ \A i, j \in 1..Len(declared) : declared[i].name = declared[j].name => i = j

IssuedInv ==
    /\ issued \in Seq(Issues) /\ handouts \in Seq(StreamNames) /\ Len(issued) = Len(handouts)
    /\ \A i \in 1..Len(issued) :
          /\ issued[i].name = handouts[i]
          /\ issued[i] = Issue(issued[i].name, issued[i].args)
          /\ issued[i].name \in StreamNames /\ GoodArgs(issued[i].name, issued[i].args)
          /\ Declares(issued[i].name) /\ ~Retired(issued[i].name)

HooksInv ==
    /\ hooks \in Seq(HookNames)
    /\ \A i, j \in 1..Len(hooks) : hooks[i] = hooks[j] => i = j

RegistryInv == DeclarationsInv /\ IssuedInv /\ HooksInv

\* The segments of a resolved name.
LEMMA ResolvedIs ==
    ASSUME NEW name \in StreamNames, NEW args
    PROVE  /\ Resolve(name, args).segments = [i \in DOMAIN name.segments |->
                  IF name.segments[i].kind = "slot"
                  THEN [kind |-> "text", of |-> args[name.segments[i].of]]
                  ELSE name.segments[i]]
           /\ Placeholders(Resolve(name, args)) = {}
  <1> DEFINE filled == [i \in DOMAIN name.segments |->
                           IF name.segments[i].kind = "slot"
                           THEN [kind |-> "text", of |-> args[name.segments[i].of]]
                           ELSE name.segments[i]]
  <1>1. Resolve(name, args) = [name EXCEPT !.segments = filled] BY DEF Resolve
  <1>2. "segments" \in DOMAIN name BY RegistryAssumption
  <1>3. Resolve(name, args).segments = filled
    <2> HIDE DEF filled
    <2> QED BY <1>1, <1>2
  <1>4. \A i \in DOMAIN filled : filled[i].kind # "slot" OBVIOUS
  <1> HIDE DEF filled
  <1>5. Placeholders(Resolve(name, args)) = {} BY <1>3, <1>4 DEF Placeholders
  <1> QED BY <1>3, <1>5 DEF filled

\* Two sets of entity ids under one name give two addresses.
LEMMA AddressesDiffer ==
    ASSUME NEW name \in StreamNames, NEW a, NEW b, GoodArgs(name, a), GoodArgs(name, b),
           Resolve(name, a) = Resolve(name, b)
    PROVE  a = b
  <1>1. ASSUME NEW key \in Placeholders(name) PROVE a[key] = b[key]
    <2>1. PICK i \in DOMAIN name.segments :
             name.segments[i].kind = "slot" /\ name.segments[i].of = key
      BY <1>1 DEF Placeholders
    <2>2. ASSUME NEW x PROVE Resolve(name, x).segments[i] = [kind |-> "text", of |-> x[key]]
      <3>1. Resolve(name, x).segments = [k \in DOMAIN name.segments |->
                IF name.segments[k].kind = "slot"
                THEN [kind |-> "text", of |-> x[name.segments[k].of]] ELSE name.segments[k]]
        BY ResolvedIs
      <3>2. Resolve(name, x).segments[i] = [kind |-> "text", of |-> x[name.segments[i].of]]
        BY <2>1, <3>1
      <3> QED BY <2>1, <3>2
    <2>3. /\ Resolve(name, a).segments[i] = [kind |-> "text", of |-> a[key]]
          /\ Resolve(name, b).segments[i] = [kind |-> "text", of |-> b[key]]
      BY <2>2, Zenon
    <2>4. [kind |-> "text", of |-> a[key]] = [kind |-> "text", of |-> b[key]]
      BY <2>3, Zenon
    <2>5. [kind |-> "text", of |-> a[key]].of = [kind |-> "text", of |-> b[key]].of BY <2>4, Zenon
    <2> QED BY <2>5
  <1> QED BY <1>1 DEF GoodArgs

\* register() takes no name away and retires none.
LEMMA RegisterNameKeeps ==
    ASSUME RegistryInv, NEW name \in StreamNames, NEW retired \in BOOLEAN, Register(name, retired)
    PROVE  RegistryInv'
  <1> DEFINE d == [name |-> name, retired |-> retired]
  <1>1. /\ ~Declares(name) /\ Len(declared) < STREAM_COUNT_CEILING
        /\ declared' = Append(declared, d)
        /\ UNCHANGED <<handouts, issued, hooks>>
    BY DEF Register
  <1>2. declared \in Seq(Declaration) /\ d \in Declaration /\ d.name = name
    BY DEF RegistryInv, DeclarationsInv, Declaration
  <1> HIDE DEF d
  <1>3. /\ declared' \in Seq(Declaration) /\ Len(declared) \in Nat
        /\ Len(declared') = Len(declared) + 1
        /\ \A i \in 1..Len(declared) : declared'[i] = declared[i]
        /\ declared'[Len(declared) + 1] = d
    BY <1>1, <1>2, Appended
  <1>4. \A i \in 1..Len(declared') : i \in 1..Len(declared) \/ i = Len(declared) + 1 BY <1>3
  <1>5. \A i \in 1..Len(declared) : declared[i].name # name BY <1>1, <1>2 DEF Declares
  <1>6. \A i, j \in 1..Len(declared') : declared'[i].name = declared'[j].name => i = j
    BY <1>2, <1>3, <1>4, <1>5 DEF RegistryInv, DeclarationsInv
  <1>7. Len(declared') <= STREAM_COUNT_CEILING BY <1>1, <1>3, RegistryAssumption
  <1>8. DeclarationsInv' BY <1>3, <1>6, <1>7 DEF DeclarationsInv
  <1>9. /\ DOMAIN declared = 1..Len(declared) /\ DOMAIN declared' = 1..Len(declared')
        /\ \A i \in 1..Len(declared) : i \in 1..Len(declared')
    BY <1>2, <1>3
  <1>10. ASSUME NEW n, Declares(n), ~Retired(n) PROVE Declares(n)' /\ ~Retired(n)'
    <2>1. n # name BY <1>1, <1>10
    <2>2. Declares(n)' BY <1>3, <1>9, <1>10 DEF Declares
    <2>3. ~Retired(n)' BY <1>2, <1>3, <1>4, <1>9, <1>10, <2>1 DEF Retired
    <2> QED BY <2>2, <2>3
  <1>11. \A i \in 1..Len(issued) : Declares(issued[i].name)' /\ ~Retired(issued[i].name)'
    BY <1>1, <1>10 DEF RegistryInv, IssuedInv
  <1>12. IssuedInv' BY <1>1, <1>11 DEF RegistryInv, IssuedInv
  <1>13. HooksInv' BY <1>1 DEF RegistryInv, HooksInv
  <1> QED BY <1>8, <1>12, <1>13 DEF RegistryInv

\* get() issues what it records.
LEMMA GetKeeps ==
    ASSUME RegistryInv, NEW name \in StreamNames, NEW args \in ArgsFor(name), Get(name, args)
    PROVE  RegistryInv'
  <1>1. /\ Declares(name) /\ ~Retired(name) /\ DOMAIN args = Placeholders(name)
        /\ \A key \in DOMAIN args : args[key] \in Slugs
        /\ handouts' = Append(handouts, name) /\ issued' = Append(issued, Issue(name, args))
        /\ UNCHANGED <<declared, hooks>>
    BY DEF Get, Issue
  <1>2. GoodArgs(name, args)
    <2>1. PICK keys \in {Placeholders(name), {}} : args \in [keys -> Slugs \cup BadIds]
      BY DEF ArgsFor
    <2>2. keys = Placeholders(name) BY <1>1, <2>1
    <2> QED BY <1>1, <2>1, <2>2 DEF GoodArgs
  <1> DEFINE e == Issue(name, args)
  <1>3. e \in Issues BY DEF Issues
  <1>4. e.name = name /\ e.args = args BY DEF Issue
  <1> HIDE DEF e
  <1>5. e = Issue(e.name, e.args) BY <1>4 DEF e
  <1>6. issued \in Seq(Issues) /\ handouts \in Seq(StreamNames) /\ Len(issued) = Len(handouts)
    BY DEF RegistryInv, IssuedInv
  <1>7. /\ issued' \in Seq(Issues) /\ Len(issued) \in Nat /\ Len(issued') = Len(issued) + 1
        /\ \A i \in 1..Len(issued) : issued'[i] = issued[i]
        /\ issued'[Len(issued) + 1] = e
    BY <1>1, <1>3, <1>6, Appended DEF e
  <1>8. /\ handouts' \in Seq(StreamNames) /\ Len(handouts') = Len(handouts) + 1
        /\ \A i \in 1..Len(handouts) : handouts'[i] = handouts[i]
        /\ handouts'[Len(handouts) + 1] = name
    BY <1>1, <1>6, Appended
  <1>9. \A i \in 1..Len(issued') : i \in 1..Len(issued) \/ i = Len(issued) + 1 BY <1>7
  <1>10. /\ \A n : Declares(n)' <=> Declares(n)
         /\ \A n : Retired(n)' <=> Retired(n)
    BY <1>1 DEF Declares, Retired
  <1>11. ASSUME NEW i \in 1..Len(issued')
         PROVE  /\ issued'[i].name = handouts'[i]
                /\ issued'[i] = Issue(issued'[i].name, issued'[i].args)
                /\ issued'[i].name \in StreamNames /\ GoodArgs(issued'[i].name, issued'[i].args)
                /\ Declares(issued'[i].name) /\ ~Retired(issued'[i].name)
    <2>1. CASE i \in 1..Len(issued) BY <1>6, <1>7, <1>8, <2>1 DEF RegistryInv, IssuedInv
    <2>2. CASE i = Len(issued) + 1 BY <1>1, <1>2, <1>4, <1>5, <1>6, <1>7, <1>8, <2>2
    <2> QED BY <1>9, <2>1, <2>2
  <1>12. \A i \in 1..Len(issued') :
            /\ Declares(issued[i].name)' /\ ~Retired(issued[i].name)'
    BY <1>1, <1>11 DEF Declares, Retired
  <1>13. IssuedInv' BY <1>6, <1>7, <1>8, <1>11, <1>12 DEF IssuedInv
  <1>14. DeclarationsInv' /\ HooksInv' BY <1>1 DEF RegistryInv, DeclarationsInv, HooksInv
  <1> QED BY <1>13, <1>14 DEF RegistryInv

\* A hook that is there is refused.
LEMMA HookKeeps ==
    ASSUME RegistryInv, NEW hook, RegisterHook(hook)
    PROVE  RegistryInv'
  <1>1. /\ hook \in HookNames /\ ~Contains(hooks, hook) /\ hooks' = Append(hooks, hook)
        /\ UNCHANGED <<declared, handouts, issued>>
    BY DEF RegisterHook
  <1>2. hooks \in Seq(HookNames) BY DEF RegistryInv, HooksInv
  <1>3. /\ hooks' \in Seq(HookNames) /\ Len(hooks) \in Nat /\ Len(hooks') = Len(hooks) + 1
        /\ \A i \in 1..Len(hooks) : hooks'[i] = hooks[i]
        /\ hooks'[Len(hooks) + 1] = hook
    BY <1>1, <1>2, Appended
  <1>4. \A i \in 1..Len(hooks') : i \in 1..Len(hooks) \/ i = Len(hooks) + 1 BY <1>3
  <1>5. \A i \in 1..Len(hooks) : hooks[i] # hook BY <1>1 DEF Contains
  <1>6. HooksInv' BY <1>3, <1>4, <1>5 DEF RegistryInv, HooksInv
  <1>7. DeclarationsInv' /\ IssuedInv'
    BY <1>1 DEF RegistryInv, DeclarationsInv, IssuedInv, Declares, Retired
  <1> QED BY <1>6, <1>7 DEF RegistryInv

\* Two registries that nobody has used.
LEMMA RegistryBegins ==
    ASSUME RegistryInit
    PROVE  RegistryInv
  <1>1. declared = <<>> /\ handouts = <<>> /\ issued = <<>> /\ hooks = <<>> BY DEF RegistryInit
  <1>2. \A i \in 1..Len(<<>>) : FALSE OBVIOUS
  <1>3. DeclarationsInv BY <1>1, <1>2, RegistryAssumption DEF DeclarationsInv
  <1>4. IssuedInv BY <1>1, <1>2 DEF IssuedInv
  <1>5. HooksInv BY <1>1, <1>2 DEF HooksInv
  <1> QED BY <1>3, <1>4, <1>5 DEF RegistryInv

\* What is known of the registries is what they promise.
LEMMA RegistryMeans ==
    ASSUME RegistryInv
    PROVE  OneAddressOneStream /\ CatalogIsComplete
  <1>1. /\ DOMAIN issued = 1..Len(issued) /\ DOMAIN handouts = 1..Len(issued)
        /\ DOMAIN declared = 1..Len(declared) /\ DOMAIN hooks = 1..Len(hooks)
    BY DEF RegistryInv, DeclarationsInv, IssuedInv, HooksInv
  <1>2. ASSUME NEW i \in 1..Len(issued), NEW j \in 1..Len(issued)
        PROVE  /\ issued[i].name = issued[j].name =>
                     (issued[i].args = issued[j].args <=> issued[i].generator = issued[j].generator)
               /\ Placeholders(Resolve(issued[i].name, issued[i].args)) = {}
    <2> DEFINE n == issued[i].name
               a == issued[i].args
               m == issued[j].name
               b == issued[j].args
    <2>1. /\ n \in StreamNames /\ GoodArgs(n, a) /\ issued[i] = Issue(n, a)
          /\ m \in StreamNames /\ GoodArgs(m, b) /\ issued[j] = Issue(m, b)
      BY DEF RegistryInv, IssuedInv
    <2>2. /\ issued[i].generator = generator_for(Resolve(n, a))
          /\ issued[j].generator = generator_for(Resolve(m, b))
      <3>1. Issue(n, a).generator = generator_for(Resolve(n, a)) BY DEF Issue
      <3>2. Issue(m, b).generator = generator_for(Resolve(m, b)) BY DEF Issue
      <3> QED BY <2>1, <3>1, <3>2, Zenon
    <2> HIDE DEF n, a, m, b
    <2>3. ASSUME n = m, issued[i].generator = issued[j].generator PROVE a = b
      <3>1. generator_for(Resolve(n, a)).key = Resolve(n, a) BY DEF generator_for
      <3>2. generator_for(Resolve(n, b)).key = Resolve(n, b) BY DEF generator_for
      <3>3. Resolve(n, a) = Resolve(n, b) BY <2>2, <2>3, <3>1, <3>2, Zenon
      <3> QED BY <2>1, <2>3, <3>3, AddressesDiffer
    <2>4. n = m /\ a = b => issued[i].generator = issued[j].generator BY <2>2, Zenon
    <2>5. Placeholders(Resolve(n, a)) = {} BY <2>1, ResolvedIs
    <2> QED BY <2>3, <2>4, <2>5, Zenon DEF n, a, m, b
  <1>3. OneAddressOneStream BY <1>1, <1>2 DEF OneAddressOneStream
  <1>4. ASSUME NEW i \in 1..Len(issued)
        PROVE  /\ Declares(issued[i].name) /\ ~Retired(issued[i].name)
               /\ HandoutCount(issued[i].name)
                    = Cardinality({j \in DOMAIN issued : issued[j].name = issued[i].name})
    <2>1. {j \in DOMAIN handouts : handouts[j] = issued[i].name}
             = {j \in DOMAIN issued : issued[j].name = issued[i].name}
      BY <1>1 DEF RegistryInv, IssuedInv
    <2>2. HandoutCount(issued[i].name)
             = Cardinality({j \in DOMAIN handouts : handouts[j] = issued[i].name})
      BY DEF HandoutCount
    <2> QED BY <2>1, <2>2 DEF RegistryInv, IssuedInv
  <1>5. /\ Len(declared) <= STREAM_COUNT_CEILING
        /\ \A i, j \in DOMAIN declared : declared[i].name = declared[j].name => i = j
    BY <1>1 DEF RegistryInv, DeclarationsInv
  <1>6. IsInjective(hooks) BY <1>1 DEF RegistryInv, HooksInv, IsInjective
  <1>7. CatalogIsComplete BY <1>1, <1>4, <1>5, <1>6 DEF CatalogIsComplete
  <1> QED BY <1>3, <1>7

\* StreamRegistry and the hook registry: an address is one stream's whatever was asked for
\* before, and the record of handouts accounts for every generator in use; for any names,
\* entity ids and ceiling.
THEOREM RegistriesCorrect ==
    PartsSpec => [](part = "registries" => OneAddressOneStream /\ CatalogIsComplete)
  <1> DEFINE Inv == part = "registries" => RegistryInv
  <1>1. PartsInit => Inv BY RegistryBegins DEF PartsInit
  <1>2. ASSUME Inv, [PartsNext]_<<part, vars, tool_vars, portal_vars, temperature_vars,
                        bus_vars, mqtt_vars, registry_vars, time_vars, scenario_vars, facility,
                        config_vars, versions, archive_vars, sync_vars, rules_vars, thread_vars>>
        PROVE  Inv'
    <2>1. UNCHANGED part BY <1>2, PartRuns
    <2>2. ASSUME part = "registries" PROVE RegistryNext \/ UNCHANGED registry_vars
      BY <1>2, <2>2 DEF PartsNext, OthersStill
    <2>3. ASSUME RegistryInv, UNCHANGED registry_vars PROVE RegistryInv'
      <3>1. UNCHANGED <<declared, handouts, issued, hooks>> BY <2>3 DEF registry_vars
      <3>2. DeclarationsInv' /\ HooksInv'
        BY <2>3, <3>1 DEF RegistryInv, DeclarationsInv, HooksInv
      <3>3. IssuedInv' BY <2>3, <3>1 DEF RegistryInv, IssuedInv, Declares, Retired
      <3> QED BY <3>2, <3>3 DEF RegistryInv
    <2>4. ASSUME RegistryInv, RegistryNext PROVE RegistryInv'
      BY <2>4, RegisterNameKeeps, GetKeeps, HookKeeps DEF RegistryNext
    <2> QED BY <1>2, <2>1, <2>2, <2>3, <2>4
  <1>3. Inv => (part = "registries" => OneAddressOneStream /\ CatalogIsComplete)
    BY RegistryMeans
  <1> QED BY <1>1, <1>2, <1>3, PTL DEF PartsSpec
-----------------------------------------------------------------------------
(* SimTime: rounding and pacing.                                           *)

\* What division by a positive number leaves.
LEMMA DivisionIs ==
    ASSUME NEW x \in Int, NEW y \in Nat \ {0}
    PROVE  /\ x \div y \in Int
           /\ (x \div y) * y <= x /\ x < (x \div y) * y + y
           /\ x >= 0 => x \div y >= 0
  OBVIOUS

\* duration_from_seconds, for every written duration and every tick rate: the nearest
\* tick, and of two that are as near the one further from zero.
THEOREM RoundingNearest ==
    ASSUME NEW p \in Int, NEW q \in Nat \ {0}
    PROVE  NearestTick(p, q)
  <1> DEFINE a == Abs(p)
             m == (2 * a + q) \div (2 * q)
  <1>1. a \in Nat /\ (p < 0 => a = -p) /\ (p >= 0 => a = p) BY DEF Abs
  <1>2. m \in Nat /\ m * (2 * q) <= 2 * a + q /\ 2 * a + q < m * (2 * q) + 2 * q
    <2> HIDE DEF a
    <2>1. 2 * a + q \in Int /\ 2 * q \in Nat \ {0} /\ 2 * a + q >= 0 BY <1>1
    <2> DEFINE x == 2 * a + q
               y == 2 * q
    <2> HIDE DEF x, y
    <2>2. x \in Int /\ y \in Nat \ {0} /\ x >= 0 BY <2>1 DEF x, y
    <2>3. x \div y \in Nat /\ (x \div y) * y <= x /\ x < (x \div y) * y + y
      BY <2>2, DivisionIs
    <2> QED BY <2>3 DEF x, y
  <1>3. RoundHalfUp(p, q) = IF p < 0 THEN -m ELSE m BY DEF RoundHalfUp
  <1> HIDE DEF m
  <1>4. PICK n \in Int : n = m * q BY <1>2
  <1>5. m * (2 * q) = 2 * n BY <1>2, <1>4
  <1>6. n >= 0 BY <1>2, <1>4
  <1> HIDE DEF a
  <1>7. 2 * n - 2 * a <= q /\ 2 * a - 2 * n < q BY <1>1, <1>2, <1>5
  <1>8. CASE p < 0
    <2>1. RoundHalfUp(p, q) * q = -n BY <1>2, <1>3, <1>4, <1>8
    <2>2. Abs(RoundHalfUp(p, q) * q - p) = IF a - n < 0 THEN n - a ELSE a - n
      BY <1>1, <1>8, <2>1 DEF Abs
    <2>3. Abs(RoundHalfUp(p, q) * q) = n /\ Abs(p) = a BY <1>6, <2>1 DEF Abs, a
    <2> QED BY <1>1, <1>7, <2>2, <2>3 DEF NearestTick
  <1>9. CASE p >= 0
    <2>1. RoundHalfUp(p, q) * q = n BY <1>2, <1>3, <1>4, <1>9
    <2>2. Abs(RoundHalfUp(p, q) * q - p) = IF n - a < 0 THEN a - n ELSE n - a
      BY <1>1, <1>9, <2>1 DEF Abs
    <2>3. Abs(RoundHalfUp(p, q) * q) = n /\ Abs(p) = a BY <1>6, <2>1 DEF Abs, a
    <2> QED BY <1>1, <1>7, <2>2, <2>3 DEF NearestTick
  <1> QED BY <1>8, <1>9

Emission == [instant : Nat, wall : Nat]

\* An emission came no earlier than its share of wall time.
OnTime(e) ==
    speed # ASAP =>
        (e.wall - pacer_start + 1) * TickHz * speed[1]
            > (e.instant - run_start) * NanosPerSecond * speed[2]

TimeInv ==
    /\ speed \in Speeds /\ SpeedAllowed(speed)
    /\ sim_now \in Nat /\ run_start \in Nat /\ wall \in Nat /\ pacer_start \in Nat
    /\ waiting \in Nat \cup {Unasked}
    /\ emitted \in Seq(Emission)
    /\ \A i \in 1..Len(emitted) : emitted[i].instant <= sim_now /\ emitted[i].wall <= wall
    /\ \A i, j \in 1..Len(emitted) :
          i < j => emitted[i].instant <= emitted[j].instant /\ emitted[i].wall <= emitted[j].wall
    /\ \A i \in 1..Len(emitted) : OnTime(emitted[i])
    /\ emitted # <<>> => sim_now = emitted[Len(emitted)].instant

\* A speed that paces is a positive fraction.
LEMMA SpeedIs ==
    ASSUME NEW s \in Speeds, SpeedAllowed(s), s # ASAP
    PROVE  s[1] \in Nat \ {0} /\ s[2] \in Nat \ {0}
  <1>1. s[1] \in Int /\ s[2] \in Nat \ {0} BY TimeAssumption
  <1>2. MIN_SPEED[1] \in Nat \ {0} /\ MIN_SPEED[2] \in Nat \ {0} BY TimeAssumption
  <1>3. MIN_SPEED[1] * s[2] <= s[1] * MIN_SPEED[2] BY DEF SpeedAllowed
  <1>4. MIN_SPEED[1] * s[2] > 0 BY <1>1, <1>2
  <1>5. s[1] * MIN_SPEED[2] > 0
    <2>1. MIN_SPEED[1] * s[2] \in Int /\ s[1] * MIN_SPEED[2] \in Int BY <1>1, <1>2
    <2> QED BY <1>3, <1>4, <2>1
  <1>6. ASSUME s[1] <= 0 PROVE FALSE
    <2>1. s[1] * MIN_SPEED[2] <= 0 BY <1>1, <1>2, <1>6
    <2> QED BY <1>1, <1>2, <1>5, <2>1
  <1> QED BY <1>1, <1>6

\* The block is over no earlier than the instant's share of wall time.
LEMMA BlockOver ==
    ASSUME TimeInv, NEW instant \in Nat, MayEmit(instant)
    PROVE  OnTime([instant |-> instant, wall |-> wall])
  <1> SUFFICES ASSUME speed # ASAP
               PROVE  (wall - pacer_start + 1) * TickHz * speed[1]
                         > (instant - run_start) * NanosPerSecond * speed[2]
    BY DEF OnTime
  <1>1. speed[1] \in Nat \ {0} /\ speed[2] \in Nat \ {0} BY SpeedIs DEF TimeInv
  <1>2. TickHz \in Nat \ {0} /\ NanosPerSecond \in Nat \ {0} BY TimeAssumption
  <1>3. /\ wall \in Nat /\ pacer_start \in Nat /\ run_start \in Nat BY DEF TimeInv
  <1>4. PICK x \in Int : x = (instant - run_start) * NanosPerSecond * speed[2]
    BY <1>1, <1>2, <1>3
  <1>5. PICK y \in Nat \ {0} : y = TickHz * speed[1]
    <2>1. TickHz * speed[1] \in Nat \ {0} BY <1>1, <1>2
    <2> QED BY <2>1
  <1>6. PICK d \in Int : d = x \div y BY DivisionIs
  <1>7. wall >= pacer_start + d BY <1>4, <1>5, <1>6 DEF MayEmit, target_wall_ns
  <1>8. x < d * y + y BY <1>6, DivisionIs
  <1>9. PICK w \in Int : w = wall - pacer_start BY <1>3
  <1>10. d <= w BY <1>3, <1>7, <1>9
  <1>11. d * y + y <= (w + 1) * y BY <1>10
  <1>12. (w + 1) * TickHz * speed[1] = (w + 1) * y BY <1>1, <1>2, <1>5
  <1>13. (w + 1) * y > x
    <2>1. d * y + y \in Int /\ (w + 1) * y \in Int OBVIOUS
    <2> QED BY <1>8, <1>11, <2>1
  <1> QED BY <1>4, <1>9, <1>12, <1>13

\* Whatever the callers ask and the clock does, what was emitted stays in order and on time.
LEMMA PacedStep ==
    ASSUME TimeInv, [PacedNext]_time_vars
    PROVE  TimeInv'
  <1>1. ASSUME UNCHANGED <<sim_now, speed, run_start, pacer_start, emitted>>,
               wall' \in Nat, wall' >= wall, waiting' \in Nat \cup {Unasked}
        PROVE  TimeInv'
    <2>1. \A i \in 1..Len(emitted) : emitted[i].wall <= wall'
      <3>1. \A i \in 1..Len(emitted) : emitted[i] \in Emission /\ emitted[i].wall <= wall
        BY DEF TimeInv
      <3> QED BY <1>1, <3>1 DEF TimeInv, Emission
    <2>2. \A i \in 1..Len(emitted) : OnTime(emitted[i])' BY <1>1 DEF TimeInv, OnTime
    <2> QED BY <1>1, <2>1, <2>2 DEF TimeInv, SpeedAllowed
  <1>2. CASE WallTick BY <1>1, <1>2 DEF WallTick, TimeInv
  <1>3. ASSUME NEW instant \in 0..MaxInstant, AskAdvance(instant) PROVE TimeInv'
    BY <1>1, <1>3 DEF AskAdvance, TimeInv
  <1>4. CASE AdvanceRefused BY <1>1, <1>4 DEF AdvanceRefused, TimeInv
  <1>5. CASE UNCHANGED time_vars BY <1>1, <1>5 DEF time_vars, TimeInv
  <1>6. CASE Advance
    <2> DEFINE e == [instant |-> waiting, wall |-> wall]
    <2>1. /\ waiting # Unasked /\ MayEmit(waiting) /\ waiting >= sim_now
          /\ sim_now' = waiting /\ emitted' = Append(emitted, e) /\ waiting' = Unasked
          /\ UNCHANGED <<speed, run_start, pacer_start, wall>>
      BY <1>6 DEF Advance, MayAdvance
    <2>2. waiting \in Nat /\ wall \in Nat /\ emitted \in Seq(Emission) BY <2>1 DEF TimeInv
    <2>3. e \in Emission /\ e.instant = waiting /\ e.wall = wall BY <2>2 DEF Emission
    <2>4. OnTime(e) BY <2>1, <2>2, BlockOver
    <2> HIDE DEF e
    <2>5. /\ emitted' \in Seq(Emission) /\ Len(emitted) \in Nat
          /\ Len(emitted') = Len(emitted) + 1
          /\ \A i \in 1..Len(emitted) : emitted'[i] = emitted[i]
          /\ emitted'[Len(emitted) + 1] = e
      BY <2>1, <2>2, <2>3, Appended
    <2>6. \A i \in 1..Len(emitted') : i \in 1..Len(emitted) \/ i = Len(emitted) + 1 BY <2>5
    <2>7. \A i \in 1..Len(emitted) :
             /\ emitted[i].instant \in Nat /\ emitted[i].instant <= sim_now
             /\ emitted[i].wall <= wall
      <3>1. \A i \in 1..Len(emitted) : emitted[i] \in Emission BY <2>2
      <3> QED BY <3>1 DEF TimeInv, Emission
    <2>8. \A i \in 1..Len(emitted') : emitted'[i].instant <= sim_now' /\ emitted'[i].wall <= wall'
      <3>1. sim_now \in Nat BY DEF TimeInv
      <3> QED BY <2>1, <2>2, <2>3, <2>5, <2>6, <2>7, <3>1
    <2>9. \A i, j \in 1..Len(emitted') : i < j =>
             emitted'[i].instant <= emitted'[j].instant /\ emitted'[i].wall <= emitted'[j].wall
      <3> SUFFICES ASSUME NEW i \in 1..Len(emitted'), NEW j \in 1..Len(emitted'), i < j
                   PROVE  /\ emitted'[i].instant <= emitted'[j].instant
                          /\ emitted'[i].wall <= emitted'[j].wall
        OBVIOUS
      <3>1. i \in 1..Len(emitted) BY <2>5, <2>6
      <3>2. CASE j \in 1..Len(emitted) BY <2>5, <3>1, <3>2 DEF TimeInv
      <3>3. CASE j = Len(emitted) + 1 BY <2>1, <2>3, <2>5, <2>8, <3>1, <3>3
      <3> QED BY <2>6, <3>2, <3>3
    <2>10. \A i \in 1..Len(emitted') : OnTime(emitted'[i])
      <3>1. \A i \in 1..Len(emitted) : OnTime(emitted[i]) BY DEF TimeInv
      <3> QED BY <2>4, <2>5, <2>6, <3>1
    <2>11. \A i \in 1..Len(emitted') : OnTime(emitted[i])' BY <2>1, <2>10 DEF OnTime
    <2>12. sim_now' = emitted'[Len(emitted')].instant BY <2>1, <2>3, <2>5
    <2>13. /\ speed' \in Speeds /\ SpeedAllowed(speed)' /\ sim_now' \in Nat
           /\ run_start' \in Nat /\ wall' \in Nat /\ pacer_start' \in Nat
           /\ waiting' \in Nat \cup {Unasked}
      BY <2>1, <2>2 DEF TimeInv, SpeedAllowed
    <2> QED BY <2>5, <2>8, <2>9, <2>11, <2>12, <2>13 DEF TimeInv
  <1> QED BY <1>2, <1>3, <1>4, <1>5, <1>6 DEF PacedNext

\* A pacer that has emitted nothing.
LEMMA PacedBegins ==
    ASSUME PacedInit
    PROVE  TimeInv
  <1>1. /\ speed \in Speeds /\ SpeedAllowed(speed) /\ sim_now \in 0..1 /\ run_start = sim_now
        /\ wall \in 0..1 /\ pacer_start = wall /\ waiting = Unasked /\ emitted = <<>>
    BY DEF PacedInit
  <1>2. \A i \in 1..Len(<<>>) : FALSE OBVIOUS
  <1> QED BY <1>1, <1>2 DEF TimeInv

\* What is known of the pacer is what it promises.
LEMMA PacedMeans ==
    ASSUME TimeInv
    PROVE  NeverEarly
  <1>1. DOMAIN emitted = 1..Len(emitted) BY DEF TimeInv
  <1>2. emitted # <<>> => sim_now = Last(emitted).instant BY DEF TimeInv, Last
  <1> QED BY <1>1, <1>2 DEF TimeInv, NeverEarly, OnTime

\* PacedClock.advance_to: the instants that were emitted are in order, and none came before
\* its share of wall time, at any speed and tick rate and in any order of requests.
THEOREM PacingCorrect == PartsSpec => [](part = "time" => NeverEarly)
  <1> DEFINE Inv == part = "time" => TimeInv
  <1>1. PartsInit => Inv BY PacedBegins DEF PartsInit
  <1>2. ASSUME Inv, [PartsNext]_<<part, vars, tool_vars, portal_vars, temperature_vars,
                        bus_vars, mqtt_vars, registry_vars, time_vars, scenario_vars, facility,
                        config_vars, versions, archive_vars, sync_vars, rules_vars, thread_vars>>
        PROVE  Inv'
    <2>1. UNCHANGED part BY <1>2, PartRuns
    <2>2. ASSUME part = "time" PROVE [PacedNext]_time_vars
      BY <1>2, <2>2 DEF PartsNext, OthersStill
    <2> QED BY <1>2, <2>1, <2>2, PacedStep
  <1>3. Inv => (part = "time" => NeverEarly) BY PacedMeans
  <1> QED BY <1>1, <1>2, <1>3, PTL DEF PartsSpec
-----------------------------------------------------------------------------
(* ScenarioRun: draws and log.                                             *)

RunSubjects == {<<>>} \cup (StationIds \X Nat)

RunKinds == {"started", "arrived", "departed", "finished"}

RunEvent ==
    [type : RunKinds, subject : RunSubjects, ticks : Int, sim_ts : Nat, time : Nat, seq : Nat]

RunTypes ==
    /\ stations \in StationLists /\ tapes \in [StationIds -> [1..MaxArrivals -> 0..1]]
    /\ at \in Nat \ {0} /\ index \in Nat /\ drawn \in Nat /\ service \in Int /\ run_now \in Nat
    /\ run_log \in Seq(RunEvent) /\ sequence = Len(run_log)

\* A departure is its station's draw.
DrawIsOwn(e) ==
    \E i \in 1..Len(stations) :
        stations[i].id = e.subject[1] /\ e.ticks = TapeTicks(i, e.subject[2])

\* A departure follows its arrival, after the ticks it tells.
FollowsArrival(a, e) ==
    a.type = "arrived" /\ a.subject = e.subject /\ e.sim_ts - a.sim_ts = e.ticks

RunLogInv ==
    /\ \A n \in 1..Len(run_log) : run_log[n].seq = n - 1 /\ run_log[n].sim_ts <= run_now
    /\ \A n \in 1..Len(run_log) : n > 1 => run_log[n - 1].sim_ts <= run_log[n].sim_ts
    /\ \A n \in 1..Len(run_log) : run_log[n].type = "departed" =>
          n > 1 /\ DrawIsOwn(run_log[n]) /\ FollowsArrival(run_log[n - 1], run_log[n])

AtStation ==
    /\ at \in 1..Len(stations) /\ generator = stations[at].id
    /\ stations[at].id \in StationIds /\ stations[at].arrivals \in 1..MaxArrivals

StepInv ==
    /\ at_step = "arrive" => AtStation /\ drawn = index /\ index <= stations[at].arrivals
    /\ at_step = "serve" =>
          /\ AtStation /\ drawn = index + 1 /\ index < stations[at].arrivals
          /\ service = TapeTicks(at, index)
          /\ Len(run_log) > 0
          /\ run_log[Len(run_log)].type = "arrived"
          /\ run_log[Len(run_log)].subject = <<stations[at].id, index>>
          /\ run_log[Len(run_log)].sim_ts = run_now
    /\ at_step = "done" => Len(run_log) > 0 /\ run_log[Len(run_log)].ticks = Len(run_log)

ScenarioInv == RunTypes /\ RunLogInv /\ StepInv

\* The list of stations and its entries.
LEMMA StationIs ==
    ASSUME RunTypes
    PROVE  /\ DOMAIN stations = 1..Len(stations) /\ Len(stations) \in Nat
           /\ \A i \in 1..Len(stations) :
                 /\ stations[i].id \in StationIds /\ stations[i].arrivals \in 1..MaxArrivals
                 /\ stations[i].mean \in Nat \ {0} /\ stations[i].spread \in Nat
  <1> DEFINE S == [id : StationIds, arrivals : 1..MaxArrivals, mean : Nat \ {0}, spread : Nat]
  <1>1. stations \in Seq(S) BY ScenarioAssumption DEF RunTypes
  <1>2. \A x \in S : /\ x.id \in StationIds /\ x.arrivals \in 1..MaxArrivals
                     /\ x.mean \in Nat \ {0} /\ x.spread \in Nat
    OBVIOUS
  <1> HIDE DEF S
  <1> QED BY <1>1, <1>2

\* A service time is a number of ticks.
LEMMA TicksAre ==
    ASSUME RunTypes, NEW i \in 1..Len(stations), NEW k \in Nat, k < stations[i].arrivals
    PROVE  TapeTicks(i, k) \in Int
  <1>1. /\ stations[i].id \in StationIds /\ stations[i].arrivals \in 1..MaxArrivals
        /\ stations[i].mean \in Nat \ {0} /\ stations[i].spread \in Nat
    BY StationIs
  <1>2. k + 1 \in 1..MaxArrivals BY <1>1, ScenarioAssumption
  <1>3. tapes[stations[i].id][k + 1] \in 0..1 BY <1>1, <1>2 DEF RunTypes
  <1> DEFINE draw == tapes[stations[i].id][k + 1]
             halves == Uniform(stations[i], draw)
  <1>4. draw \in {0, 1} BY <1>3
  <1> HIDE DEF draw
  <1>5. halves \in Int
    <2>1. draw * stations[i].spread \in Int BY <1>1, <1>4
    <2> QED BY <1>1, <2>1 DEF Uniform
  <1> HIDE DEF halves
  <1>6. RoundHalfEven(halves) \in Int BY <1>5 DEF RoundHalfEven
  <1> QED BY <1>6 DEF TapeTicks, halves, draw

\* A departure is told right after its arrival, when the draw of its station is over.
MayTell(type, subject, ticks) ==
    type = "departed" =>
        /\ Len(run_log) > 0
        /\ \E i \in 1..Len(stations) :
              stations[i].id = subject[1] /\ ticks = TapeTicks(i, subject[2])
        /\ run_log[Len(run_log)].type = "arrived"
        /\ run_log[Len(run_log)].subject = subject
        /\ run_now' - run_log[Len(run_log)].sim_ts = ticks

\* The log after an emit.
Told(type, subject, ticks) ==
    /\ RunLogInv'
    /\ run_log' \in Seq(RunEvent) /\ sequence' = Len(run_log')
    /\ Len(run_log') = Len(run_log) + 1 /\ Len(run_log) \in Nat
    /\ run_log'[Len(run_log')].type = type
    /\ run_log'[Len(run_log')].subject = subject
    /\ run_log'[Len(run_log')].ticks = ticks
    /\ run_log'[Len(run_log')].sim_ts = run_now'

\* What emit() appends, whatever the step has done to the clock before.
LEMMA EmitKeepsLog ==
    ASSUME RunTypes, RunLogInv, NEW what \in RunKinds, NEW whom \in RunSubjects, NEW long \in Int,
           NEW now \in Nat, run_now' = now, now >= run_now,
           Emit(what, whom, long),
           UNCHANGED <<stations, tapes>>,
           MayTell(what, whom, long)
    PROVE  Told(what, whom, long)
  <1> DEFINE e == [type |-> what, subject |-> whom, ticks |-> long, sim_ts |-> now,
                   time |-> Epoch + now, seq |-> sequence]
  <1>1. run_log' = Append(run_log, e) /\ sequence' = sequence + 1 BY DEF Emit
  <1>2. run_log \in Seq(RunEvent) /\ Len(run_log) \in Nat /\ sequence = Len(run_log)
    BY DEF RunTypes
  <1>3. Epoch + now \in Nat
    <2>1. Epoch \in Nat BY ScenarioAssumption
    <2> QED BY <2>1
  <1>4. e \in RunEvent BY <1>2, <1>3 DEF RunEvent
  <1>5. /\ e.type = what /\ e.subject = whom /\ e.ticks = long /\ e.sim_ts = now
        /\ e.seq = sequence
    OBVIOUS
  <1> HIDE DEF e
  <1>6. /\ run_log' \in Seq(RunEvent) /\ Len(run_log') = Len(run_log) + 1
        /\ \A i \in 1..Len(run_log) : run_log'[i] = run_log[i]
        /\ run_log'[Len(run_log) + 1] = e
    BY <1>1, <1>2, <1>4, Appended
  <1>7. \A n \in 1..Len(run_log') : n \in 1..Len(run_log) \/ n = Len(run_log) + 1 BY <1>2, <1>6
  <1>8. \A n \in 1..Len(run_log) : run_log[n] \in RunEvent /\ run_log[n].sim_ts \in Nat
    <2>1. \A n \in 1..Len(run_log) : run_log[n] \in RunEvent BY <1>2
    <2> QED BY <2>1 DEF RunEvent
  <1>9. run_now \in Nat BY DEF RunTypes
  <1>10. \A x : DrawIsOwn(x)' <=> DrawIsOwn(x) BY DEF DrawIsOwn, TapeTicks
  <1>11. ASSUME NEW n \in 1..Len(run_log')
         PROVE  run_log'[n].seq = n - 1 /\ run_log'[n].sim_ts <= run_now'
    <2>1. CASE n \in 1..Len(run_log)
      <3>1. run_log[n].seq = n - 1 /\ run_log[n].sim_ts <= run_now BY <2>1 DEF RunLogInv
      <3> QED BY <1>6, <1>8, <1>9, <2>1, <3>1
    <2>2. CASE n = Len(run_log) + 1 BY <1>2, <1>5, <1>6, <2>2
    <2> QED BY <1>7, <2>1, <2>2
  <1>12. ASSUME NEW n \in 1..Len(run_log'), n > 1
         PROVE  /\ n - 1 \in 1..Len(run_log) /\ run_log'[n - 1] = run_log[n - 1]
                /\ run_log'[n - 1].sim_ts <= run_log'[n].sim_ts
    <2>1. n - 1 \in 1..Len(run_log) BY <1>2, <1>7, <1>12
    <2>2. run_log'[n - 1] = run_log[n - 1] BY <1>6, <2>1
    <2>3. CASE n \in 1..Len(run_log) BY <1>6, <1>12, <2>2, <2>3 DEF RunLogInv
    <2>4. CASE n = Len(run_log) + 1
      <3>1. run_log[n - 1].sim_ts <= run_now BY <2>1 DEF RunLogInv
      <3> QED BY <1>5, <1>6, <1>8, <1>9, <2>1, <2>2, <2>4, <3>1
    <2> QED BY <1>7, <2>1, <2>2, <2>3, <2>4
  <1>13. ASSUME NEW n \in 1..Len(run_log'), run_log'[n].type = "departed"
         PROVE  /\ n > 1 /\ DrawIsOwn(run_log'[n])
                /\ FollowsArrival(run_log'[n - 1], run_log'[n])
    <2>1. CASE n \in 1..Len(run_log)
      <3>1. run_log'[n] = run_log[n] BY <1>6, <2>1
      <3>2. /\ n > 1 /\ DrawIsOwn(run_log[n])
            /\ FollowsArrival(run_log[n - 1], run_log[n])
        BY <1>13, <2>1, <3>1 DEF RunLogInv
      <3>3. run_log'[n - 1] = run_log[n - 1] BY <1>12, <3>2
      <3> QED BY <3>1, <3>2, <3>3
    <2>2. CASE n = Len(run_log) + 1
      <3>1. run_log'[n] = e /\ what = "departed" BY <1>5, <1>6, <1>13, <2>2
      <3>2. n > 1 BY <1>2, <2>2, <3>1 DEF MayTell
      <3>3. run_log'[n - 1] = run_log[Len(run_log)] BY <1>2, <1>12, <2>2, <3>2
      <3>4. DrawIsOwn(e) BY <1>5, <3>1 DEF DrawIsOwn, MayTell
      <3>5. FollowsArrival(run_log[Len(run_log)], e) BY <1>5, <3>1 DEF FollowsArrival, MayTell
      <3> QED BY <3>1, <3>2, <3>3, <3>4, <3>5
    <2> QED BY <1>7, <2>1, <2>2
  <1>14. RunLogInv' BY <1>10, <1>11, <1>12, <1>13 DEF RunLogInv, FollowsArrival, DrawIsOwn, TapeTicks
  <1> QED BY <1>1, <1>2, <1>5, <1>6, <1>14 DEF Told

\* Every step of the run.
LEMMA ScenarioStep ==
    ASSUME ScenarioInv, [ScenarioNext]_scenario_vars
    PROVE  ScenarioInv'
  <1>1. RunTypes /\ RunLogInv /\ StepInv BY DEF ScenarioInv
  <1>2. /\ DOMAIN stations = 1..Len(stations) /\ Len(stations) \in Nat
        /\ \A i \in 1..Len(stations) :
              stations[i].id \in StationIds /\ stations[i].arrivals \in 1..MaxArrivals
    BY <1>1, StationIs
  <1>3. ASSUME UNCHANGED <<stations, tapes, run_now, sequence, run_log>>,
               at' \in Nat \ {0}, index' \in Nat, drawn' \in Nat, service' \in Int
        PROVE  RunTypes' /\ RunLogInv'
    BY <1>1, <1>3 DEF RunTypes, RunLogInv, DrawIsOwn, FollowsArrival, TapeTicks
  <1>4. CASE Started
    <2>1. /\ UNCHANGED <<run_now, stations, tapes, at, index, generator, drawn, service>>
          /\ Emit("started", <<>>, Len(stations)) /\ at_step' = "station"
      BY <1>4 DEF Started
    <2>2. /\ RunLogInv' /\ run_log' \in Seq(RunEvent) /\ sequence' = Len(run_log')
      <3>1. run_now' \in Nat /\ run_now' >= run_now BY <1>1, <2>1 DEF RunTypes
      <3>2. <<>> \in RunSubjects /\ Len(stations) \in Int BY <1>2 DEF RunSubjects
      <3>3. MayTell("started", <<>>, Len(stations)) BY DEF MayTell
      <3>4. UNCHANGED <<stations, tapes>> BY <2>1
      <3>5. Emit("started", <<>>, Len(stations)) BY <2>1
      <3>6. PICK k \in Int, now \in Nat : k = Len(stations) /\ now = run_now' BY <3>1, <3>2
      <3>7. Told("started", <<>>, k)
        <4>1. Emit("started", <<>>, k) /\ MayTell("started", <<>>, k) BY <3>3, <3>5, <3>6
        <4>2. run_now' = now BY <3>6
        <4>3. now >= run_now BY <3>1, <3>6
        <4>4. "started" \in RunKinds BY DEF RunKinds
        <4> QED BY <1>1, <3>2, <3>4, <3>6, <4>1, <4>2, <4>3, <4>4, EmitKeepsLog
      <3> QED BY <3>7 DEF Told
    <2>3. RunTypes' BY <1>1, <2>1, <2>2 DEF RunTypes
    <2>4. StepInv' BY <2>1 DEF StepInv
    <2> QED BY <2>2, <2>3, <2>4 DEF ScenarioInv
  <1>5. CASE NextStation
    <2>1. /\ at <= Len(stations) /\ generator' = stations[at].id /\ drawn' = 0 /\ index' = 0
          /\ at_step' = "arrive"
          /\ UNCHANGED <<stations, tapes, at, service, run_now, sequence, run_log>>
      BY <1>5 DEF NextStation
    <2>2. RunTypes' /\ RunLogInv' BY <1>1, <1>3, <2>1 DEF RunTypes
    <2>3. at \in 1..Len(stations) BY <1>1, <1>2, <2>1 DEF RunTypes
    <2>4. AtStation' BY <1>2, <2>1, <2>3 DEF AtStation
    <2>5. 0 <= stations[at].arrivals BY <1>2, <2>3
    <2>6. StepInv' BY <2>1, <2>4, <2>5 DEF StepInv
    <2> QED BY <2>2, <2>6 DEF ScenarioInv
  <1>6. CASE Arrived
    <2>1. /\ at_step = "arrive" /\ index < stations[at].arrivals
          /\ UNCHANGED <<run_now, stations, tapes, at, index, generator>>
          /\ Emit("arrived", <<stations[at].id, index>>, 0)
          /\ drawn' = drawn + 1
          /\ service' = RoundHalfEven(Uniform(stations[at], tapes[generator][drawn']))
          /\ at_step' = "serve"
      BY <1>6 DEF Arrived
    <2>2. /\ at \in 1..Len(stations) /\ generator = stations[at].id /\ drawn = index
          /\ AtStation
      BY <1>1, <2>1 DEF StepInv, AtStation
    <2>3. index \in Nat /\ drawn \in Nat BY <1>1 DEF RunTypes
    <2>4. service' = TapeTicks(at, index) /\ service' \in Int
      <3>1. service' = TapeTicks(at, index) BY <2>1, <2>2 DEF TapeTicks
      <3> QED BY <1>1, <2>1, <2>2, <2>3, <3>1, TicksAre
    <2>5. /\ RunLogInv' /\ run_log' \in Seq(RunEvent) /\ sequence' = Len(run_log')
          /\ Len(run_log') > 0
          /\ run_log'[Len(run_log')].type = "arrived"
          /\ run_log'[Len(run_log')].subject = <<stations[at].id, index>>
          /\ run_log'[Len(run_log')].sim_ts = run_now'
      <3>1. run_now' \in Nat /\ run_now' >= run_now BY <1>1, <2>1 DEF RunTypes
      <3>2. <<stations[at].id, index>> \in RunSubjects /\ 0 \in Int
        BY <1>2, <2>2, <2>3 DEF RunSubjects
      <3>3. MayTell("arrived", <<stations[at].id, index>>, 0) BY DEF MayTell
      <3>4. UNCHANGED <<stations, tapes>> BY <2>1
      <3>5. Emit("arrived", <<stations[at].id, index>>, 0) BY <2>1
      <3>6. PICK k \in RunSubjects, now \in Nat :
               k = <<stations[at].id, index>> /\ now = run_now'
        BY <3>1, <3>2
      <3>7. Told("arrived", k, 0)
        <4>1. Emit("arrived", k, 0) /\ MayTell("arrived", k, 0) BY <3>3, <3>5, <3>6
        <4>2. run_now' = now BY <3>6
        <4>3. now >= run_now BY <3>1, <3>6
        <4>4. "arrived" \in RunKinds BY DEF RunKinds
        <4> QED BY <1>1, <3>2, <3>4, <4>1, <4>2, <4>3, <4>4, EmitKeepsLog
      <3> QED BY <3>6, <3>7 DEF Told
    <2>6. RunTypes' BY <1>1, <2>1, <2>3, <2>4, <2>5 DEF RunTypes
    <2>7. AtStation' BY <2>1, <2>2 DEF AtStation
    <2>8. TapeTicks(at, index)' = TapeTicks(at, index) BY <2>1 DEF TapeTicks
    <2>9. StepInv' BY <2>1, <2>2, <2>4, <2>5, <2>7, <2>8 DEF StepInv
    <2> QED BY <2>5, <2>6, <2>9 DEF ScenarioInv
  <1>7. CASE Departed
    <2>1. /\ at_step = "serve" /\ service >= 0 /\ run_now' = run_now + service
          /\ Emit("departed", <<stations[at].id, index>>, service)
          /\ index' = index + 1 /\ at_step' = "arrive"
          /\ UNCHANGED <<stations, tapes, at, generator, drawn, service>>
      BY <1>7 DEF Departed
    <2>2. /\ AtStation /\ at \in 1..Len(stations) /\ drawn = index + 1
          /\ index < stations[at].arrivals /\ service = TapeTicks(at, index) /\ Len(run_log) > 0
          /\ run_log[Len(run_log)].type = "arrived"
          /\ run_log[Len(run_log)].subject = <<stations[at].id, index>>
          /\ run_log[Len(run_log)].sim_ts = run_now
      BY <1>1, <2>1 DEF StepInv, AtStation
    <2>3. index \in Nat /\ drawn \in Nat /\ service \in Int /\ run_now \in Nat
      BY <1>1 DEF RunTypes
    <2>4. /\ RunLogInv' /\ run_log' \in Seq(RunEvent) /\ sequence' = Len(run_log')
      <3> DEFINE subject == <<stations[at].id, index>>
      <3>1. run_now' \in Nat /\ run_now' >= run_now BY <2>1, <2>3
      <3>2. subject \in RunSubjects BY <1>2, <2>2, <2>3 DEF RunSubjects
      <3>3. subject[1] = stations[at].id /\ subject[2] = index OBVIOUS
      <3>4. run_now' - run_log[Len(run_log)].sim_ts = service BY <2>1, <2>2, <2>3
      <3> HIDE DEF subject
      <3>5. Emit("departed", subject, service) BY <2>1 DEF subject
      <3>6. \E i \in 1..Len(stations) :
               stations[i].id = subject[1] /\ service = TapeTicks(i, subject[2])
        BY <2>2, <3>3
      <3>7. run_log[Len(run_log)].subject = subject BY <2>2 DEF subject
      <3>8. UNCHANGED <<stations, tapes>> BY <2>1
      <3>9. MayTell("departed", subject, service) BY <2>2, <3>4, <3>6, <3>7 DEF MayTell
      <3>10. PICK k \in RunSubjects, t \in Int, now \in Nat :
                k = subject /\ t = service /\ now = run_now'
        BY <2>3, <3>1, <3>2
      <3>11. Told("departed", k, t)
        <4>1. Emit("departed", k, t) /\ MayTell("departed", k, t) BY <3>5, <3>9, <3>10
        <4>2. run_now' = now BY <3>10
        <4>3. now >= run_now BY <3>1, <3>10
        <4>4. "departed" \in RunKinds BY DEF RunKinds
        <4> QED BY <1>1, <3>8, <4>1, <4>2, <4>3, <4>4, EmitKeepsLog
      <3> QED BY <3>11 DEF Told
    <2>5. RunTypes' BY <1>1, <2>1, <2>3, <2>4 DEF RunTypes
    <2>6. AtStation' BY <2>1, <2>2 DEF AtStation
    <2>7. index + 1 <= stations[at].arrivals BY <1>2, <2>2, <2>3
    <2>8. StepInv' BY <2>1, <2>2, <2>6, <2>7 DEF StepInv
    <2> QED BY <2>4, <2>5, <2>8 DEF ScenarioInv
  <1>8. CASE ServiceRefused
    <2>1. /\ at_step' = "raised"
          /\ UNCHANGED <<stations, tapes, at, index, generator, drawn, service, run_now,
                         sequence, run_log>>
      BY <1>8 DEF ServiceRefused
    <2>2. RunTypes' /\ RunLogInv' BY <1>1, <1>3, <2>1 DEF RunTypes
    <2>3. StepInv' BY <2>1 DEF StepInv
    <2> QED BY <2>2, <2>3 DEF ScenarioInv
  <1>9. CASE StationDone
    <2>1. /\ at' = at + 1 /\ at_step' = "station"
          /\ UNCHANGED <<stations, tapes, index, generator, drawn, service, run_now, sequence,
                         run_log>>
      BY <1>9 DEF StationDone
    <2>2. RunTypes' /\ RunLogInv' BY <1>1, <1>3, <2>1 DEF RunTypes
    <2>3. StepInv' BY <2>1 DEF StepInv
    <2> QED BY <2>2, <2>3 DEF ScenarioInv
  <1>10. CASE Finished
    <2>1. /\ UNCHANGED <<run_now, stations, tapes, at, index, generator, drawn, service>>
          /\ Emit("finished", <<>>, sequence + 1) /\ at_step' = "done"
      BY <1>10 DEF Finished
    <2>2. sequence = Len(run_log) /\ Len(run_log) \in Nat BY <1>1 DEF RunTypes
    <2>3. /\ RunLogInv' /\ run_log' \in Seq(RunEvent) /\ sequence' = Len(run_log')
          /\ Len(run_log') = Len(run_log) + 1
          /\ run_log'[Len(run_log')].ticks = sequence + 1
      <3>1. run_now' \in Nat /\ run_now' >= run_now BY <1>1, <2>1 DEF RunTypes
      <3>2. <<>> \in RunSubjects /\ sequence + 1 \in Int BY <2>2 DEF RunSubjects
      <3>3. MayTell("finished", <<>>, sequence + 1) BY DEF MayTell
      <3>4. UNCHANGED <<stations, tapes>> BY <2>1
      <3>5. Emit("finished", <<>>, sequence + 1) BY <2>1
      <3>6. PICK k \in Int, now \in Nat : k = sequence + 1 /\ now = run_now' BY <3>1, <3>2
      <3>7. Told("finished", <<>>, k)
        <4>1. Emit("finished", <<>>, k) /\ MayTell("finished", <<>>, k) BY <3>3, <3>5, <3>6
        <4>2. run_now' = now BY <3>6
        <4>3. now >= run_now BY <3>1, <3>6
        <4>4. "finished" \in RunKinds BY DEF RunKinds
        <4> QED BY <1>1, <3>2, <3>4, <4>1, <4>2, <4>3, <4>4, EmitKeepsLog
      <3> QED BY <3>6, <3>7 DEF Told
    <2>4. RunTypes' BY <1>1, <2>1, <2>3 DEF RunTypes
    <2>5. StepInv' BY <2>1, <2>2, <2>3 DEF StepInv
    <2> QED BY <2>3, <2>4, <2>5 DEF ScenarioInv
  <1>11. CASE UNCHANGED scenario_vars
    <2>1. UNCHANGED <<stations, tapes, at, index, generator, drawn, service, run_now,
                      sequence, run_log, at_step>>
      BY <1>11 DEF scenario_vars
    <2>2. RunTypes' /\ RunLogInv' BY <1>1, <1>3, <2>1 DEF RunTypes
    <2>3. StepInv' BY <1>1, <2>1 DEF StepInv, AtStation, TapeTicks
    <2> QED BY <2>2, <2>3 DEF ScenarioInv
  <1> QED BY <1>4, <1>5, <1>6, <1>7, <1>8, <1>9, <1>10, <1>11 DEF ScenarioNext

\* A run at its first statement.
LEMMA ScenarioBegins ==
    ASSUME ScenarioInit
    PROVE  ScenarioInv
  <1>1. /\ stations \in StationLists /\ tapes \in [StationIds -> [1..MaxArrivals -> 0..1]]
        /\ at = 1 /\ index = 0 /\ drawn = 0 /\ service = 0 /\ run_now = 0 /\ sequence = 0
        /\ run_log = <<>> /\ at_step = "start"
    BY DEF ScenarioInit
  <1>2. Len(<<>>) = 0 /\ \A i \in 1..Len(<<>>) : FALSE OBVIOUS
  <1>3. RunTypes BY <1>1, <1>2 DEF RunTypes
  <1>4. RunLogInv BY <1>1, <1>2 DEF RunLogInv
  <1>5. StepInv BY <1>1 DEF StepInv
  <1> QED BY <1>3, <1>4, <1>5 DEF ScenarioInv

\* Sequence numbers that are the places: none twice, none missing.
LEMMA LogIsDense ==
    ASSUME RunTypes, RunLogInv
    PROVE  command_simulate = 0
  <1>1. DOMAIN run_log = 1..Len(run_log) /\ Len(run_log) \in Nat BY DEF RunTypes
  <1>2. \A n \in 1..Len(run_log) : run_log[n].seq = n - 1 BY DEF RunLogInv
  <1>3. {run_log[i].seq : i \in 1..Len(run_log)} = {i - 1 : i \in 1..Len(run_log)} BY <1>2
  <1>4. {i - 1 : i \in 1..Len(run_log)} = 0..(Len(run_log) - 1)
    <2>1. \A k \in 0..(Len(run_log) - 1) : k + 1 \in 1..Len(run_log) /\ k = (k + 1) - 1 BY <1>1
    <2>2. \A i \in 1..Len(run_log) : i - 1 \in 0..(Len(run_log) - 1) BY <1>1
    <2> QED BY <2>1, <2>2
  <1> QED BY <1>1, <1>3, <1>4 DEF command_simulate, LogHasNoViolation

\* The arrivals whose departure has been told.
ServedArrivals ==
    {a \in Scheduled :
        \/ a[1] < at
        \/ at_step \in {"arrive", "serve"} /\ a[1] = at /\ a[2] < index}

TallyInv ==
    /\ at_step # "raised" => Cardinality(Departures) = Cardinality(ServedArrivals)
    /\ at_step = "done" => at > Len(stations)

\* The counts of the tally are of finite sets.
LEMMA TallyIs ==
    ASSUME RunTypes
    PROVE  /\ IsFiniteSet(Departures) /\ IsFiniteSet(Scheduled) /\ IsFiniteSet(ServedArrivals)
           /\ Cardinality(Departures) \in Nat /\ Cardinality(ServedArrivals) \in Nat
           /\ \A a \in Scheduled : a[1] \in 1..Len(stations) /\ a[2] \in Nat
  <1>1. DOMAIN stations = 1..Len(stations) /\ Len(stations) \in Nat BY StationIs
  <1>2. DOMAIN run_log = 1..Len(run_log) /\ Len(run_log) \in Nat BY DEF RunTypes
  <1>3. MaxArrivals - 1 \in Int BY ScenarioAssumption
  <1>4. IsFiniteSet(1..Len(run_log)) /\ IsFiniteSet(1..Len(stations)) BY <1>1, <1>2, FS_Interval
  <1>5. IsFiniteSet(0..MaxArrivals - 1) BY <1>3, FS_Interval
  <1>6. IsFiniteSet((1..Len(stations)) \X (0..MaxArrivals - 1)) BY <1>4, <1>5, FS_Product
  <1>7. Departures \subseteq 1..Len(run_log) BY <1>2 DEF Departures
  <1>8. Scheduled \subseteq (1..Len(stations)) \X (0..MaxArrivals - 1) BY <1>1 DEF Scheduled
  <1>9. ServedArrivals \subseteq Scheduled BY DEF ServedArrivals
  <1>10. IsFiniteSet(Departures) BY <1>4, <1>7, FS_Subset
  <1>11. IsFiniteSet(Scheduled) BY <1>6, <1>8, FS_Subset
  <1>12. IsFiniteSet(ServedArrivals) BY <1>9, <1>11, FS_Subset
  <1>13. \A a \in Scheduled : a[1] \in 1..Len(stations) /\ a[2] \in Nat BY <1>3, <1>8
  <1> QED BY <1>10, <1>11, <1>12, <1>13, FS_CardinalityType

\* What an event appended to the log does to the departures in it.
LEMMA TellingCounts ==
    ASSUME RunTypes, NEW e, run_log' = Append(run_log, e)
    PROVE  /\ e.type # "departed" => Departures' = Departures
           /\ e.type = "departed" => /\ Len(run_log) + 1 \notin Departures
                                     /\ Departures' = Departures \cup {Len(run_log) + 1}
  <1> DEFINE S == RunEvent \cup {e}
  <1>1. run_log \in Seq(S)
    <2>1. RunEvent \subseteq S /\ run_log \in Seq(RunEvent) BY DEF RunTypes
    <2> HIDE DEF S
    <2> QED BY <2>1
  <1>2. e \in S OBVIOUS
  <1> HIDE DEF S
  <1>3. /\ run_log' \in Seq(S) /\ Len(run_log) \in Nat /\ Len(run_log') = Len(run_log) + 1
        /\ \A i \in 1..Len(run_log) : run_log'[i] = run_log[i]
        /\ run_log'[Len(run_log) + 1] = e
    BY <1>1, <1>2, Appended
  <1>4. DOMAIN run_log = 1..Len(run_log) /\ DOMAIN run_log' = 1..Len(run_log') BY <1>1, <1>3
  <1>5. \A i \in DOMAIN run_log' : i \in DOMAIN run_log \/ i = Len(run_log) + 1 BY <1>3, <1>4
  <1>6. \A i \in DOMAIN run_log : i \in DOMAIN run_log' /\ i # Len(run_log) + 1 BY <1>3, <1>4
  <1>7. Len(run_log) + 1 \in DOMAIN run_log' BY <1>3, <1>4
  <1> QED BY <1>3, <1>4, <1>5, <1>6, <1>7 DEF Departures

\* Every step keeps the tally: a departure is told for one arrival more.
LEMMA TallyStep ==
    ASSUME ScenarioInv, TallyInv, [ScenarioNext]_scenario_vars
    PROVE  TallyInv'
  <1>1. RunTypes /\ StepInv BY DEF ScenarioInv
  <1>2. /\ DOMAIN stations = 1..Len(stations) /\ Len(stations) \in Nat
        /\ at \in Nat \ {0} /\ index \in Nat
    BY <1>1, StationIs DEF RunTypes
  <1>3. \A a \in Scheduled : a[1] \in 1..Len(stations) /\ a[2] \in Nat BY <1>1, TallyIs
  <1>4. ASSUME UNCHANGED stations PROVE Scheduled' = Scheduled BY <1>4 DEF Scheduled
  <1>5. ASSUME UNCHANGED <<stations, at>>, Departures' = Departures, at_step # "raised",
               at_step' # "done",
               \/ at_step \in {"start", "station"} /\ at_step' = "station"
               \/ at_step \in {"arrive", "serve"} /\ at_step' \in {"arrive", "serve"} /\ index' = index
               \/ at_step = "station" /\ at_step' = "arrive" /\ index' = 0
        PROVE  TallyInv'
    <2>1. ServedArrivals' = ServedArrivals
      <3>1. ServedArrivals' = {a \in Scheduled :
                         \/ a[1] < at
                         \/ at_step' \in {"arrive", "serve"} /\ a[1] = at /\ a[2] < index'}
        BY <1>4, <1>5 DEF ServedArrivals
      <3>2. \A a \in Scheduled : ~(a[2] < 0) BY <1>3
      <3> QED BY <1>5, <3>1, <3>2 DEF ServedArrivals
    <2> QED BY <1>5, <2>1 DEF TallyInv
  <1>6. CASE Started
    <2>1. /\ UNCHANGED <<stations, at>> /\ at_step = "start" /\ at_step' = "station"
          /\ Emit("started", <<>>, Len(stations))
      BY <1>6 DEF Started
    <2>2. Departures' = Departures BY <1>1, <2>1, TellingCounts DEF Emit
    <2> QED BY <1>5, <2>1, <2>2
  <1>7. CASE NextStation
    <2>1. /\ UNCHANGED <<stations, at, run_log>> /\ index' = 0
          /\ at_step = "station" /\ at_step' = "arrive"
      BY <1>7 DEF NextStation
    <2>2. Departures' = Departures BY <2>1 DEF Departures
    <2> QED BY <1>5, <2>1, <2>2
  <1>8. CASE Arrived
    <2>1. /\ UNCHANGED <<stations, at, index>> /\ at_step = "arrive" /\ at_step' = "serve"
          /\ Emit("arrived", <<stations[at].id, index>>, 0)
      BY <1>8 DEF Arrived
    <2>2. Departures' = Departures BY <1>1, <2>1, TellingCounts DEF Emit
    <2> QED BY <1>5, <2>1, <2>2
  <1>9. CASE Departed
    <2>1. /\ UNCHANGED <<stations, at>> /\ at_step = "serve" /\ at_step' = "arrive"
          /\ index' = index + 1 /\ Emit("departed", <<stations[at].id, index>>, service)
      BY <1>9 DEF Departed
    <2>2. /\ Len(run_log) + 1 \notin Departures
          /\ Departures' = Departures \cup {Len(run_log) + 1}
      BY <1>1, <2>1, TellingCounts DEF Emit
    <2>3. <<at, index>> \in Scheduled /\ <<at, index>> \notin ServedArrivals
      <3>1. /\ at \in 1..Len(stations) /\ index < stations[at].arrivals
            /\ stations[at].arrivals \in 1..MaxArrivals
        BY <1>1, <2>1 DEF StepInv, AtStation
      <3>2. index \in 0..MaxArrivals - 1 BY <1>2, <3>1, ScenarioAssumption
      <3>3. <<at, index>>[1] = at /\ <<at, index>>[2] = index OBVIOUS
      <3>4. <<at, index>> \in Scheduled BY <1>2, <3>1, <3>2, <3>3 DEF Scheduled
      <3>5. ~(at < at) /\ ~(index < index) BY <1>2
      <3> QED BY <3>3, <3>4, <3>5 DEF ServedArrivals
    <2>4. ServedArrivals' = ServedArrivals \cup {<<at, index>>}
      <3>1. ServedArrivals' = {a \in Scheduled : a[1] < at \/ (a[1] = at /\ a[2] < index + 1)}
        BY <1>4, <2>1 DEF ServedArrivals
      <3>2. ServedArrivals = {a \in Scheduled : a[1] < at \/ (a[1] = at /\ a[2] < index)}
        BY <2>1 DEF ServedArrivals
      <3>3. ASSUME NEW a \in Scheduled PROVE a[2] < index + 1 <=> a[2] < index \/ a[2] = index
        BY <1>2, <1>3
      <3>4. ASSUME NEW a \in Scheduled PROVE a = <<at, index>> <=> a[1] = at /\ a[2] = index
        <4>1. PICK i \in DOMAIN stations, k \in 0..MaxArrivals - 1 : a = <<i, k>>
          BY DEF Scheduled
        <4> QED BY <4>1
      <3> QED BY <2>3, <3>1, <3>2, <3>3, <3>4
    <2>5. /\ IsFiniteSet(Departures) /\ IsFiniteSet(ServedArrivals)
          /\ Cardinality(Departures) \in Nat /\ Cardinality(ServedArrivals) \in Nat
      BY <1>1, TallyIs
    <2>6. /\ Cardinality(Departures') = Cardinality(Departures) + 1
          /\ Cardinality(ServedArrivals') = Cardinality(ServedArrivals) + 1
      BY <2>2, <2>3, <2>4, <2>5, FS_AddElement
    <2> QED BY <2>1, <2>6 DEF TallyInv
  <1>10. CASE ServiceRefused BY <1>10 DEF ServiceRefused, TallyInv
  <1>11. CASE StationDone
    <2>1. /\ UNCHANGED <<stations, run_log, index>> /\ at' = at + 1
          /\ at_step = "arrive" /\ at_step' = "station" /\ index = stations[at].arrivals
      BY <1>11 DEF StationDone
    <2>2. Departures' = Departures BY <2>1 DEF Departures
    <2>3. ServedArrivals' = ServedArrivals
      <3>1. ServedArrivals' = {a \in Scheduled : a[1] < at + 1} BY <1>4, <2>1 DEF ServedArrivals
      <3>2. ServedArrivals = {a \in Scheduled : a[1] < at \/ (a[1] = at /\ a[2] < stations[at].arrivals)}
        BY <2>1 DEF ServedArrivals
      <3>3. ASSUME NEW a \in Scheduled
            PROVE  a[1] < at + 1 <=> a[1] < at \/ (a[1] = at /\ a[2] < stations[at].arrivals)
        <4>1. a[1] < at + 1 <=> a[1] < at \/ a[1] = at BY <1>2, <1>3
        <4>2. a[1] = at => a[2] < stations[at].arrivals BY DEF Scheduled
        <4> QED BY <4>1, <4>2
      <3> QED BY <3>1, <3>2, <3>3
    <2> QED BY <2>1, <2>2, <2>3 DEF TallyInv
  <1>12. CASE Finished
    <2>1. /\ UNCHANGED <<stations, at, index>> /\ at_step = "station" /\ at_step' = "done"
          /\ at > Len(stations) /\ Emit("finished", <<>>, sequence + 1)
      BY <1>12 DEF Finished
    <2>2. Departures' = Departures BY <1>1, <2>1, TellingCounts DEF Emit
    <2>3. ServedArrivals' = ServedArrivals BY <1>4, <2>1 DEF ServedArrivals
    <2> QED BY <2>1, <2>2, <2>3 DEF TallyInv
  <1>13. CASE UNCHANGED scenario_vars
    <2>1. UNCHANGED <<stations, at, index, run_log, at_step>> BY <1>13 DEF scenario_vars
    <2> QED BY <2>1 DEF TallyInv, ServedArrivals, Departures, Scheduled
  <1> QED BY <1>6, <1>7, <1>8, <1>9, <1>10, <1>11, <1>12, <1>13 DEF ScenarioNext

\* Nothing is told before the first station.
LEMMA TallyBegins ==
    ASSUME ScenarioInit, ScenarioInv
    PROVE  TallyInv
  <1>1. run_log = <<>> /\ at = 1 /\ at_step = "start" BY DEF ScenarioInit
  <1>2. Departures = {}
    <2>1. DOMAIN run_log = {} BY <1>1
    <2> QED BY <2>1 DEF Departures
  <1>3. ServedArrivals = {}
    <2>1. \A a \in Scheduled : a[1] \in 1..Len(stations) BY TallyIs DEF ScenarioInv
    <2>2. Len(stations) \in Nat BY StationIs DEF ScenarioInv
    <2>3. \A a \in Scheduled : ~(a[1] < 1) BY <2>1, <2>2
    <2> QED BY <1>1, <2>3 DEF ServedArrivals
  <1> QED BY <1>1, <1>2, <1>3 DEF TallyInv

\* A log in order is printed as it is: before an event are those that it has before it.
LEMMA PrintedAsIs ==
    ASSUME RunTypes, RunLogInv
    PROVE  Printed(run_log) = run_log
  <1>1. DOMAIN run_log = 1..Len(run_log) /\ Len(run_log) \in Nat BY DEF RunTypes
  <1>2. \A n \in 1..Len(run_log) : run_log[n].seq = n - 1 /\ run_log[n].sim_ts \in Nat
    <2>1. \A n \in 1..Len(run_log) : run_log[n] \in RunEvent BY DEF RunTypes
    <2>2. \A n \in 1..Len(run_log) : run_log[n].sim_ts \in Nat BY <2>1 DEF RunEvent
    <2> QED BY <2>2 DEF RunLogInv
  <1>3. \A i, j \in 1..Len(run_log) : i < j => run_log[i].sim_ts <= run_log[j].sim_ts
    <2> DEFINE Falls(m) == \E i, j \in 1..Len(run_log) :
                               j = i + m /\ ~(run_log[i].sim_ts <= run_log[j].sim_ts)
               T == {m \in Nat : Falls(m)}
    <2>1. ASSUME T # {} PROVE FALSE
      <3>1. PICK m \in T : \A k \in T : m <= k BY <2>1, LeastNumber
      <3>2. PICK i \in 1..Len(run_log), j \in 1..Len(run_log) :
               j = i + m /\ ~(run_log[i].sim_ts <= run_log[j].sim_ts)
        OBVIOUS
      <3>3. m \in Nat OBVIOUS
      <3>4. m # 0
        <4>1. m = 0 => j = i BY <1>1, <3>2
        <4> QED BY <1>2, <3>2, <4>1
      <3>5. m - 1 \in Nat /\ ~Falls(m - 1)
        <4> HIDE DEF Falls
        <4>1. m - 1 \in Nat /\ ~(m <= m - 1) BY <3>3, <3>4
        <4> QED BY <3>1, <4>1
      <3>6. j - 1 \in 1..Len(run_log) /\ j - 1 = i + (m - 1) /\ j > 1
        BY <1>1, <3>2, <3>3, <3>4
      <3>7. run_log[i].sim_ts <= run_log[j - 1].sim_ts BY <3>5, <3>6
      <3>8. run_log[j - 1].sim_ts <= run_log[j].sim_ts BY <3>6 DEF RunLogInv
      <3>9. /\ run_log[i].sim_ts \in Nat /\ run_log[j].sim_ts \in Nat
            /\ run_log[j - 1].sim_ts \in Nat
        BY <1>2, <3>6
      <3>10. run_log[i].sim_ts <= run_log[j].sim_ts BY <3>7, <3>8, <3>9
      <3> QED BY <3>2, <3>10
    <2> SUFFICES ASSUME NEW i \in 1..Len(run_log), NEW j \in 1..Len(run_log), i < j
                 PROVE  run_log[i].sim_ts <= run_log[j].sim_ts
      OBVIOUS
    <2>2. j - i \in Nat /\ j = i + (j - i) BY <1>1
    <2>3. Falls(j - i) => FALSE BY <2>1, <2>2
    <2> QED BY <1>2, <2>2, <2>3
  <1>4. \A i, j \in 1..Len(run_log) : TotalOrder(run_log[j], run_log[i]) <=> j < i
    <2> SUFFICES ASSUME NEW i \in 1..Len(run_log), NEW j \in 1..Len(run_log)
                 PROVE  TotalOrder(run_log[j], run_log[i]) <=> j < i
      OBVIOUS
    <2>1. /\ run_log[i].seq = i - 1 /\ run_log[j].seq = j - 1
          /\ run_log[i].sim_ts \in Nat /\ run_log[j].sim_ts \in Nat
          /\ i < j => run_log[i].sim_ts <= run_log[j].sim_ts
          /\ j < i => run_log[j].sim_ts <= run_log[i].sim_ts
      BY <1>2, <1>3
    <2>2. i \in Int /\ j \in Int BY <1>1
    <2> DEFINE x == run_log[i].sim_ts
               y == run_log[j].sim_ts
    <2>3. /\ x \in Nat /\ y \in Nat /\ (i < j => x <= y) /\ (j < i => y <= x)
          /\ TotalOrder(run_log[j], run_log[i]) <=> (y < x \/ (y = x /\ j - 1 < i - 1))
      BY <2>1 DEF TotalOrder
    <2> HIDE DEF x, y
    <2>4. i = j => x = y BY DEF x, y
    <2> QED BY <2>2, <2>3, <2>4
  <1> DEFINE Ahead(j, i) == \/ TotalOrder(run_log[j], run_log[i])
                            \/ j < i /\ ~TotalOrder(run_log[i], run_log[j])
             Place(i) == Cardinality({j \in DOMAIN run_log : Ahead(j, i)}) + 1
  <1>5. \A i \in 1..Len(run_log) : Place(i) = i
    <2> SUFFICES ASSUME NEW i \in 1..Len(run_log) PROVE Place(i) = i OBVIOUS
    <2>1. {j \in DOMAIN run_log : Ahead(j, i)} = 1..(i - 1)
      <3>1. {j \in DOMAIN run_log : Ahead(j, i)} = {j \in 1..Len(run_log) : j < i}
        BY <1>1, <1>4
      <3>2. {j \in 1..Len(run_log) : j < i} = 1..(i - 1) BY <1>1
      <3> QED BY <3>1, <3>2
    <2>2. i - 1 \in Nat /\ i - 1 - 1 + 1 = i - 1 BY <1>1
    <2>3. Cardinality(1..(i - 1)) = i - 1 BY <1>1, <2>2, FS_Interval
    <2> DEFINE c == Cardinality({j \in DOMAIN run_log : Ahead(j, i)})
    <2>4. c = i - 1 BY <2>1, <2>3
    <2>5. Place(i) = c + 1 OBVIOUS
    <2>6. i \in Int BY <1>1
    <2> HIDE DEF c, Place
    <2> QED BY <2>4, <2>5, <2>6
  <1>6. Printed(run_log) = [n \in DOMAIN run_log |-> run_log[CHOOSE i \in DOMAIN run_log : Place(i) = n]]
    BY DEF Printed
  <1> HIDE DEF Place
  <1>7. \A n \in DOMAIN run_log : (CHOOSE i \in DOMAIN run_log : Place(i) = n) = n BY <1>1, <1>5
  <1>8. run_log = [n \in DOMAIN run_log |-> run_log[n]] BY DEF RunTypes
  <1> QED BY <1>6, <1>7, <1>8

\* The invariants say what the run's log has to.
LEMMA ScenarioMeans ==
    ASSUME ScenarioInv, TallyInv
    PROVE  DrawsDoNotMove /\ LogTellsTheRun
  <1>1. RunTypes /\ RunLogInv /\ StepInv BY DEF ScenarioInv
  <1>2. DOMAIN run_log = 1..Len(run_log) BY <1>1 DEF RunTypes
  <1>3. DOMAIN stations = 1..Len(stations) BY <1>1, StationIs
  <1>4. DrawsDoNotMove BY <1>1, <1>2, <1>3 DEF DrawsDoNotMove, RunLogInv, DrawIsOwn
  <1>5. \A n \in DOMAIN run_log : n > 1 => run_log[n - 1].sim_ts <= run_log[n].sim_ts
    BY <1>1, <1>2 DEF RunLogInv
  <1>6. \A n \in DOMAIN run_log : run_log[n].type = "departed" =>
            /\ run_log[n - 1].type = "arrived"
            /\ run_log[n - 1].subject = run_log[n].subject
            /\ run_log[n].sim_ts - run_log[n - 1].sim_ts = run_log[n].ticks
    BY <1>1, <1>2 DEF RunLogInv, FollowsArrival
  <1>7. command_simulate = 0 BY <1>1, LogIsDense
  <1>8. at_step = "done" => Last(run_log).ticks = Len(run_log) BY <1>1 DEF StepInv, Last
  <1>9. ASSUME at_step = "done" PROVE Cardinality(Departures) = Cardinality(Scheduled)
    <2>1. at > Len(stations) /\ Cardinality(Departures) = Cardinality(ServedArrivals)
      BY <1>9 DEF TallyInv
    <2>2. Len(stations) \in Nat /\ at \in Nat BY <1>1, StationIs DEF RunTypes
    <2>3. \A a \in Scheduled : a[1] \in 1..Len(stations) BY <1>1, TallyIs
    <2>4. \A a \in Scheduled : a[1] < at BY <2>1, <2>2, <2>3
    <2>5. ServedArrivals = Scheduled BY <2>4 DEF ServedArrivals
    <2> QED BY <2>1, <2>5
  <1>10. Printed(run_log) = run_log BY <1>1, PrintedAsIs
  <1> QED BY <1>4, <1>5, <1>6, <1>7, <1>8, <1>9, <1>10 DEF LogTellsTheRun

\* run_scenario: a departure takes the draw its station's address names, whatever other
\* stations draw, and the log is dense, in order of time, each departure right after its
\* arrival, is printed as it was emitted and counts every arrival of the scenario; for any
\* scenarios, spreads and tapes.
THEOREM RunCorrect ==
    PartsSpec => [](part = "scenario" => DrawsDoNotMove /\ LogTellsTheRun)
  <1> DEFINE Inv == part = "scenario" => ScenarioInv /\ TallyInv
  <1>1. PartsInit => Inv BY ScenarioBegins, TallyBegins DEF PartsInit
  <1>2. ASSUME Inv, [PartsNext]_<<part, vars, tool_vars, portal_vars, temperature_vars,
                        bus_vars, mqtt_vars, registry_vars, time_vars, scenario_vars, facility,
                        config_vars, versions, archive_vars, sync_vars, rules_vars, thread_vars>>
        PROVE  Inv'
    <2>1. UNCHANGED part BY <1>2, PartRuns
    <2>2. ASSUME part = "scenario" PROVE [ScenarioNext]_scenario_vars
      BY <1>2, <2>2 DEF PartsNext, OthersStill
    <2> QED BY <1>2, <2>1, <2>2, ScenarioStep, TallyStep
  <1>3. Inv => (part = "scenario" => DrawsDoNotMove /\ LogTellsTheRun) BY ScenarioMeans
  <1> QED BY <1>1, <1>2, <1>3, PTL DEF PartsSpec

\* What the runs ask of a repeated run, part by part: one address gives one stream,
\* draws do not move and the log tells the run, no instant is early and each is the
\* nearest tick.
THEOREM RunsRepeatCorrect == PartsSpec => []RunsRepeat
  <1>1. \A p \in -6..6, q \in {1, 2, 4} : NearestTick(p, q)
    <2>1. \A p \in -6..6, q \in {1, 2, 4} : p \in Int /\ q \in Nat \ {0} OBVIOUS
    <2> QED BY <2>1, RoundingNearest
  <1>2. (/\ part = "registries" => OneAddressOneStream /\ CatalogIsComplete
         /\ part = "scenario" => DrawsDoNotMove /\ LogTellsTheRun
         /\ part = "time" => NeverEarly) => RunsRepeat
    BY <1>1 DEF RunsRepeat
  <1> QED BY <1>2, RegistriesCorrect, RunCorrect, PacingCorrect, PTL
-----------------------------------------------------------------------------
(* SchemaCompat: what a chain of accepted versions keeps.                  *)

IsSchema(s) == DOMAIN s \subseteq PropertyNames /\ \A n \in DOMAIN s : s[n] \in PropertyForms

\* A field of the oldest version stands in this one, and what came later is optional.
StandsIn(s) ==
    /\ DOMAIN Oldest \subseteq DOMAIN s
    /\ \A n \in DOMAIN s :
           IF n \in DOMAIN Oldest
           THEN s[n].required = Oldest[n].required /\ s[n].type = Oldest[n].type
           ELSE ~s[n].required

\* No version so far opened the range of the field.
NeverOpened(n) == \A i \in 1..Len(versions) : ~versions[i][n].open_range

SchemaInv ==
    /\ versions \in Seq(Schemas) /\ Len(versions) >= 1
    /\ \A i \in 1..Len(versions) : StandsIn(versions[i])
    /\ \A n \in DOMAIN Oldest : NeverOpened(n) =>
          \A v : InBounds(Newest[n], v) => InBounds(Oldest[n], v)

\* The schemas are what their name says.
LEMMA SchemaIs ==
    ASSUME NEW s \in Schemas
    PROVE  IsSchema(s)
  <1>1. PICK names \in SUBSET PropertyNames : s \in [names -> PropertyForms] BY DEF Schemas
  <1> QED BY <1>1 DEF IsSchema

\* Nothing is found of a property only when it is required as before, and of its type.
LEMMA SameField ==
    ASSUME NEW before \in PropertyForms, NEW after \in PropertyForms,
           PropertyFindings(before, after) = {}
    PROVE  after.required = before.required /\ after.type = before.type
  <1>1. /\ after.type = before.type
        /\ ~(before.required /\ ~after.required) /\ ~(~before.required /\ after.required)
    BY ZenonT(60) DEF PropertyFindings
  <1>2. before.required \in BOOLEAN /\ after.required \in BOOLEAN BY SchemaAssumption
  <1> QED BY <1>1, <1>2

\* Nor is anything of its lower bound, unless it was open: there is one, and it is the same.
LEMMA SameLower ==
    ASSUME NEW before \in PropertyForms, NEW after \in PropertyForms,
           PropertyFindings(before, after) = {}, ~before.open_range, before.lower # Absent
    PROVE  after.lower # Absent /\ after.lower[1] = before.lower[1]
  <1>1. /\ after.lower # Absent
        /\ ~(before.lower[1] < after.lower[1]) /\ ~(after.lower[1] < before.lower[1])
    BY ZenonT(60) DEF PropertyFindings, BoundFindings
  <1>2. before.lower[1] \in Int /\ after.lower[1] \in Int BY <1>1, SchemaAssumption
  <1> QED BY <1>1, <1>2

\* The same of its upper bound.
LEMMA SameUpper ==
    ASSUME NEW before \in PropertyForms, NEW after \in PropertyForms,
           PropertyFindings(before, after) = {}, ~before.open_range, before.upper # Absent
    PROVE  after.upper # Absent /\ after.upper[1] = before.upper[1]
  <1>1. /\ after.upper # Absent
        /\ ~(before.upper[1] > after.upper[1]) /\ ~(after.upper[1] > before.upper[1])
    BY ZenonT(60) DEF PropertyFindings, BoundFindings
  <1>2. before.upper[1] \in Int /\ after.upper[1] \in Int BY <1>1, SchemaAssumption
  <1> QED BY <1>1, <1>2

\* A closed range does not get wider.
LEMMA RangeHolds ==
    ASSUME NEW before \in PropertyForms, NEW after \in PropertyForms,
           PropertyFindings(before, after) = {}, ~before.open_range,
           NEW v, InBounds(after, v)
    PROVE  InBounds(before, v)
  <1>1. before.lower # Absent => before.lower[1] <= v BY SameLower DEF InBounds
  <1>2. before.upper # Absent => v <= before.upper[1] BY SameUpper DEF InBounds
  <1> QED BY <1>1, <1>2 DEF InBounds

\* What compare_schemas reports nothing of.
LEMMA NothingReported ==
    ASSUME NEW old, NEW new, compare_schemas(old, new) = {}
    PROVE  /\ DOMAIN old \subseteq DOMAIN new
           /\ \A n \in DOMAIN old : PropertyFindings(old[n], new[n]) = {}
           /\ \A n \in DOMAIN new \ DOMAIN old : ~new[n].required
  <1> DEFINE Gone == {<<n, "removed">> : n \in DOMAIN old \ DOMAIN new}
             Changed == {{<<n, f>> : f \in PropertyFindings(old[n], new[n])} :
                            n \in DOMAIN old \cap DOMAIN new}
             Added == {{<<n, f>> : f \in AddedFindings(new[n])} : n \in DOMAIN new \ DOMAIN old}
  <1>1. compare_schemas(old, new) = Gone \cup (UNION Changed) \cup (UNION Added)
    BY DEF compare_schemas
  <1>2. Gone = {} /\ (\A S \in Changed : S = {}) /\ (\A S \in Added : S = {})
    <2> HIDE DEF Gone, Changed, Added
    <2>1. Gone \cup (UNION Changed) \cup (UNION Added) = {} BY <1>1
    <2>2. ASSUME NEW S \in Changed, NEW x \in S PROVE FALSE
      <3>1. x \in UNION Changed BY <2>2
      <3>2. x \in Gone \cup (UNION Changed) \cup (UNION Added) BY <3>1, Zenon
      <3> QED BY <2>1, <3>2
    <2>3. ASSUME NEW S \in Added, NEW x \in S PROVE FALSE
      <3>1. x \in UNION Added BY <2>3
      <3>2. x \in Gone \cup (UNION Changed) \cup (UNION Added) BY <3>1, Zenon
      <3> QED BY <2>1, <3>2
    <2>4. Gone = {} BY <2>1
    <2>5. \A S \in Changed : S = {} BY <2>2, Zenon
    <2>6. \A S \in Added : S = {} BY <2>3, Zenon
    <2> QED BY <2>4, <2>5, <2>6
  <1>3. DOMAIN old \subseteq DOMAIN new BY <1>2, Zenon
  <1>4. ASSUME NEW n \in DOMAIN old, NEW f \in PropertyFindings(old[n], new[n]) PROVE FALSE
    <2>1. n \in DOMAIN old \cap DOMAIN new BY <1>3, <1>4
    <2>2. {<<n, g>> : g \in PropertyFindings(old[n], new[n])} \in Changed BY <2>1, Zenon
    <2>3. {<<n, g>> : g \in PropertyFindings(old[n], new[n])} = {} BY <1>2, <2>2, Zenon
    <2> QED BY <1>4, <2>3, Zenon
  <1>5. ASSUME NEW n \in DOMAIN new \ DOMAIN old, new[n].required PROVE FALSE
    <2>1. "added as required" \in AddedFindings(new[n]) BY <1>5 DEF AddedFindings
    <2>2. {<<n, f>> : f \in AddedFindings(new[n])} \in Added BY <1>5, Zenon
    <2>3. {<<n, f>> : f \in AddedFindings(new[n])} = {} BY <1>2, <2>2, Zenon
    <2> QED BY <2>1, <2>3, Zenon
  <1>6. \A n \in DOMAIN old : PropertyFindings(old[n], new[n]) = {} BY <1>4, Zenon
  <1> QED BY <1>3, <1>5, <1>6, Zenon

\* The next version keeps what its predecessor kept.
LEMMA PublishKeeps ==
    ASSUME SchemaInv, NEW s \in Schemas, PublishVersion(s)
    PROVE  SchemaInv'
  <1>1. compare_schemas(Newest, s) = {} /\ versions' = Append(versions, s)
    BY DEF PublishVersion
  <1>2. versions \in Seq(Schemas) /\ Len(versions) \in Nat /\ Len(versions) >= 1
    BY DEF SchemaInv
  <1>3. /\ versions' \in Seq(Schemas) /\ Len(versions') = Len(versions) + 1
        /\ \A i \in 1..Len(versions) : versions'[i] = versions[i]
        /\ versions'[Len(versions) + 1] = s
    BY <1>1, <1>2, Appended
  <1>4. /\ Oldest' = Oldest /\ Newest' = s
        /\ \A i \in 1..Len(versions') : i \in 1..Len(versions) \/ i = Len(versions) + 1
        /\ Len(versions) \in 1..Len(versions)
    BY <1>2, <1>3 DEF Oldest, Newest
  <1>5. IsSchema(s) /\ IsSchema(Newest) BY <1>2, <1>4, SchemaIs DEF Newest
  <1>6. /\ DOMAIN Newest \subseteq DOMAIN s
        /\ \A n \in DOMAIN Newest : PropertyFindings(Newest[n], s[n]) = {}
        /\ \A n \in DOMAIN s \ DOMAIN Newest : ~s[n].required
    BY <1>1, NothingReported
  <1>7. StandsIn(Newest) BY <1>4 DEF SchemaInv, Newest
  <1>8. \A n \in DOMAIN Newest : /\ s[n].required = Newest[n].required
                                 /\ s[n].type = Newest[n].type
    BY <1>5, <1>6, SameField DEF IsSchema
  <1>9. StandsIn(s)
    <2>1. DOMAIN Oldest \subseteq DOMAIN s BY <1>6, <1>7 DEF StandsIn
    <2>2. ASSUME NEW n \in DOMAIN Oldest
          PROVE  s[n].required = Oldest[n].required /\ s[n].type = Oldest[n].type
      BY <1>7, <1>8, <2>2 DEF StandsIn
    <2>3. ASSUME NEW n \in DOMAIN s, n \notin DOMAIN Oldest PROVE ~s[n].required
      <3>1. CASE n \in DOMAIN Newest
        <4>1. ~Newest[n].required BY <1>7, <2>3, <3>1 DEF StandsIn
        <4>2. s[n].required = Newest[n].required BY <1>8, <3>1
        <4> QED BY <4>1, <4>2
      <3>2. CASE n \notin DOMAIN Newest BY <1>6, <2>3, <3>2
      <3> QED BY <3>1, <3>2
    <2> QED BY <2>1, <2>2, <2>3 DEF StandsIn
  <1>10. \A i \in 1..Len(versions') : StandsIn(versions'[i])
    BY <1>3, <1>4, <1>9 DEF SchemaInv
  <1>11. \A i \in 1..Len(versions') : StandsIn(versions[i])'
    BY <1>4, <1>10 DEF StandsIn
  <1>12. ASSUME NEW n \in DOMAIN Oldest, NeverOpened(n)', NEW v, InBounds(s[n], v)
         PROVE  InBounds(Oldest[n], v)
    <2>1. \A i \in 1..Len(versions) : i \in 1..Len(versions') BY <1>2, <1>3
    <2>2. NeverOpened(n) BY <1>3, <1>12, <2>1 DEF NeverOpened
    <2>3. n \in DOMAIN Newest BY <1>7, <1>12 DEF StandsIn
    <2>4. ~Newest[n].open_range BY <1>4, <2>2 DEF NeverOpened, Newest
    <2>5. Newest[n] \in PropertyForms /\ s[n] \in PropertyForms
      BY <1>5, <1>6, <2>3 DEF IsSchema
    <2>6. InBounds(Newest[n], v) BY <1>6, <1>12, <2>3, <2>4, <2>5, RangeHolds
    <2> QED BY <1>12, <2>2, <2>6 DEF SchemaInv
  <1>13. \A n \in DOMAIN Oldest' : NeverOpened(n)' =>
            \A v : InBounds(Newest'[n], v) => InBounds(Oldest'[n], v)
    BY <1>4, <1>12
  <1> QED BY <1>2, <1>3, <1>11, <1>13 DEF SchemaInv, InBounds

\* A major begins with one version.
LEMMA SchemaBegins ==
    ASSUME SchemaInit
    PROVE  SchemaInv
  <1>1. PICK s \in Schemas : versions = <<s>> BY DEF SchemaInit
  <1>2. /\ versions \in Seq(Schemas) /\ Len(versions) = 1 /\ versions[1] = s
        /\ Oldest = s /\ Newest = s
    BY <1>1 DEF Oldest, Newest
  <1>3. IsSchema(s) BY SchemaIs
  <1>4. StandsIn(s) BY <1>2 DEF StandsIn
  <1> QED BY <1>2, <1>4 DEF SchemaInv

\* compare_schemas: whatever chain of versions it reports nothing of, a field of the oldest
\* one stays with its type and as required as it was, what was added stays optional, and a
\* range that was never opened admits nothing the oldest did not.
THEOREM MajorCorrect == PartsSpec => [](part = "schema" => MajorIsStable)
  <1> DEFINE Inv == part = "schema" => SchemaInv
  <1>1. PartsInit => Inv BY SchemaBegins DEF PartsInit
  <1>2. ASSUME Inv, [PartsNext]_<<part, vars, tool_vars, portal_vars, temperature_vars,
                        bus_vars, mqtt_vars, registry_vars, time_vars, scenario_vars, facility,
                        config_vars, versions, archive_vars, sync_vars, rules_vars, thread_vars>>
        PROVE  Inv'
    <2>1. UNCHANGED part BY <1>2, PartRuns
    <2>2. ASSUME part = "schema" PROVE SchemaNext \/ UNCHANGED versions
      BY <1>2, <2>2 DEF PartsNext, OthersStill
    <2>3. ASSUME SchemaInv, UNCHANGED versions PROVE SchemaInv'
      BY <2>3 DEF SchemaInv, StandsIn, NeverOpened, Oldest, Newest, InBounds
    <2>4. ASSUME SchemaInv, SchemaNext PROVE SchemaInv' BY <2>4, PublishKeeps DEF SchemaNext
    <2> QED BY <1>2, <2>1, <2>2, <2>3, <2>4
  <1>3. ASSUME SchemaInv PROVE MajorIsStable
    <2>1. DOMAIN versions = 1..Len(versions) BY <1>3 DEF SchemaInv
    <2>2. RequiredStands BY <1>3, <2>1 DEF SchemaInv, RequiredStands, StandsIn
    <2>3. ClosedRangesStand BY <1>3, <2>1 DEF SchemaInv, ClosedRangesStand, NeverOpened
    <2> QED BY <2>2, <2>3 DEF MajorIsStable
  <1>4. Inv => (part = "schema" => MajorIsStable) BY <1>3
  <1> QED BY <1>1, <1>2, <1>4, PTL DEF PartsSpec
-----------------------------------------------------------------------------
(* RoadmapSync: one issue per package.                                      *)

\* The function that FlattenSeq defines by recursion on the index, cut off at m.
FlattensTo(s, m, f) == f = [i \in 1..m |-> IF i = 1 THEN s[i] ELSE f[i - 1] \o s[i]]

Flattening(s) == CHOOSE f : FlattensTo(s, Len(s), f)

\* FlattenSeq is the last value of its recursive function.
LEMMA Unfolds ==
    ASSUME NEW s
    PROVE  FlattenSeq(s) = IF Len(s) = 0 THEN s ELSE Flattening(s)[Len(s)]
  BY DEF FlattenSeq, Flattening, FlattensTo

\* There is such a function, of any length.
LEMMA FlatteningIs ==
    ASSUME NEW s, Len(s) \in Nat
    PROVE  FlattensTo(s, Len(s), Flattening(s))
  <1> DEFINE T == {m \in Nat : \A f : ~FlattensTo(s, m, f)}
  <1>1. ASSUME T # {} PROVE FALSE
    <2>1. PICK m \in T : \A k \in T : m <= k BY <1>1, LeastNumber
    <2>2. m \in Nat OBVIOUS
    <2>3. CASE m = 0
      <3> DEFINE f == [i \in 1..0 |-> s[i]]
      <3>1. FlattensTo(s, 0, f) BY DEF FlattensTo
      <3> QED BY <2>1, <2>3, <3>1
    <2>4. CASE m > 0
      <3>1. m - 1 \in Nat /\ m - 1 \notin T BY <2>1, <2>2, <2>4
      <3>2. PICK f : FlattensTo(s, m - 1, f) BY <3>1
      <3> DEFINE g == [i \in 1..m |-> IF i = m THEN IF m = 1 THEN s[m] ELSE f[m - 1] \o s[m]
                                      ELSE f[i]]
      <3>3. \A i \in 1..m : g[i] = IF i = 1 THEN s[i] ELSE g[i - 1] \o s[i]
        <4> SUFFICES ASSUME NEW i \in 1..m
                     PROVE  g[i] = IF i = 1 THEN s[i] ELSE g[i - 1] \o s[i]
          OBVIOUS
        <4>1. CASE i = m
          <5>1. CASE m = 1 BY <4>1, <5>1
          <5>2. CASE m # 1
            <6>1. m - 1 \in 1..m /\ m - 1 # m BY <2>2, <2>4, <5>2
            <6> QED BY <4>1, <5>2, <6>1
          <5> QED BY <5>1, <5>2
        <4>2. CASE i # m
          <5>1. i \in 1..m - 1 BY <2>2, <4>2
          <5>2. f[i] = IF i = 1 THEN s[i] ELSE f[i - 1] \o s[i] BY <3>2, <5>1 DEF FlattensTo
          <5>3. i # 1 => i - 1 \in 1..m /\ i - 1 # m BY <2>2, <5>1
          <5> QED BY <4>2, <5>2, <5>3
        <4> QED BY <4>1, <4>2
      <3>4. g = [i \in 1..m |-> g[i]] OBVIOUS
      <3> HIDE DEF g
      <3>5. FlattensTo(s, m, g) BY <3>3, <3>4 DEF FlattensTo
      <3> QED BY <2>1, <3>5
    <2> QED BY <2>2, <2>3, <2>4
  <1>2. \E f : FlattensTo(s, Len(s), f) BY <1>1
  <1> QED BY <1>2 DEF Flattening

\* Where each element of a flattened sequence comes from: the place of its sequence, and its
\* place there.
ComesFrom(F, s, m, X) ==
    /\ F \in Seq(X)
    /\ \E own \in [1..Len(F) -> 1..m], pos \in [1..Len(F) -> Nat] :
          /\ \A k \in 1..Len(F) : pos[k] \in 1..Len(s[own[k]]) /\ F[k] = s[own[k]][pos[k]]
          /\ \A k, l \in 1..Len(F) : own[k] = own[l] /\ pos[k] = pos[l] => k = l

\* One more sequence, put behind what was flattened.
LEMMA Joined ==
    ASSUME NEW X, NEW m \in Nat, NEW s, NEW F, ComesFrom(F, s, m, X), s[m + 1] \in Seq(X)
    PROVE  ComesFrom(F \o s[m + 1], s, m + 1, X)
  <1> DEFINE t == s[m + 1]
             G == F \o t
  <1>1. F \in Seq(X) /\ t \in Seq(X) BY DEF ComesFrom
  <1>2. PICK own \in [1..Len(F) -> 1..m], pos \in [1..Len(F) -> Nat] :
          /\ \A k \in 1..Len(F) : pos[k] \in 1..Len(s[own[k]]) /\ F[k] = s[own[k]][pos[k]]
          /\ \A k, l \in 1..Len(F) : own[k] = own[l] /\ pos[k] = pos[l] => k = l
    BY DEF ComesFrom
  <1>3. t = s[m + 1] OBVIOUS
  <1> HIDE DEF t
  <1>4. /\ G \in Seq(X) /\ Len(G) = Len(F) + Len(t) /\ Len(F) \in Nat /\ Len(t) \in Nat
        /\ \A k \in 1..Len(F) : G[k] = F[k]
        /\ \A k \in Len(F) + 1..Len(G) : G[k] = t[k - Len(F)]
    BY <1>1
  <1> HIDE DEF G
  <1> DEFINE o == [k \in 1..Len(G) |-> IF k <= Len(F) THEN own[k] ELSE m + 1]
             p == [k \in 1..Len(G) |-> IF k <= Len(F) THEN pos[k] ELSE k - Len(F)]
  <1>5. \A k \in 1..Len(F) : own[k] \in 1..m /\ pos[k] \in Nat BY <1>2
  <1>6. \A k \in 1..Len(G) : IF k <= Len(F) THEN k \in 1..Len(F)
                             ELSE k - Len(F) \in 1..Len(t) /\ k \in Len(F) + 1..Len(G)
    BY <1>4
  <1>7. \A k \in 1..Len(G) : o[k] \in 1..m + 1 /\ p[k] \in Nat BY <1>4, <1>5, <1>6
  <1>8. ASSUME NEW k \in 1..Len(G) PROVE p[k] \in 1..Len(s[o[k]]) /\ G[k] = s[o[k]][p[k]]
    <2>1. CASE k <= Len(F) BY <1>2, <1>4, <1>6, <2>1
    <2>2. CASE ~(k <= Len(F)) BY <1>3, <1>4, <1>6, <2>2
    <2> QED BY <2>1, <2>2
  <1>9. ASSUME NEW k \in 1..Len(G), NEW l \in 1..Len(G), o[k] = o[l], p[k] = p[l] PROVE k = l
    <2>1. CASE k <= Len(F) /\ l <= Len(F) BY <1>2, <1>6, <1>9, <2>1
    <2>2. CASE k <= Len(F) /\ ~(l <= Len(F))
      <3>1. own[k] = m + 1 BY <1>9, <2>2
      <3> QED BY <1>5, <1>6, <2>2, <3>1
    <2>3. CASE ~(k <= Len(F)) /\ l <= Len(F)
      <3>1. own[l] = m + 1 BY <1>9, <2>3
      <3> QED BY <1>5, <1>6, <2>3, <3>1
    <2>4. CASE ~(k <= Len(F)) /\ ~(l <= Len(F)) BY <1>4, <1>9, <2>4
    <2> QED BY <2>1, <2>2, <2>3, <2>4
  <1>10. o \in [1..Len(G) -> 1..m + 1] /\ p \in [1..Len(G) -> Nat] BY <1>7
  <1> HIDE DEF o, p
  <1>11. /\ \A k \in 1..Len(G) : p[k] \in 1..Len(s[o[k]]) /\ G[k] = s[o[k]][p[k]]
         /\ \A k, l \in 1..Len(G) : o[k] = o[l] /\ p[k] = p[l] => k = l
    BY <1>8, <1>9
  <1>12. ComesFrom(G, s, m + 1, X) BY <1>4, <1>10, <1>11, ZenonT(60) DEF ComesFrom
  <1> QED BY <1>12 DEF G, t

\* A flattened sequence holds nothing that was not put in, and nothing twice.
LEMMA Flattened ==
    ASSUME NEW X, NEW s, Len(s) \in Nat, \A i \in 1..Len(s) : s[i] \in Seq(X),
           Len(s) = 0 => s = <<>>
    PROVE  ComesFrom(FlattenSeq(s), s, Len(s), X)
  <1> DEFINE f == Flattening(s)
  <1>1. f = [i \in 1..Len(s) |-> IF i = 1 THEN s[i] ELSE f[i - 1] \o s[i]]
    BY FlatteningIs DEF FlattensTo
  <1> HIDE DEF f
  <1> DEFINE T == {m \in Nat : m \in 1..Len(s) /\ ~ComesFrom(f[m], s, m, X)}
  <1>2. ASSUME T # {} PROVE FALSE
    <2>1. PICK m \in T : \A k \in T : m <= k BY <1>2, LeastNumber
    <2>2. m \in 1..Len(s) /\ ~ComesFrom(f[m], s, m, X) OBVIOUS
    <2>3. CASE m = 1
      <3>1. f[1] = s[1] /\ s[1] \in Seq(X) BY <1>1, <2>2, <2>3
      <3>2. ComesFrom(s[1], s, 1, X)
        <4> DEFINE own == [k \in 1..Len(s[1]) |-> 1]
                   pos == [k \in 1..Len(s[1]) |-> k]
        <4>1. own \in [1..Len(s[1]) -> 1..1] /\ pos \in [1..Len(s[1]) -> Nat] BY <3>1
        <4>2. /\ \A k \in 1..Len(s[1]) : pos[k] \in 1..Len(s[own[k]]) /\ s[1][k] = s[own[k]][pos[k]]
              /\ \A k, l \in 1..Len(s[1]) : own[k] = own[l] /\ pos[k] = pos[l] => k = l
          OBVIOUS
        <4> HIDE DEF own, pos
        <4> QED BY <3>1, <4>1, <4>2 DEF ComesFrom
      <3> QED BY <2>2, <2>3, <3>1, <3>2
    <2>4. CASE m # 1
      <3>1. m - 1 \in Nat /\ m - 1 \in 1..Len(s) /\ m - 1 \notin T BY <2>1, <2>2, <2>4
      <3>2. ComesFrom(f[m - 1], s, m - 1, X) BY <3>1
      <3>3. f[m] = f[m - 1] \o s[m] BY <1>1, <2>2, <2>4
      <3>4. (m - 1) + 1 = m BY <2>2
      <3>5. s[(m - 1) + 1] \in Seq(X) BY <2>2, <3>4
      <3>6. ComesFrom(f[m - 1] \o s[(m - 1) + 1], s, (m - 1) + 1, X) BY <3>1, <3>2, <3>5, Joined
      <3> QED BY <2>2, <3>3, <3>4, <3>6
    <2> QED BY <2>3, <2>4
  <1>3. CASE Len(s) = 0
    <2>1. FlattenSeq(s) = <<>> BY <1>3, Unfolds
    <2>2. ComesFrom(<<>>, s, 0, X)
      <3>1. <<>> \in Seq(X) /\ Len(<<>>) = 0 /\ 1..Len(<<>>) = {} OBVIOUS
      <3>2. <<>> \in [1..Len(<<>>) -> 1..0] /\ <<>> \in [1..Len(<<>>) -> Nat] OBVIOUS
      <3> QED BY <3>1, <3>2 DEF ComesFrom
    <2> QED BY <1>3, <2>1, <2>2
  <1>4. CASE Len(s) # 0
    <2>1. Len(s) \in 1..Len(s) BY <1>4
    <2>2. ComesFrom(f[Len(s)], s, Len(s), X) BY <1>2, <2>1
    <2>3. FlattenSeq(s) = f[Len(s)] BY <1>4, Unfolds DEF f
    <2> QED BY <2>2, <2>3
  <1> QED BY <1>3, <1>4

\* Nothing that was put in is left out of a flattened sequence.
Gathers(F, s, m) ==
    \A i \in 1..m : \A k \in 1..Len(s[i]) : \E l \in 1..Len(F) : F[l] = s[i][k]

\* A flattened sequence holds all that was put in.
LEMMA Gathered ==
    ASSUME NEW X, NEW s, Len(s) \in Nat, \A i \in 1..Len(s) : s[i] \in Seq(X)
    PROVE  Gathers(FlattenSeq(s), s, Len(s))
  <1> DEFINE f == Flattening(s)
  <1>1. f = [i \in 1..Len(s) |-> IF i = 1 THEN s[i] ELSE f[i - 1] \o s[i]]
    BY FlatteningIs DEF FlattensTo
  <1> HIDE DEF f
  <1> DEFINE T == {m \in Nat : m \in 1..Len(s) /\ ~(f[m] \in Seq(X) /\ Gathers(f[m], s, m))}
  <1>2. ASSUME T # {} PROVE FALSE
    <2>1. PICK m \in T : \A k \in T : m <= k BY <1>2, LeastNumber
    <2>2. m \in 1..Len(s) /\ ~(f[m] \in Seq(X) /\ Gathers(f[m], s, m)) OBVIOUS
    <2>3. CASE m = 1
      <3>1. f[1] = s[1] /\ s[1] \in Seq(X) BY <1>1, <2>2, <2>3
      <3>2. Gathers(s[1], s, 1) BY DEF Gathers
      <3> QED BY <2>2, <2>3, <3>1, <3>2
    <2>4. CASE m # 1
      <3>1. m - 1 \in Nat /\ m - 1 \in 1..Len(s) /\ m - 1 \notin T BY <2>1, <2>2, <2>4
      <3>2. f[m - 1] \in Seq(X) /\ Gathers(f[m - 1], s, m - 1) BY <3>1
      <3>3. f[m] = f[m - 1] \o s[m] /\ s[m] \in Seq(X) BY <1>1, <2>2, <2>4
      <3> DEFINE g == f[m - 1]
                 t == s[m]
      <3>4. g \in Seq(X) /\ t \in Seq(X) /\ f[m] = g \o t BY <3>2, <3>3
      <3> HIDE DEF g, t
      <3>5. /\ g \o t \in Seq(X) /\ Len(g \o t) = Len(g) + Len(t)
            /\ Len(g) \in Nat /\ Len(t) \in Nat
            /\ \A l \in 1..Len(g) : l \in 1..Len(g \o t) /\ (g \o t)[l] = g[l]
            /\ \A k \in 1..Len(t) :
                  Len(g) + k \in 1..Len(g \o t) /\ (g \o t)[Len(g) + k] = t[k]
        BY <3>4
      <3>6. Gathers(g \o t, s, m)
        <4> SUFFICES ASSUME NEW i \in 1..m, NEW k \in 1..Len(s[i])
                     PROVE  \E l \in 1..Len(g \o t) : (g \o t)[l] = s[i][k]
          BY DEF Gathers
        <4>1. CASE i = m BY <3>5, <4>1 DEF t
        <4>2. CASE i # m
          <5>1. i \in 1..m - 1 BY <2>2, <4>2
          <5>2. PICK l \in 1..Len(g) : g[l] = s[i][k] BY <3>2, <5>1 DEF Gathers, g
          <5> QED BY <3>5, <5>2
        <4> QED BY <4>1, <4>2
      <3> QED BY <2>2, <3>4, <3>5, <3>6
    <2> QED BY <2>3, <2>4
  <1>3. CASE Len(s) = 0 BY <1>3 DEF Gathers
  <1>4. CASE Len(s) # 0
    <2>1. Len(s) \in 1..Len(s) BY <1>4
    <2>2. FlattenSeq(s) = f[Len(s)] BY <1>4, Unfolds DEF f
    <2> QED BY <1>2, <2>1, <2>2
  <1> QED BY <1>3, <1>4

\* What a flattened sequence of sequences holds, for both directions.
LEMMA FlattenedHolds ==
    ASSUME NEW X, NEW s, Len(s) \in Nat, \A i \in 1..Len(s) : s[i] \in Seq(X),
           Len(s) = 0 => s = <<>>
    PROVE  /\ FlattenSeq(s) \in Seq(X)
           /\ \A i \in 1..Len(s), x \in X : s[i] = <<x>> => x \in ToSet(FlattenSeq(s))
           /\ FlattenSeq(s) = <<>> => \A i \in 1..Len(s) : s[i] = <<>>
  <1>1. FlattenSeq(s) \in Seq(X) BY Flattened DEF ComesFrom
  <1>2. Gathers(FlattenSeq(s), s, Len(s)) BY Gathered
  <1> DEFINE F == FlattenSeq(s)
  <1>3. F \in Seq(X) /\ Gathers(F, s, Len(s)) BY <1>1, <1>2
  <1> HIDE DEF F
  <1>4. ASSUME NEW i \in 1..Len(s), NEW x \in X, s[i] = <<x>> PROVE x \in ToSet(F)
    <2>1. Len(s[i]) = 1 /\ s[i][1] = x BY <1>4
    <2>2. 1 \in 1..Len(s[i]) BY <2>1
    <2>3. PICK l \in 1..Len(F) : F[l] = x BY <1>3, <2>1, <2>2 DEF Gathers
    <2>4. l \in DOMAIN F BY <1>3
    <2> QED BY <2>3, <2>4 DEF ToSet
  <1>5. ASSUME F = <<>>, NEW i \in 1..Len(s) PROVE s[i] = <<>>
    <2>1. 1..Len(F) = {} BY <1>5
    <2>2. \A k \in 1..Len(s[i]) : FALSE BY <1>3, <2>1 DEF Gathers
    <2>3. s[i] \in Seq(X) OBVIOUS
    <2>4. Len(s[i]) = 0 BY <2>2, <2>3
    <2> QED BY <2>3, <2>4
  <1> QED BY <1>3, <1>4, <1>5 DEF F

\* Two sequences one after the other.
LEMMA TogetherHold ==
    ASSUME NEW X, NEW u \in Seq(X), NEW v \in Seq(X)
    PROVE  u \o v \in Seq(X) /\ ToSet(u \o v) = ToSet(u) \cup ToSet(v)
  <1> DEFINE w == u \o v
  <1>1. /\ w \in Seq(X) /\ Len(w) = Len(u) + Len(v) /\ Len(u) \in Nat /\ Len(v) \in Nat
        /\ DOMAIN u = 1..Len(u) /\ DOMAIN v = 1..Len(v) /\ DOMAIN w = 1..Len(w)
        /\ \A l \in 1..Len(u) : w[l] = u[l]
        /\ \A l \in 1..Len(v) : w[Len(u) + l] = v[l]
    OBVIOUS
  <1> HIDE DEF w
  <1>2. \A l \in DOMAIN u : l \in DOMAIN w /\ w[l] = u[l] BY <1>1
  <1>3. \A l \in DOMAIN v : Len(u) + l \in DOMAIN w /\ w[Len(u) + l] = v[l] BY <1>1
  <1>4. ASSUME NEW l \in DOMAIN w
        PROVE  \/ l \in DOMAIN u /\ w[l] = u[l]
               \/ l - Len(u) \in DOMAIN v /\ w[l] = v[l - Len(u)]
    <2>1. CASE l <= Len(u) BY <1>1, <2>1
    <2>2. CASE l > Len(u)
      <3>1. l - Len(u) \in 1..Len(v) /\ Len(u) + (l - Len(u)) = l BY <1>1, <2>2
      <3> QED BY <1>1, <3>1
    <2> QED BY <1>1, <2>1, <2>2
  <1>5. ToSet(w) = ToSet(u) \cup ToSet(v) BY <1>2, <1>3, <1>4 DEF ToSet
  <1> QED BY <1>1, <1>5 DEF w

\* A list, of whatever it holds.
Listing(q) == \E X : q \in Seq(X)

\* The places and the elements of a list.
LEMMA ListingIs ==
    ASSUME NEW q, Listing(q)
    PROVE  /\ Len(q) \in Nat /\ DOMAIN q = 1..Len(q)
           /\ q \in Seq({q[k] : k \in 1..Len(q)})
  <1>1. PICK X : q \in Seq(X) BY DEF Listing
  <1> QED BY <1>1

\* A list without its first element.
LEMMA TailOfListing ==
    ASSUME NEW q, Listing(q), q # <<>>
    PROVE  /\ Listing(Tail(q)) /\ Len(q) \in Nat \ {0} /\ Len(Tail(q)) = Len(q) - 1
           /\ \A k \in 1..Len(Tail(q)) : k + 1 \in 1..Len(q) /\ Tail(q)[k] = q[k + 1]
           /\ Head(q) = q[1]
  <1>1. PICK X : q \in Seq(X) BY DEF Listing
  <1>2. Tail(q) \in Seq(X) BY <1>1
  <1> QED BY <1>1, <1>2 DEF Listing

\* Two lists, one behind the other.
LEMMA JoinOfListings ==
    ASSUME NEW q, NEW r, Listing(q), Listing(r)
    PROVE  /\ Listing(q \o r) /\ Len(q) \in Nat /\ Len(r) \in Nat
           /\ Len(q \o r) = Len(q) + Len(r)
           /\ \A k \in 1..Len(q) : (q \o r)[k] = q[k]
           /\ \A k \in Len(q) + 1..Len(q \o r) : /\ k - Len(q) \in 1..Len(r)
                                                 /\ (q \o r)[k] = r[k - Len(q)]
  <1>1. PICK X : q \in Seq(X) BY DEF Listing
  <1>2. PICK Y : r \in Seq(Y) BY DEF Listing
  <1>3. q \in Seq(X \cup Y) /\ r \in Seq(X \cup Y) BY <1>1, <1>2
  <1>4. q \o r \in Seq(X \cup Y) BY <1>3
  <1>5. Listing(q \o r) BY <1>4 DEF Listing
  <1> QED BY <1>3, <1>4, <1>5

-----------------------------------------------------------------------------
(* UnifiedNamespace: the addresses of a facility.                          *)

\* What a check of a name answers, and the names that pass it.
NamingCodes == {NamingOK, "TF-S001", "TF-S002", "TF-S003", "TF-S004"}

Equipment ==
    [area : AreaIds, line : LineIds, equipment : EquipmentIds, parameters : ParameterLists]

Facilities ==
    [enterprise : Enterprises, site : Enterprises, equipment : Seq(Equipment)]

EquipmentPasses(e) ==
    /\ check_identifier(e.area) = NamingOK /\ check_identifier(e.line) = NamingOK
    /\ check_identifier(e.equipment) = NamingOK
    /\ \A k \in DOMAIN e.parameters : check_parameter(e.parameters[k]) = NamingOK

AllPass(f) ==
    /\ check_identifier(f.enterprise) = NamingOK /\ check_identifier(f.site) = NamingOK
    /\ \A i \in DOMAIN f.equipment : EquipmentPasses(f.equipment[i])

\* A check answers one of its codes.
LEMMA CodesAre ==
    \A name : check_identifier(name) \in NamingCodes /\ check_parameter(name) \in NamingCodes
  BY DEF check_identifier, check_parameter, PresentAndLiteral, NamingCodes, NamingOK

\* A sequence of checks passes when each of them does.
LEMMA NoneFails ==
    ASSUME NEW checks, NEW n \in Nat, DOMAIN checks = 1..n
    PROVE  FirstFailure(checks) = NamingOK <=> \A i \in 1..n : checks[i] = NamingOK
  <1> DEFINE failed == {i \in DOMAIN checks : checks[i] # NamingOK}
  <1>1. CASE failed = {} BY <1>1 DEF FirstFailure
  <1>2. CASE failed # {}
    <2>1. failed \subseteq Nat OBVIOUS
    <2>2. Min(failed) \in failed BY <1>2, <2>1, MinIs
    <2>3. FirstFailure(checks) = checks[Min(failed)] BY <1>2 DEF FirstFailure
    <2> QED BY <2>2, <2>3
  <1> QED BY <1>1, <1>2

\* What one equipment is checked for.
OfEquipment(e) ==
    [i \in 1..3 |-> check_identifier(<<e.area, e.line, e.equipment>>[i])]
    \o [k \in DOMAIN e.parameters |-> check_parameter(e.parameters[k])]

\* The checks of one equipment, all passed or not.
LEMMA EquipmentChecks ==
    ASSUME NEW e \in Equipment
    PROVE  /\ OfEquipment(e) \in Seq(NamingCodes)
           /\ (\A k \in 1..Len(OfEquipment(e)) : OfEquipment(e)[k] = NamingOK)
                 <=> EquipmentPasses(e)
  <1> DEFINE u == [i \in 1..3 |-> check_identifier(<<e.area, e.line, e.equipment>>[i])]
             v == [k \in DOMAIN e.parameters |-> check_parameter(e.parameters[k])]
  <1>1. DOMAIN e.parameters = 1..Len(e.parameters) /\ Len(e.parameters) \in Nat
    <2>1. e.parameters \in Seq(LevelNames) BY NamespaceAssumption DEF Equipment
    <2> QED BY <2>1
  <1>2. /\ Len(u) = 3 /\ DOMAIN u = 1..3 /\ u[1] = check_identifier(e.area)
        /\ u[2] = check_identifier(e.line) /\ u[3] = check_identifier(e.equipment)
    OBVIOUS
  <1>3. /\ DOMAIN v = 1..Len(e.parameters) /\ Len(v) = Len(e.parameters)
        /\ \A k \in DOMAIN e.parameters : v[k] = check_parameter(e.parameters[k])
    BY <1>1
  <1>4. u \in Seq(NamingCodes) BY <1>2, CodesAre
  <1>5. v \in Seq(NamingCodes) BY <1>1, <1>3, CodesAre
  <1>6. OfEquipment(e) = u \o v BY DEF OfEquipment
  <1> HIDE DEF u, v
  <1> DEFINE w == u \o v
  <1>7. w \in Seq(NamingCodes) /\ ToSet(w) = ToSet(u) \cup ToSet(v) BY <1>4, <1>5, TogetherHold
  <1> HIDE DEF w
  <1>8. (\A k \in 1..Len(w) : w[k] = NamingOK) <=> ToSet(w) \subseteq {NamingOK}
    BY <1>7 DEF ToSet
  <1>9. ToSet(u) \subseteq {NamingOK} <=> u[1] = NamingOK /\ u[2] = NamingOK /\ u[3] = NamingOK
    <2>1. 1..3 = {1, 2, 3} OBVIOUS
    <2> QED BY <1>2, <2>1 DEF ToSet
  <1>10. ToSet(v) \subseteq {NamingOK}
            <=> \A k \in DOMAIN e.parameters : check_parameter(e.parameters[k]) = NamingOK
    BY <1>1, <1>3 DEF ToSet
  <1>11. w = OfEquipment(e) BY <1>6 DEF w
  <1> QED BY <1>2, <1>7, <1>8, <1>9, <1>10, <1>11 DEF EquipmentPasses

\* A facility is accepted when every name in it passes.
LEMMA AcceptedMeans ==
    ASSUME NEW f \in Facilities
    PROVE  FacilityCheck(f) = NamingOK <=> AllPass(f)
  <1> DEFINE s == [i \in DOMAIN f.equipment |-> OfEquipment(f.equipment[i])]
             h == <<check_identifier(f.enterprise), check_identifier(f.site)>>
             F == FlattenSeq(s)
  <1>1. f.equipment \in Seq(Equipment) BY DEF Facilities
  <1>2. /\ DOMAIN f.equipment = 1..Len(f.equipment) /\ Len(f.equipment) \in Nat
        /\ \A i \in DOMAIN f.equipment : f.equipment[i] \in Equipment
    BY <1>1
  <1>3. /\ DOMAIN s = 1..Len(f.equipment) /\ Len(s) = Len(f.equipment)
        /\ \A i \in 1..Len(s) : s[i] = OfEquipment(f.equipment[i])
        /\ Len(s) = 0 => s = <<>>
    BY <1>2
  <1>4. FacilityChecks(f) = h \o F BY DEF FacilityChecks, OfEquipment
  <1>5. h \in Seq(NamingCodes) /\ Len(h) = 2 /\ h[1] = check_identifier(f.enterprise)
        /\ h[2] = check_identifier(f.site)
    BY CodesAre
  <1> HIDE DEF h, s
  <1>6. \A i \in 1..Len(s) : s[i] \in Seq(NamingCodes) BY <1>2, <1>3, EquipmentChecks
  <1>7. ComesFrom(F, s, Len(s), NamingCodes) BY <1>2, <1>3, <1>6, Flattened
  <1>8. Gathers(F, s, Len(s)) BY <1>2, <1>3, <1>6, Gathered
  <1> HIDE DEF F
  <1>9. F \in Seq(NamingCodes) BY <1>7 DEF ComesFrom
  <1>10. (\A k \in 1..Len(F) : F[k] = NamingOK)
            <=> \A i \in 1..Len(s) : \A k \in 1..Len(s[i]) : s[i][k] = NamingOK
    <2>1. ASSUME \A k \in 1..Len(F) : F[k] = NamingOK, NEW i \in 1..Len(s), NEW k \in 1..Len(s[i])
          PROVE  s[i][k] = NamingOK
      BY <1>8, <2>1 DEF Gathers
    <2>2. ASSUME \A i \in 1..Len(s) : \A k \in 1..Len(s[i]) : s[i][k] = NamingOK,
                 NEW k \in 1..Len(F)
          PROVE  F[k] = NamingOK
      <3>1. PICK own \in [1..Len(F) -> 1..Len(s)], pos \in [1..Len(F) -> Nat] :
               \A l \in 1..Len(F) : pos[l] \in 1..Len(s[own[l]]) /\ F[l] = s[own[l]][pos[l]]
        BY <1>7 DEF ComesFrom
      <3>2. own[k] \in 1..Len(s) BY <3>1
      <3> QED BY <2>2, <3>1, <3>2
    <2> QED BY <2>1, <2>2
  <1>11. (\A k \in 1..Len(F) : F[k] = NamingOK)
            <=> \A i \in DOMAIN f.equipment : EquipmentPasses(f.equipment[i])
    <2>1. \A i \in 1..Len(s) : (\A k \in 1..Len(s[i]) : s[i][k] = NamingOK)
                                  <=> EquipmentPasses(f.equipment[i])
      BY <1>2, <1>3, EquipmentChecks
    <2> QED BY <1>2, <1>3, <1>10, <2>1
  <1> DEFINE w == h \o F
  <1>12. /\ w \in Seq(NamingCodes) /\ Len(w) \in Nat /\ DOMAIN w = 1..Len(w)
         /\ ToSet(w) = ToSet(h) \cup ToSet(F)
    BY <1>5, <1>9, TogetherHold
  <1> HIDE DEF w
  <1>13. (\A k \in 1..Len(w) : w[k] = NamingOK) <=> ToSet(w) \subseteq {NamingOK}
    BY <1>12 DEF ToSet
  <1>14. ToSet(h) \subseteq {NamingOK} <=> h[1] = NamingOK /\ h[2] = NamingOK
    <2>1. DOMAIN h = {1, 2} BY <1>5
    <2> QED BY <2>1 DEF ToSet
  <1>15. ToSet(F) \subseteq {NamingOK} <=> \A k \in 1..Len(F) : F[k] = NamingOK
    <2>1. DOMAIN F = 1..Len(F) BY <1>9
    <2> QED BY <2>1 DEF ToSet
  <1>16. FacilityCheck(f) = FirstFailure(w) BY <1>4 DEF FacilityCheck, w
  <1>17. FirstFailure(w) = NamingOK <=> \A k \in 1..Len(w) : w[k] = NamingOK BY <1>12, NoneFails
  <1> QED BY <1>5, <1>11, <1>12, <1>13, <1>14, <1>15, <1>16, <1>17 DEF AllPass

-----------------------------------------------------------------------------
\* A path: six names.
Paths == [1..TOPIC_LEVELS -> LevelNames]

\* What is declared is a finite set of places, each of one path.
LEMMA PlacesAre ==
    ASSUME NEW f \in Facilities
    PROVE  /\ IsFiniteSet(Declared(f)) /\ Cardinality(Declared(f)) \in Nat
           /\ \A i, k : <<i, k>> \in Declared(f) <=> /\ i \in DOMAIN f.equipment
                                                     /\ k \in DOMAIN f.equipment[i].parameters
           /\ \A place \in Declared(f) : \E i, k : place = <<i, k>>
  <1>1. f.equipment \in Seq(Equipment) BY DEF Facilities
  <1>2. /\ DOMAIN f.equipment = 1..Len(f.equipment) /\ Len(f.equipment) \in Nat
        /\ \A i \in DOMAIN f.equipment : f.equipment[i] \in Equipment
    BY <1>1
  <1>3. \A e \in Equipment : DOMAIN e.parameters = 1..Len(e.parameters) /\ Len(e.parameters) \in Nat
    <2>1. \A e \in Equipment : e.parameters \in Seq(LevelNames)
      BY NamespaceAssumption DEF Equipment
    <2> QED BY <2>1
  <1> DEFINE own == {{i} \X DOMAIN f.equipment[i].parameters : i \in DOMAIN f.equipment}
  <1>4. IsFiniteSet(DOMAIN f.equipment) BY <1>2, FS_Interval
  <1>5. IsFiniteSet(own)
    <2> DEFINE m == [i \in DOMAIN f.equipment |-> {i} \X DOMAIN f.equipment[i].parameters]
    <2>1. m \in Surjection(DOMAIN f.equipment, own) BY DEF Surjection
    <2> QED BY <1>4, <2>1, FS_Surjection
  <1>6. \A i \in DOMAIN f.equipment : IsFiniteSet({i} \X DOMAIN f.equipment[i].parameters)
    <2> SUFFICES ASSUME NEW i \in DOMAIN f.equipment
                 PROVE  IsFiniteSet({i} \X DOMAIN f.equipment[i].parameters)
      OBVIOUS
    <2>1. DOMAIN f.equipment[i].parameters = 1..Len(f.equipment[i].parameters)
          /\ Len(f.equipment[i].parameters) \in Nat
      BY <1>2, <1>3
    <2>2. IsFiniteSet(DOMAIN f.equipment[i].parameters) BY <2>1, FS_Interval
    <2>3. IsFiniteSet({i}) BY FS_Singleton
    <2> QED BY <2>2, <2>3, FS_Product
  <1>7. IsFiniteSet(Declared(f)) BY <1>5, <1>6, FS_UNION DEF Declared
  <1> QED BY <1>7, FS_CardinalityType DEF Declared

\* A sequence as a function.
LEMMA SeqAsFunction ==
    ASSUME NEW S, NEW q \in Seq(S)
    PROVE  q \in [1..Len(q) -> S]
  <1>1. DOMAIN q = 1..Len(q) /\ \A i \in 1..Len(q) : q[i] \in S OBVIOUS
  <1>2. q = [i \in 1..Len(q) |-> q[i]] OBVIOUS
  <1> QED BY <1>1, <1>2

\* The path of a place, level by level.
LEMMA PathIs ==
    ASSUME NEW f \in Facilities, NEW i \in DOMAIN f.equipment,
           NEW k \in DOMAIN f.equipment[i].parameters
    PROVE  LET p == PathOf(f, <<i, k>>)
               e == f.equipment[i]
           IN  /\ p \in Paths /\ p \in Seq(LevelNames) /\ Len(p) = TOPIC_LEVELS
               /\ e \in Equipment
               /\ p[1] = f.enterprise /\ p[2] = f.site /\ p[3] = e.area /\ p[4] = e.line
               /\ p[5] = e.equipment /\ p[6] = e.parameters[k]
  <1> DEFINE e == f.equipment[i]
             a == e.area
             b == e.line
             c == e.equipment
             d == e.parameters[k]
             g == f.enterprise
             h == f.site
  <1>1. f.equipment \in Seq(Equipment) BY DEF Facilities
  <1>2. e \in Equipment BY <1>1
  <1>3. e.parameters \in Seq(LevelNames) BY <1>2, NamespaceAssumption DEF Equipment
  <1>4. d \in LevelNames BY <1>3
  <1>5. a \in LevelNames /\ b \in LevelNames /\ c \in LevelNames
    BY <1>2, NamespaceAssumption DEF Equipment
  <1>6. g \in LevelNames /\ h \in LevelNames BY NamespaceAssumption DEF Facilities
  <1>7. PathOf(f, <<i, k>>) = <<g, h, a, b, c, d>> BY DEF PathOf
  <1> HIDE DEF a, b, c, d, g, h
  <1> DEFINE p == <<g, h, a, b, c, d>>
  <1>8. /\ p \in Seq(LevelNames) /\ Len(p) = 6
        /\ p[1] = g /\ p[2] = h /\ p[3] = a /\ p[4] = b /\ p[5] = c /\ p[6] = d
    BY <1>4, <1>5, <1>6
  <1> HIDE DEF p
  <1>9. PathOf(f, <<i, k>>) = p BY <1>7 DEF p
  <1>10. p \in [1..6 -> LevelNames] 
    <2>1. p \in [1..Len(p) -> LevelNames] BY <1>8, SeqAsFunction
    <2>2. Len(p) = 6 BY <1>8
    <2> QED BY <2>1, <2>2
  <1>11. e.area = a /\ e.line = b /\ e.equipment = c /\ e.parameters[k] = d
         /\ f.enterprise = g /\ f.site = h
    BY DEF a, b, c, d, g, h
  <1> QED BY <1>2, <1>8, <1>9, <1>10, <1>11 DEF Paths, TOPIC_LEVELS

\* What is declared is of six names.
LEMMA DeclaredIs ==
    ASSUME NEW f \in Facilities
    PROVE  /\ \A place \in Declared(f) : PathOf(f, place) \in Paths
           /\ DeclaredPaths(f) \subseteq Paths
  <1>1. ASSUME NEW place \in Declared(f) PROVE PathOf(f, place) \in Paths
    <2>1. PICK i, k : place = <<i, k>> BY PlacesAre
    <2>2. i \in DOMAIN f.equipment /\ k \in DOMAIN f.equipment[i].parameters BY <2>1, PlacesAre
    <2> QED BY <2>1, <2>2, PathIs
  <1> QED BY <1>1 DEF DeclaredPaths

\* sorted()'s key orders the paths.
LEMMA BeforeIsOrder ==
    /\ \A p \in Paths : ~TopicBefore(p, p)
    /\ \A p, q, r \in Paths : TopicBefore(p, q) /\ TopicBefore(q, r) => TopicBefore(p, r)
  <1>1. ASSUME NEW p \in Paths PROVE ~TopicBefore(p, p)
    <2>1. \A i \in 1..TOPIC_LEVELS : NameRank[p[i]] \in Nat BY NamespaceAssumption DEF Paths
    <2>2. \A x \in Nat : ~(x < x) OBVIOUS
    <2> QED BY <2>1, <2>2 DEF TopicBefore
  <1>2. ASSUME NEW p \in Paths, NEW q \in Paths, NEW r \in Paths,
               TopicBefore(p, q), TopicBefore(q, r)
        PROVE  TopicBefore(p, r)
    <2>1. PICK i \in 1..TOPIC_LEVELS : /\ \A j \in 1..i - 1 : p[j] = q[j]
                                       /\ NameRank[p[i]] < NameRank[q[i]]
      BY <1>2 DEF TopicBefore
    <2>2. PICK l \in 1..TOPIC_LEVELS : /\ \A j \in 1..l - 1 : q[j] = r[j]
                                       /\ NameRank[q[l]] < NameRank[r[l]]
      BY <1>2 DEF TopicBefore
    <2>3. \A j \in 1..TOPIC_LEVELS : /\ NameRank[p[j]] \in Nat /\ NameRank[q[j]] \in Nat
                                     /\ NameRank[r[j]] \in Nat
      BY NamespaceAssumption DEF Paths
    <2>4. i \in Int /\ l \in Int BY DEF TOPIC_LEVELS
    <2>5. CASE i < l
      <3>1. i \in 1..l - 1 /\ \A j \in 1..i - 1 : j \in 1..l - 1 BY <2>4, <2>5 DEF TOPIC_LEVELS
      <3> QED BY <2>1, <2>2, <3>1 DEF TopicBefore
    <2>6. CASE l < i
      <3>1. l \in 1..i - 1 /\ \A j \in 1..l - 1 : j \in 1..i - 1 BY <2>4, <2>6 DEF TOPIC_LEVELS
      <3> QED BY <2>1, <2>2, <3>1 DEF TopicBefore
    <2>7. CASE i = l
      <3>1. NameRank[p[i]] < NameRank[r[i]]
        <4> DEFINE x == NameRank[p[i]]
                   y == NameRank[q[i]]
                   z == NameRank[r[i]]
        <4>1. x \in Nat /\ y \in Nat /\ z \in Nat /\ x < y /\ y < z BY <2>1, <2>2, <2>3, <2>7
        <4> HIDE DEF x, y, z
        <4>2. x < z BY <4>1
        <4> QED BY <4>2 DEF x, z
      <3> QED BY <2>1, <2>2, <2>7, <3>1 DEF TopicBefore
    <2> QED BY <2>4, <2>5, <2>6, <2>7
  <1> QED BY <1>1, <1>2

\* The places before a path, and those that are not behind it.
Before(f, p)    == {place \in Declared(f) : TopicBefore(PathOf(f, place), p)}
NotBehind(f, p) == {place \in Declared(f) : ~TopicBefore(p, PathOf(f, place))}

\* The later of two paths has more places that are not behind it.
LEMMA LaterHasMore ==
    ASSUME NEW f \in Facilities, NEW p \in DeclaredPaths(f), NEW q \in DeclaredPaths(f),
           TopicBefore(p, q)
    PROVE  Cardinality(NotBehind(f, p)) < Cardinality(NotBehind(f, q))
  <1>1. p \in Paths /\ q \in Paths /\ \A place \in Declared(f) : PathOf(f, place) \in Paths
    BY DeclaredIs
  <1>2. PICK place \in Declared(f) : q = PathOf(f, place) BY DEF DeclaredPaths
  <1>3. place \in NotBehind(f, q) /\ place \notin NotBehind(f, p)
    BY <1>1, <1>2, BeforeIsOrder DEF NotBehind
  <1>4. NotBehind(f, p) \subseteq NotBehind(f, q)
    <2> SUFFICES ASSUME NEW x \in Declared(f), ~TopicBefore(p, PathOf(f, x)),
                        TopicBefore(q, PathOf(f, x))
                 PROVE  FALSE
      BY DEF NotBehind
    <2> QED BY <1>1, BeforeIsOrder
  <1>5. IsFiniteSet(NotBehind(f, q))
    <2>1. NotBehind(f, q) \subseteq Declared(f) BY DEF NotBehind
    <2> QED BY <2>1, PlacesAre, FS_Subset
  <1>6. NotBehind(f, p) # NotBehind(f, q) BY <1>3
  <1>7. IsFiniteSet(NotBehind(f, p)) BY <1>4, <1>5, FS_Subset
  <1>8. /\ Cardinality(NotBehind(f, p)) \in Nat /\ Cardinality(NotBehind(f, q)) \in Nat
        /\ Cardinality(NotBehind(f, p)) <= Cardinality(NotBehind(f, q))
    BY <1>4, <1>5, <1>7, FS_Subset, FS_CardinalityType
  <1>9. Cardinality(NotBehind(f, p)) = Cardinality(NotBehind(f, q)) =>
            NotBehind(f, p) = NotBehind(f, q)
    BY <1>4, <1>5, FS_Subset
  <1> QED BY <1>6, <1>8, <1>9

\* The path of which the most places are not behind it.
LEMMA LastOfThem ==
    ASSUME NEW f \in Facilities, NEW S, S \subseteq DeclaredPaths(f), S # {}
    PROVE  \E p \in S : \A q \in S : ~TopicBefore(p, q)
  <1> DEFINE c(p) == Cardinality(NotBehind(f, p))
             n == Cardinality(Declared(f))
             T == {n - c(p) : p \in S}
  <1>1. n \in Nat /\ IsFiniteSet(Declared(f)) BY PlacesAre
  <1>2. \A p \in S : c(p) \in Nat /\ c(p) <= n
    <2>1. \A p \in S : NotBehind(f, p) \subseteq Declared(f) BY DEF NotBehind
    <2> QED BY <1>1, <2>1, FS_Subset, FS_CardinalityType
  <1>3. \A p, q \in S : TopicBefore(p, q) => c(p) < c(q) BY LaterHasMore
  <1> HIDE DEF c, n
  <1>4. T \subseteq Nat BY <1>1, <1>2
  <1>5. PICK t \in T : \A u \in T : t <= u BY <1>4, LeastNumber
  <1>6. PICK p \in S : t = n - c(p) OBVIOUS
  <1>7. ASSUME NEW q \in S, TopicBefore(p, q) PROVE FALSE
    <2>1. n - c(q) \in T OBVIOUS
    <2>2. t <= n - c(q) BY <1>5, <2>1
    <2> QED BY <1>1, <1>2, <1>3, <1>6, <1>7, <2>2
  <1> QED BY <1>7

\* Each place of the sorted list has its path.
SitsAt(f, n, p) == Cardinality(Before(f, p)) < n /\ n <= Cardinality(NotBehind(f, p))

\* No place of the sorted list is left without a path.
LEMMA EachPlaceIsTaken ==
    ASSUME NEW f \in Facilities, NEW n \in 1..Cardinality(Declared(f))
    PROVE  \E p \in DeclaredPaths(f) : SitsAt(f, n, p)
  <1> DEFINE D == DeclaredPaths(f)
             c(p) == Cardinality(NotBehind(f, p))
             b(p) == Cardinality(Before(f, p))
             N == Cardinality(Declared(f))
  <1>1. N \in Nat /\ IsFiniteSet(Declared(f)) /\ n \in Nat /\ n <= N /\ n >= 1 BY PlacesAre
  <1>2. \A p \in D : /\ NotBehind(f, p) \subseteq Declared(f) /\ Before(f, p) \subseteq Declared(f)
                     /\ IsFiniteSet(NotBehind(f, p)) /\ c(p) \in Nat /\ b(p) \in Nat
    <2>1. \A p \in D : NotBehind(f, p) \subseteq Declared(f) /\ Before(f, p) \subseteq Declared(f)
      BY DEF NotBehind, Before
    <2> QED BY <1>1, <2>1, FS_Subset, FS_CardinalityType
  <1>3. \A p, q \in D : TopicBefore(p, q) => c(p) < c(q) BY LaterHasMore
  <1>4. D # {}
    <2>1. Declared(f) # {} BY <1>1, FS_EmptySet
    <2> QED BY <2>1 DEF DeclaredPaths
  <1>5. \A place \in Declared(f) : PathOf(f, place) \in D BY DEF DeclaredPaths
  <1>6. PICK z \in D : \A q \in D : ~TopicBefore(z, q) BY <1>4, LastOfThem
  <1>7. c(z) = N
    <2>1. NotBehind(f, z) = Declared(f) BY <1>5, <1>6 DEF NotBehind
    <2> QED BY <2>1
  <1> DEFINE T == {k \in Nat : \E p \in D : k = c(p) /\ n <= c(p)}
  <1>8. T \subseteq Nat /\ T # {} BY <1>1, <1>7
  <1>9. PICK t \in T : \A u \in T : t <= u BY <1>8, LeastNumber
  <1>10. PICK p \in D : t = c(p) /\ n <= c(p) OBVIOUS
  <1>11. ASSUME NEW q \in D, TopicBefore(q, p), n <= c(q) PROVE FALSE
    <2>1. c(q) \in Nat /\ c(p) \in Nat /\ c(q) < c(p) BY <1>2, <1>3, <1>11
    <2>2. c(q) \in T BY <1>2, <1>11
    <2>3. t <= c(q) BY <1>9, <2>2
    <2> HIDE DEF c
    <2> QED BY <1>10, <2>1, <2>3
  <1>12. b(p) < n
    <2> SUFFICES ASSUME ~(b(p) < n) PROVE FALSE OBVIOUS
    <2> DEFINE S == {q \in D : TopicBefore(q, p)}
    <2>1. Before(f, p) # {}
      <3>1. b(p) # 0 BY <1>1, <1>2
      <3> QED BY <3>1, FS_EmptySet
    <2>2. \A place \in Before(f, p) : PathOf(f, place) \in S BY <1>5 DEF Before
    <2>3. S # {} BY <2>1, <2>2
    <2>4. PICK q \in S : \A r \in S : ~TopicBefore(q, r) BY <2>3, LastOfThem
    <2>5. Before(f, p) \subseteq NotBehind(f, q) BY <1>2, <2>2, <2>4 DEF NotBehind
    <2>6. IsFiniteSet(NotBehind(f, q)) /\ c(q) \in Nat /\ b(p) \in Nat BY <1>2
    <2>7. b(p) <= c(q) BY <2>5, <2>6, FS_Subset
    <2> HIDE DEF b, c
    <2>8. n <= c(q) BY <1>1, <2>6, <2>7
    <2> QED BY <1>11, <2>8
  <1> QED BY <1>10, <1>12 DEF SitsAt

\* The sorted list holds declared paths only.
LEMMA ProjectedIs ==
    ASSUME NEW f \in Facilities
    PROVE  /\ from_facility(f) = [n \in 1..Cardinality(Declared(f)) |->
                                     CHOOSE p \in DeclaredPaths(f) : SitsAt(f, n, p)]
           /\ ToSet(from_facility(f)) \subseteq DeclaredPaths(f)
  <1>1. from_facility(f) = [n \in 1..Cardinality(Declared(f)) |->
                               CHOOSE p \in DeclaredPaths(f) : SitsAt(f, n, p)]
    BY DEF from_facility, SitsAt, Before, NotBehind
  <1>2. \A n \in 1..Cardinality(Declared(f)) :
            (CHOOSE p \in DeclaredPaths(f) : SitsAt(f, n, p)) \in DeclaredPaths(f)
    BY EachPlaceIsTaken
  <1> QED BY <1>1, <1>2 DEF ToSet

\* The same equipment in the other order.
Mirrored(f) == [f EXCEPT !.equipment = Reverse(@)]

\* The mapping read backwards, equipment by equipment.
LEMMA MirroredIs ==
    ASSUME NEW f \in Facilities
    PROVE  LET g == Mirrored(f)
               N == Len(f.equipment)
           IN  /\ g \in Facilities /\ N \in Nat
               /\ g.enterprise = f.enterprise /\ g.site = f.site
               /\ DOMAIN f.equipment = 1..N /\ DOMAIN g.equipment = 1..N
               /\ \A i \in 1..N : N - i + 1 \in 1..N /\ g.equipment[i] = f.equipment[N - i + 1]
  <1> DEFINE s == f.equipment
             N == Len(s)
             r == Reverse(s)
  <1>1. /\ s \in Seq(Equipment) /\ f.enterprise \in Enterprises /\ f.site \in Enterprises
        /\ Mirrored(f) = [f EXCEPT !.equipment = r]
    BY DEF Facilities, Mirrored
  <1>2. N \in Nat /\ DOMAIN s = 1..N /\ \A i \in 1..N : s[i] \in Equipment BY <1>1
  <1>3. \A i \in 1..N : N - i + 1 \in 1..N BY <1>2
  <1>4. r = [i \in 1..N |-> s[(N - i) + 1]] BY DEF Reverse
  <1> HIDE DEF s, N, r
  <1>5. \A i \in 1..N : s[(N - i) + 1] \in Equipment BY <1>2, <1>3
  <1>6. r \in Seq(Equipment) BY <1>2, <1>4, <1>5
  <1>7. DOMAIN r = 1..N /\ \A i \in 1..N : r[i] = s[N - i + 1] BY <1>4
  <1>8. Mirrored(f) \in Facilities BY <1>1, <1>6 DEF Facilities
  <1>9. Mirrored(f).enterprise = f.enterprise /\ Mirrored(f).site = f.site
        /\ Mirrored(f).equipment = r
    BY <1>1 DEF Facilities
  <1> QED BY <1>2, <1>3, <1>7, <1>8, <1>9 DEF s, N

\* What is declared stays declared, as often.
LEMMA MirrorKeeps ==
    ASSUME NEW f \in Facilities, NEW P
    PROVE  LET g == Mirrored(f)
               A == {place \in Declared(f) : PathOf(f, place) \in P}
               B == {place \in Declared(g) : PathOf(g, place) \in P}
           IN  IsFiniteSet(A) /\ Cardinality(A) = Cardinality(B)
  <1> DEFINE g == Mirrored(f)
             N == Len(f.equipment)
             A == {place \in Declared(f) : PathOf(f, place) \in P}
             B == {place \in Declared(g) : PathOf(g, place) \in P}
             m == [place \in A |-> <<N - place[1] + 1, place[2]>>]
  <1>1. /\ g \in Facilities /\ N \in Nat
        /\ g.enterprise = f.enterprise /\ g.site = f.site
        /\ DOMAIN f.equipment = 1..N /\ DOMAIN g.equipment = 1..N
        /\ \A i \in 1..N : N - i + 1 \in 1..N /\ g.equipment[i] = f.equipment[N - i + 1]
    BY MirroredIs
  <1> HIDE DEF g, N
  <1>2. \A i \in 1..N : N - (N - i + 1) + 1 = i BY <1>1
  <1>3. \A i \in 1..N : g.equipment[N - i + 1] = f.equipment[i] BY <1>1, <1>2
  <1>4. \A i, k : <<i, k>> \in Declared(f) <=>
                     i \in 1..N /\ k \in DOMAIN f.equipment[i].parameters
    BY <1>1, PlacesAre
  <1>5. \A i, k : <<i, k>> \in Declared(g) <=>
                     i \in 1..N /\ k \in DOMAIN g.equipment[i].parameters
    BY <1>1, PlacesAre
  <1>6. \A i \in 1..N : \A k : PathOf(g, <<N - i + 1, k>>) = PathOf(f, <<i, k>>)
    BY <1>1, <1>3 DEF PathOf
  <1>7. \A place \in Declared(f) : \E i, k : place = <<i, k>> BY PlacesAre
  <1>8. \A place \in Declared(g) : \E i, k : place = <<i, k>> BY <1>1, PlacesAre
  <1>9. ASSUME NEW a \in A
        PROVE  m[a] \in B
    <2>1. PICK i, k : a = <<i, k>> BY <1>7
    <2>2. i \in 1..N /\ k \in DOMAIN f.equipment[i].parameters BY <1>4, <2>1
    <2>3. m[a] = <<N - i + 1, k>> BY <2>1
    <2>4. <<N - i + 1, k>> \in Declared(g) BY <1>1, <1>3, <1>5, <2>2
    <2>5. PathOf(g, <<N - i + 1, k>>) \in P BY <1>6, <2>1, <2>2
    <2> QED BY <2>3, <2>4, <2>5
  <1>10. ASSUME NEW a \in A, NEW b \in A, m[a] = m[b]
         PROVE  a = b
    <2>1. PICK i, k : a = <<i, k>> BY <1>7
    <2>2. PICK j, l : b = <<j, l>> BY <1>7
    <2>3. i \in 1..N /\ j \in 1..N BY <1>4, <2>1, <2>2
    <2>4. m[a] = <<N - i + 1, k>> /\ m[b] = <<N - j + 1, l>> BY <2>1, <2>2
    <2>5. N - i + 1 = N - j + 1 /\ k = l BY <1>10, <2>4
    <2>6. i = j BY <1>1, <2>3, <2>5
    <2> QED BY <2>1, <2>2, <2>5, <2>6
  <1>11. ASSUME NEW b \in B
         PROVE  \E a \in A : m[a] = b
    <2>1. PICK j, k : b = <<j, k>> BY <1>8
    <2>2. j \in 1..N /\ k \in DOMAIN g.equipment[j].parameters BY <1>5, <2>1
    <2> DEFINE i == N - j + 1
    <2>3. i \in 1..N /\ N - i + 1 = j /\ g.equipment[j] = f.equipment[i] BY <1>1, <1>2, <2>2
    <2> HIDE DEF i
    <2>4. <<i, k>> \in Declared(f) BY <1>4, <2>2, <2>3
    <2>5. PathOf(f, <<i, k>>) = PathOf(g, <<j, k>>) BY <1>6, <2>3
    <2>6. <<i, k>> \in A BY <2>1, <2>4, <2>5
    <2>7. m[<<i, k>>] = <<N - i + 1, k>> BY <2>6
    <2> QED BY <2>1, <2>3, <2>6, <2>7
  <1>12. IsFiniteSet(A)
    <2>1. A \subseteq Declared(f) OBVIOUS
    <2> QED BY <2>1, PlacesAre, FS_Subset
  <1>13. m \in [A -> B] BY <1>9
  <1> HIDE DEF A, B, m
  <1>14. m \in Injection(A, B) /\ m \in Surjection(A, B)
    BY <1>10, <1>11, <1>13 DEF Injection, Surjection, IsInjective
  <1>15. ExistsBijection(A, B) BY <1>14 DEF ExistsBijection, Bijection
  <1>16. Cardinality(B) = Cardinality(A) BY <1>12, <1>15, FS_Bijection
  <1> QED BY <1>12, <1>16 DEF A, B, g

\* The projection does not depend on the order of the mapping.
LEMMA MirrorProjects ==
    ASSUME NEW f \in Facilities
    PROVE  /\ FacilityCheck(f) = NamingOK <=> FacilityCheck(Mirrored(f)) = NamingOK
           /\ from_facility(f) = from_facility(Mirrored(f))
  <1> DEFINE g == Mirrored(f)
             N == Len(f.equipment)
             A(P) == {place \in Declared(f) : PathOf(f, place) \in P}
             B(P) == {place \in Declared(g) : PathOf(g, place) \in P}
  <1>1. /\ g \in Facilities /\ N \in Nat
        /\ g.enterprise = f.enterprise /\ g.site = f.site
        /\ DOMAIN f.equipment = 1..N /\ DOMAIN g.equipment = 1..N
        /\ \A i \in 1..N : N - i + 1 \in 1..N /\ g.equipment[i] = f.equipment[N - i + 1]
    BY MirroredIs
  <1>2. \A P : IsFiniteSet(A(P)) /\ Cardinality(A(P)) = Cardinality(B(P)) BY MirrorKeeps
  <1>3. AllPass(f) <=> AllPass(g)
    <2> HIDE DEF g, N
    <2>1. \A i \in 1..N : N - (N - i + 1) + 1 = i BY <1>1
    <2>2. \A i \in 1..N : g.equipment[N - i + 1] = f.equipment[i] BY <1>1, <2>1
    <2>3. (\A i \in 1..N : EquipmentPasses(f.equipment[i]))
             <=> \A i \in 1..N : EquipmentPasses(g.equipment[i])
      BY <1>1, <2>2
    <2> QED BY <1>1, <2>3 DEF AllPass
  <1> HIDE DEF g, N
  <1>4. \A P : IsFiniteSet(B(P))
    <2>1. \A P : B(P) \subseteq Declared(g) OBVIOUS
    <2>2. IsFiniteSet(Declared(g)) BY <1>1, PlacesAre
    <2> QED BY <2>1, <2>2, FS_Subset
  <1>5. \A P : A(P) = {} <=> B(P) = {}
    <2> HIDE DEF A, B
    <2> QED BY <1>2, <1>4, FS_EmptySet
  <1>6. DeclaredPaths(f) = DeclaredPaths(g)
    <2>1. \A q : q \in DeclaredPaths(f) <=> A({q}) # {} BY DEF DeclaredPaths
    <2>2. \A q : q \in DeclaredPaths(g) <=> B({q}) # {} BY DEF DeclaredPaths
    <2> HIDE DEF A, B
    <2>3. \A q : q \in DeclaredPaths(f) <=> q \in DeclaredPaths(g) BY <1>5, <2>1, <2>2
    <2> QED BY <2>3
  <1>7. Cardinality(Declared(f)) = Cardinality(Declared(g))
    <2>1. A(Paths) = Declared(f) BY DeclaredIs
    <2>2. B(Paths) = Declared(g) BY <1>1, DeclaredIs
    <2> QED BY <1>2, <2>1, <2>2
  <1>8. \A n, p : SitsAt(f, n, p) <=> SitsAt(g, n, p)
    <2> SUFFICES ASSUME NEW n, NEW p PROVE SitsAt(f, n, p) <=> SitsAt(g, n, p) OBVIOUS
    <2> DEFINE P == {q \in Paths : TopicBefore(q, p)}
               Q == {q \in Paths : ~TopicBefore(p, q)}
    <2>1. A(P) = Before(f, p) /\ A(Q) = NotBehind(f, p) BY DeclaredIs DEF Before, NotBehind
    <2>2. B(P) = Before(g, p) /\ B(Q) = NotBehind(g, p)
      BY <1>1, DeclaredIs DEF Before, NotBehind
    <2> HIDE DEF A, B, P, Q
    <2>3. /\ Cardinality(A(P)) = Cardinality(B(P))
          /\ Cardinality(A(Q)) = Cardinality(B(Q))
      BY <1>2
    <2> QED BY <2>1, <2>2, <2>3 DEF SitsAt
  <1>9. from_facility(f) = [n \in 1..Cardinality(Declared(f)) |->
                               CHOOSE p \in DeclaredPaths(f) : SitsAt(f, n, p)]
    BY ProjectedIs
  <1>10. from_facility(g) = [n \in 1..Cardinality(Declared(g)) |->
                               CHOOSE p \in DeclaredPaths(g) : SitsAt(g, n, p)]
    BY <1>1, ProjectedIs
  <1>11. \A n : (CHOOSE p \in DeclaredPaths(f) : SitsAt(f, n, p))
                   = (CHOOSE p \in DeclaredPaths(g) : SitsAt(g, n, p))
    BY <1>6, <1>8
  <1>12. from_facility(f) = from_facility(g) BY <1>7, <1>9, <1>10, <1>11
  <1>13. FacilityCheck(f) = NamingOK <=> FacilityCheck(g) = NamingOK
    BY <1>1, <1>3, AcceptedMeans
  <1> QED BY <1>12, <1>13 DEF g

\* A path whose names pass, and so are no wildcards.
GoodPath(p) ==
    /\ p \in Seq(LevelNames) /\ Len(p) = TOPIC_LEVELS
    /\ \A i \in 1..5 : check_identifier(p[i]) = NamingOK
    /\ check_parameter(p[6]) = NamingOK
    /\ \A i \in 1..TOPIC_LEVELS : p[i] # SINGLE_LEVEL /\ p[i] # MULTI_LEVEL

\* No wildcard passes a check.
LEMMA PassingIsLiteral ==
    ASSUME NEW n \in LevelNames,
           check_identifier(n) = NamingOK \/ check_parameter(n) = NamingOK
    PROVE  n # SINGLE_LEVEL /\ n # MULTI_LEVEL
  <1>1. PresentAndLiteral(n) = NamingOK BY DEF check_identifier, check_parameter
  <1>2. FormOf[n] # "wildcard" BY <1>1 DEF PresentAndLiteral, NamingOK
  <1> QED BY <1>2, NamespaceAssumption

\* The paths of an accepted facility are of names that pass.
LEMMA AcceptedPaths ==
    ASSUME NEW f \in Facilities, AllPass(f), NEW p \in DeclaredPaths(f)
    PROVE  GoodPath(p)
  <1>1. PICK place \in Declared(f) : p = PathOf(f, place) BY DEF DeclaredPaths
  <1>2. PICK i, k : place = <<i, k>> BY PlacesAre
  <1>3. i \in DOMAIN f.equipment /\ k \in DOMAIN f.equipment[i].parameters BY <1>2, PlacesAre
  <1> DEFINE e == f.equipment[i]
  <1>4. /\ p \in Paths /\ p \in Seq(LevelNames) /\ Len(p) = TOPIC_LEVELS
        /\ p[1] = f.enterprise /\ p[2] = f.site /\ p[3] = e.area /\ p[4] = e.line
        /\ p[5] = e.equipment /\ p[6] = e.parameters[k]
    BY <1>1, <1>2, <1>3, PathIs
  <1>5. EquipmentPasses(e) /\ check_identifier(f.enterprise) = NamingOK
        /\ check_identifier(f.site) = NamingOK
    BY <1>3 DEF AllPass
  <1>6. /\ check_identifier(p[1]) = NamingOK /\ check_identifier(p[2]) = NamingOK
        /\ check_identifier(p[3]) = NamingOK /\ check_identifier(p[4]) = NamingOK
        /\ check_identifier(p[5]) = NamingOK /\ check_parameter(p[6]) = NamingOK
    BY <1>3, <1>4, <1>5 DEF EquipmentPasses
  <1>7. 1..5 = {1, 2, 3, 4, 5} /\ 1..6 = {1, 2, 3, 4, 5, 6} OBVIOUS
  <1>8. \A j \in 1..6 : p[j] \in LevelNames BY <1>4 DEF Paths, TOPIC_LEVELS
  <1>9. \A j \in 1..6 : p[j] # SINGLE_LEVEL /\ p[j] # MULTI_LEVEL
    BY <1>6, <1>7, <1>8, PassingIsLiteral
  <1> QED BY <1>4, <1>6, <1>7, <1>9 DEF GoodPath, TOPIC_LEVELS

\* Six names that pass make an address that reads back.
LEMMA GoodPathPasses ==
    ASSUME NEW p, GoodPath(p)
    PROVE  UnsPathCheck(p) = NamingOK
  <1>1. DOMAIN p = 1..6 /\ Len(p) = 6 BY DEF GoodPath, TOPIC_LEVELS
  <1>2. DOMAIN LevelChecks(p) = 1..6 BY <1>1 DEF LevelChecks
  <1>3. \A i \in 1..6 : LevelChecks(p)[i] = NamingOK
    <2>1. \A i \in 1..6 : LevelChecks(p)[i] =
             IF i = 6 THEN check_parameter(p[i]) ELSE check_identifier(p[i])
      BY <1>1 DEF LevelChecks, TOPIC_LEVELS
    <2>2. \A i \in 1..6 : i # 6 => i \in 1..5 OBVIOUS
    <2> QED BY <2>1, <2>2 DEF GoodPath
  <1>4. 6 \in Nat OBVIOUS
  <1>5. FirstFailure(LevelChecks(p)) = NamingOK BY <1>2, <1>3, <1>4, NoneFails
  <1> QED BY <1>5 DEF UnsPathCheck

\* parse and from_prefix take such an address as it is, and so does a frame.
LEMMA GoodPathReadsBack ==
    ASSUME NEW p, GoodPath(p)
    PROVE  /\ ParseCheck(p) = NamingOK /\ FrameTopic(p)
           /\ FromPrefixCheck(SubSeq(p, 1, 5), p[6]) = NamingOK
  <1>1. DOMAIN p = 1..6 /\ Len(p) = 6 /\ p \in Seq(LevelNames) BY DEF GoodPath, TOPIC_LEVELS
  <1>2. ParseCheck(p) = NamingOK BY <1>1, GoodPathPasses DEF ParseCheck, TOPIC_LEVELS
  <1>3. FrameTopic(p)
    <2>1. p # <<>> BY <1>1
    <2> QED BY <1>1, <2>1 DEF FrameTopic, GoodPath, ToSet, TOPIC_LEVELS
  <1> DEFINE u == SubSeq(p, 1, 5)
             v == Append(u, p[6])
  <1>4. 5 \in 0..Len(p) BY <1>1
  <1>5. u \in Seq(LevelNames) /\ Len(u) = 5 /\ \A i \in 1..5 : u[i] = p[i]
    BY <1>1, <1>4, PrefixIs
  <1>6. p[6] \in LevelNames
    <2>1. p \in [1..Len(p) -> LevelNames] BY <1>1, SeqAsFunction
    <2> QED BY <1>1, <2>1
  <1> HIDE DEF u
  <1>7. v \in Seq(LevelNames) /\ Len(v) = 6 /\ v[6] = p[6] /\ \A i \in 1..5 : v[i] = u[i]
    <2>1. /\ v \in Seq(LevelNames) /\ Len(v) = Len(u) + 1
          /\ \A i \in 1..Len(u) : v[i] = u[i]
          /\ v[Len(u) + 1] = p[6]
      <3>1. u \in Seq(LevelNames) BY <1>5
      <3> QED BY <1>6, <3>1, Appended
    <2>2. Len(u) = 5 BY <1>5
    <2>3. Len(u) + 1 = 6 BY <2>2
    <2> HIDE DEF v
    <2>4. v[6] = p[6] BY <2>1, <2>3
    <2>5. Len(v) = 6 BY <2>1, <2>3
    <2>6. 1..Len(u) = 1..5 BY <2>2
    <2>7. \A i \in 1..5 : v[i] = u[i] BY <2>1, <2>6
    <2> QED BY <2>1, <2>4, <2>5, <2>7
  <1> HIDE DEF v
  <1>8. \A i \in 1..6 : v[i] = p[i]
    <2>1. \A i \in 1..6 : i # 6 => i \in 1..5 OBVIOUS
    <2> QED BY <1>5, <1>7, <2>1
  <1>9. GoodPath(v)
    <2>1. \A i \in 1..5 : i \in 1..6 OBVIOUS
    <2> QED BY <1>7, <1>8, <2>1 DEF GoodPath, TOPIC_LEVELS
  <1>10. UnsPathCheck(v) = NamingOK BY <1>9, GoodPathPasses
  <1>11. FromPrefixCheck(u, p[6]) = NamingOK BY <1>5, <1>10 DEF FromPrefixCheck, TOPIC_LEVELS, v
  <1> QED BY <1>2, <1>3, <1>11 DEF u

\* Two paths agree on their first levels.
LEMMA SamePrefix ==
    ASSUME NEW p, NEW q, GoodPath(p), GoodPath(q), NEW d \in 1..TOPIC_LEVELS
    PROVE  SubSeq(p, 1, d) = SubSeq(q, 1, d) <=> \A i \in 1..d : p[i] = q[i]
  <1>1. /\ p \in Seq(LevelNames) /\ Len(p) = 6 /\ q \in Seq(LevelNames) /\ Len(q) = 6
        /\ d \in 1..6
    BY DEF GoodPath, TOPIC_LEVELS
  <1>2. d \in 0..Len(p) /\ d \in 0..Len(q) /\ d \in Nat BY <1>1
  <1> DEFINE u == SubSeq(p, 1, d)
             v == SubSeq(q, 1, d)
  <1>3. u \in Seq(LevelNames) /\ Len(u) = d /\ \A i \in 1..d : u[i] = p[i]
    BY <1>1, <1>2, PrefixIs
  <1>4. v \in Seq(LevelNames) /\ Len(v) = d /\ \A i \in 1..d : v[i] = q[i]
    BY <1>1, <1>2, PrefixIs
  <1> HIDE DEF u, v
  <1>5. u \in [1..d -> LevelNames] /\ v \in [1..d -> LevelNames]
    <2>1. u \in [1..Len(u) -> LevelNames] BY <1>3, SeqAsFunction
    <2>2. v \in [1..Len(v) -> LevelNames] BY <1>4, SeqAsFunction
    <2> QED BY <1>3, <1>4, <2>1, <2>2
  <1>6. u = v <=> \A i \in 1..d : u[i] = v[i] BY <1>5
  <1> QED BY <1>3, <1>4, <1>6 DEF u, v

\* The topic filter of a subscription: the first levels of a path, then # unless
\* they are all of them.
LEMMA SubscriptionIs ==
    ASSUME NEW p, GoodPath(p), NEW d \in 1..TOPIC_LEVELS
    PROVE  LET s == subscription(p, d)
           IN  /\ \A i \in 1..d : /\ s[i] = p[i] /\ s[i] # MULTI_LEVEL
                                  /\ s[i] # SINGLE_LEVEL
               /\ d = TOPIC_LEVELS => DOMAIN s = 1..d /\ Len(s) = d
               /\ d # TOPIC_LEVELS =>
                     DOMAIN s = 1..d + 1 /\ Len(s) = d + 1 /\ s[d + 1] = MULTI_LEVEL
  <1>1. p \in Seq(LevelNames) /\ Len(p) = 6 /\ d \in 1..6 BY DEF GoodPath, TOPIC_LEVELS
  <1>2. \A i \in 1..d : p[i] # MULTI_LEVEL /\ p[i] # SINGLE_LEVEL
    <2>1. \A i \in 1..d : i \in 1..TOPIC_LEVELS BY <1>1 DEF TOPIC_LEVELS
    <2> QED BY <2>1 DEF GoodPath
  <1>3. CASE d = 6
    <2>1. subscription(p, d) = p BY <1>3 DEF subscription, TOPIC_LEVELS
    <2>2. DOMAIN p = 1..Len(p) BY <1>1
    <2> QED BY <1>1, <1>2, <1>3, <2>1, <2>2 DEF TOPIC_LEVELS
  <1>4. CASE d # 6
    <2> DEFINE u == SubSeq(p, 1, d)
               S == LevelNames \cup {MULTI_LEVEL}
               s == Append(u, MULTI_LEVEL)
    <2>1. subscription(p, d) = s BY <1>4 DEF subscription, TOPIC_LEVELS
    <2>2. d \in 0..Len(p) BY <1>1
    <2>3. u \in Seq(LevelNames) /\ Len(u) = d /\ \A i \in 1..d : u[i] = p[i]
      BY <1>1, <2>2, PrefixIs
    <2> HIDE DEF u
    <2>4. u \in Seq(S) BY <2>3
    <2>5. MULTI_LEVEL \in S OBVIOUS
    <2> HIDE DEF S
    <2>6. /\ s \in Seq(S) /\ Len(s) = Len(u) + 1 /\ \A i \in 1..Len(u) : s[i] = u[i]
          /\ s[Len(u) + 1] = MULTI_LEVEL
      BY <2>4, <2>5, Appended
    <2> HIDE DEF s
    <2>7. DOMAIN s = 1..Len(s) BY <2>6
    <2>8. /\ DOMAIN s = 1..d + 1 /\ Len(s) = d + 1 /\ s[d + 1] = MULTI_LEVEL
          /\ \A i \in 1..d : s[i] = p[i]
      BY <2>3, <2>6, <2>7
    <2> QED BY <1>2, <1>4, <2>1, <2>8 DEF TOPIC_LEVELS
  <1> QED BY <1>3, <1>4

\* What the bus's rule makes of a subscription and a topic of at least six levels.
LEMMA SubscriptionMatches ==
    ASSUME NEW p, GoodPath(p), NEW d \in 1..TOPIC_LEVELS, NEW t, Len(t) \in Nat,
           Len(t) >= TOPIC_LEVELS
    PROVE  topic_matches(subscription(p, d), t) <=>
               /\ \A i \in 1..d : p[i] = t[i]
               /\ d = TOPIC_LEVELS => Len(t) = TOPIC_LEVELS
  <1> DEFINE s == subscription(p, d)
             D == {i \in DOMAIN s : \/ s[i] = MULTI_LEVEL
                                    \/ i > Len(t)
                                    \/ s[i] # SINGLE_LEVEL /\ s[i] # t[i]}
             k == Min(D)
  <1>1. topic_matches(s, t) <=> IF D = {} THEN Len(s) = Len(t)
                                ELSE s[k] = MULTI_LEVEL /\ k - 1 <= Len(t)
    BY DEF topic_matches
  <1>2. /\ \A i \in 1..d : s[i] = p[i] /\ s[i] # MULTI_LEVEL /\ s[i] # SINGLE_LEVEL
        /\ d = TOPIC_LEVELS => DOMAIN s = 1..d /\ Len(s) = d
        /\ d # TOPIC_LEVELS => DOMAIN s = 1..d + 1 /\ Len(s) = d + 1 /\ s[d + 1] = MULTI_LEVEL
    BY SubscriptionIs
  <1>3. d \in Nat /\ d <= 6 /\ Len(t) \in Nat /\ Len(t) >= 6 BY DEF TOPIC_LEVELS
  <1> HIDE DEF s
  <1>4. \A i \in 1..d : i \in DOMAIN s /\ ~(i > Len(t)) BY <1>2, <1>3
  <1>5. \A i \in 1..d : i \in D <=> p[i] # t[i] BY <1>2, <1>4
  <1>6. D \subseteq 1..d + 1 BY <1>2, <1>3
  <1>7. D # {} => k \in D /\ \A i \in D : k <= i
    <2>1. D \subseteq Nat BY <1>3, <1>6
    <2> HIDE DEF D
    <2> QED BY <2>1, MinIs
  <1> HIDE DEF D, k
  <1>8. ASSUME NEW i \in 1..d, p[i] # t[i] PROVE ~topic_matches(s, t)
    <2>1. i \in D BY <1>5, <1>8
    <2>2. k \in D /\ k <= i BY <1>7, <2>1
    <2>3. k \in 1..d BY <1>3, <1>6, <2>2
    <2>4. s[k] # MULTI_LEVEL BY <1>2, <2>3
    <2> QED BY <1>1, <2>1, <2>4
  <1>9. ASSUME \A i \in 1..d : p[i] = t[i], d = TOPIC_LEVELS
        PROVE  topic_matches(s, t) <=> Len(t) = TOPIC_LEVELS
    <2>1. D = {}
      <3>1. D \subseteq 1..d BY <1>2, <1>9 DEF D
      <3> QED BY <1>5, <1>9, <3>1
    <2> QED BY <1>1, <1>2, <1>9, <2>1
  <1>10. ASSUME \A i \in 1..d : p[i] = t[i], d # TOPIC_LEVELS
         PROVE  topic_matches(s, t)
    <2>1. d + 1 \in DOMAIN s /\ s[d + 1] = MULTI_LEVEL BY <1>2, <1>3, <1>10
    <2>2. d + 1 \in D BY <2>1 DEF D
    <2>3. k \in D BY <1>7, <2>2
    <2>4. k \notin 1..d BY <1>5, <1>10, <2>3
    <2>5. k = d + 1 BY <1>3, <1>6, <2>3, <2>4
    <2>6. k - 1 <= Len(t) BY <1>3, <2>5
    <2> QED BY <1>1, <2>1, <2>2, <2>5, <2>6
  <1> QED BY <1>8, <1>9, <1>10 DEF s

\* A subscription at a depth delivers exactly the paths that share that many levels.
LEMMA SubscriptionCovers ==
    ASSUME NEW p, NEW q, GoodPath(p), GoodPath(q), NEW d \in 1..TOPIC_LEVELS
    PROVE  /\ SubscriptionCheck(d) = NamingOK
           /\ FilterLevels(subscription(p, d))
           /\ topic_matches(subscription(p, d), q) <=> SubSeq(p, 1, d) = SubSeq(q, 1, d)
           /\ d = TOPIC_LEVELS => ~topic_matches(subscription(p, d), Append(q, q[1]))
  <1>1. SubscriptionCheck(d) = NamingOK BY DEF SubscriptionCheck
  <1> DEFINE s == subscription(p, d)
  <1>2. /\ \A i \in 1..d : s[i] = p[i] /\ s[i] # MULTI_LEVEL /\ s[i] # SINGLE_LEVEL
        /\ d = TOPIC_LEVELS => DOMAIN s = 1..d /\ Len(s) = d
        /\ d # TOPIC_LEVELS => DOMAIN s = 1..d + 1 /\ Len(s) = d + 1 /\ s[d + 1] = MULTI_LEVEL
    BY SubscriptionIs
  <1> HIDE DEF s
  <1>3. FilterLevels(s)
    <2>1. 1 \in DOMAIN s BY <1>2 DEF TOPIC_LEVELS
    <2>2. s # <<>> BY <2>1
    <2>3. CASE d = TOPIC_LEVELS
      <3>1. MULTI_LEVEL \notin ToSet(s) BY <1>2, <2>3 DEF ToSet
      <3> QED BY <2>2, <3>1 DEF FilterLevels
    <2>4. CASE d # TOPIC_LEVELS
      <3>1. Last(s) = MULTI_LEVEL BY <1>2, <2>4 DEF Last
      <3> QED BY <2>2, <3>1 DEF FilterLevels
    <2> QED BY <2>3, <2>4
  <1>4. q \in Seq(LevelNames) /\ Len(q) = 6 BY DEF GoodPath, TOPIC_LEVELS
  <1>5. topic_matches(s, q) <=> SubSeq(p, 1, d) = SubSeq(q, 1, d)
    <2>1. Len(q) \in Nat /\ Len(q) >= TOPIC_LEVELS /\ Len(q) = TOPIC_LEVELS
      BY <1>4 DEF TOPIC_LEVELS
    <2>2. topic_matches(s, q) <=> \A i \in 1..d : p[i] = q[i]
      BY <2>1, SubscriptionMatches DEF s
    <2> QED BY <2>2, SamePrefix
  <1>6. ASSUME d = TOPIC_LEVELS PROVE ~topic_matches(s, Append(q, q[1]))
    <2> DEFINE t == Append(q, q[1])
    <2>1. q[1] \in LevelNames
      <3>1. q \in [1..Len(q) -> LevelNames] BY <1>4, SeqAsFunction
      <3> QED BY <1>4, <3>1
    <2>2. Len(t) = Len(q) + 1
      <3>1. q \in Seq(LevelNames) BY <1>4
      <3> QED BY <2>1, <3>1, Appended
    <2> HIDE DEF t
    <2>3. Len(t) \in Nat /\ Len(t) >= TOPIC_LEVELS /\ Len(t) # TOPIC_LEVELS
      BY <1>4, <2>2 DEF TOPIC_LEVELS
    <2>4. ~topic_matches(s, t) BY <1>6, <2>3, SubscriptionMatches DEF s
    <2> QED BY <2>4 DEF t
  <1> QED BY <1>1, <1>3, <1>5, <1>6 DEF s

\* The mapping has the shape that the projection reads.
NamespaceInv == facility \in Facilities

\* The namespace is a projection of any mapping of that shape.
LEMMA NamespaceMeans ==
    ASSUME NamespaceInv
    PROVE  NamespaceIsTheFacility
  <1>1. facility \in Facilities BY DEF NamespaceInv
  <1>2. OrderDoesNotMatter
    <2>1. [facility EXCEPT !.equipment = Reverse(@)] = Mirrored(facility) BY DEF Mirrored
    <2>2. /\ FacilityCheck(facility) = NamingOK <=> FacilityCheck(Mirrored(facility)) = NamingOK
          /\ from_facility(facility) = from_facility(Mirrored(facility))
      BY <1>1, MirrorProjects
    <2> QED BY <2>1, <2>2 DEF OrderDoesNotMatter
  <1>3. ASSUME FacilityCheck(facility) = NamingOK
        PROVE  AddressesRoundTrip /\ SubscriptionsCover
    <2>1. AllPass(facility) BY <1>1, <1>3, AcceptedMeans
    <2>2. \A p \in Projected : GoodPath(p)
      <3>1. Projected \subseteq DeclaredPaths(facility) BY <1>1, ProjectedIs DEF Projected
      <3> QED BY <1>1, <2>1, <3>1, AcceptedPaths
    <2>3. AddressesRoundTrip BY <2>2, GoodPathReadsBack DEF AddressesRoundTrip
    <2>4. SubscriptionsCover BY <2>2, SubscriptionCovers DEF SubscriptionsCover
    <2> QED BY <2>3, <2>4
  <1> QED BY <1>2, <1>3 DEF NamespaceIsTheFacility

\* A mapping without equipment has the shape.
LEMMA NamespaceBegins ==
    ASSUME NamespaceInit
    PROVE  NamespaceInv
  <1>1. PICK e \in Enterprises, s \in Enterprises :
           facility = [enterprise |-> e, site |-> s, equipment |-> <<>>]
    BY DEF NamespaceInit
  <1>2. <<>> \in Seq(Equipment) OBVIOUS
  <1> QED BY <1>1, <1>2 DEF NamespaceInv, Facilities

\* One more equipment leaves the shape.
LEMMA NamespaceStep ==
    ASSUME NamespaceInv, NamespaceNext \/ UNCHANGED facility
    PROVE  NamespaceInv'
  <1>1. CASE NamespaceNext
    <2>1. PICK a \in AreaIds, l \in LineIds, q \in EquipmentIds, ps \in ParameterLists :
             Declare([area |-> a, line |-> l, equipment |-> q, parameters |-> ps])
      BY <1>1 DEF NamespaceNext
    <2> DEFINE e == [area |-> a, line |-> l, equipment |-> q, parameters |-> ps]
    <2>2. e \in Equipment BY DEF Equipment
    <2>3. facility' = [facility EXCEPT !.equipment = Append(@, e)] BY <2>1 DEF Declare
    <2> HIDE DEF e
    <2>4. facility.equipment \in Seq(Equipment) BY DEF NamespaceInv, Facilities
    <2>5. Append(facility.equipment, e) \in Seq(Equipment) BY <2>2, <2>4
    <2> QED BY <2>3, <2>5 DEF NamespaceInv, Facilities
  <1>2. CASE UNCHANGED facility BY <1>2 DEF NamespaceInv
  <1> QED BY <1>1, <1>2

\* from_facility: whatever facility is declared, in whatever order, the list of its
\* addresses is the same; and when its names pass, every address reads back as itself
\* and a subscription at a depth is served exactly the addresses below it.
THEOREM NamespaceCorrect == PartsSpec => [](part = "namespace" => NamespaceIsTheFacility)
  <1> DEFINE Inv == part = "namespace" => NamespaceInv
  <1>1. PartsInit => Inv BY NamespaceBegins DEF PartsInit
  <1>2. ASSUME Inv, [PartsNext]_<<part, vars, tool_vars, portal_vars, temperature_vars,
                        bus_vars, mqtt_vars, registry_vars, time_vars, scenario_vars, facility,
                        config_vars, versions, archive_vars, sync_vars, rules_vars, thread_vars>>
        PROVE  Inv'
    <2>1. UNCHANGED part BY <1>2, PartRuns
    <2>2. ASSUME part = "namespace" PROVE NamespaceNext \/ UNCHANGED facility
      BY <1>2, <2>2 DEF PartsNext, OthersStill
    <2> QED BY <1>2, <2>1, <2>2, NamespaceStep
  <1>3. Inv => (part = "namespace" => NamespaceIsTheFacility) BY NamespaceMeans
  <1> QED BY <1>1, <1>2, <1>3, PTL DEF PartsSpec
-----------------------------------------------------------------------------
(* FacilityConfig: what the loaders let through. *)

SchemaCodes == {"TF-C011", "TF-C012", "TF-C013"}
ReferenceCodes == {"TF-C101", "TF-C106"}

Profiles ==
    [yaml : Yaml, schema_errors : Seq(SchemaCodes), zones : Seq(ZoneNames),
     stations : Seq([id : StationNames, zone : ZoneNames, capacity : 0..1]),
     flows : Seq(StationNames)]

MetricEntries ==
    [id : MetricIds, form : MetricForms, deprecated : BOOLEAN, deprecated_in : BOOLEAN]

ConfigInv == profile \in Profiles /\ metrics \in Seq(MetricEntries)

\* References that find nothing: every zone and every station that is named is declared.
LEMMA ReferencesFound ==
    ASSUME NEW p \in Profiles
    PROVE  /\ check_references(p) \in Seq(ReferenceCodes)
           /\ ToSet(check_references(p)) = {} =>
                 /\ \A i \in DOMAIN p.stations : p.stations[i].zone \in ToSet(p.zones)
                 /\ \A i \in DOMAIN p.flows :
                       \E j \in DOMAIN p.stations : p.stations[j].id = p.flows[i]
  <1> DEFINE declared_ids == {p.stations[i].id : i \in DOMAIN p.stations}
             a == [i \in DOMAIN p.stations |->
                     IF p.stations[i].zone \notin ToSet(p.zones) THEN <<"TF-C106">> ELSE <<>>]
             b == [i \in DOMAIN p.flows |->
                     IF p.flows[i] \notin declared_ids THEN <<"TF-C101">> ELSE <<>>]
             A == FlattenSeq(a)
             B == FlattenSeq(b)
  <1>1. p.stations \in Seq([id : StationNames, zone : ZoneNames, capacity : 0..1])
        /\ p.flows \in Seq(StationNames)
    BY DEF Profiles
  <1>2. DOMAIN p.stations = 1..Len(p.stations) /\ DOMAIN p.flows = 1..Len(p.flows)
        /\ Len(p.stations) \in Nat /\ Len(p.flows) \in Nat
    BY <1>1
  <1>3. check_references(p) = A \o B BY DEF check_references
  <1>4. /\ DOMAIN a = 1..Len(p.stations) /\ Len(a) = Len(p.stations)
        /\ DOMAIN b = 1..Len(p.flows) /\ Len(b) = Len(p.flows)
    BY <1>2
  <1>5. /\ "TF-C106" \in ReferenceCodes /\ "TF-C101" \in ReferenceCodes BY DEF ReferenceCodes
  <1>6. \A i \in 1..Len(a) : /\ a[i] \in Seq(ReferenceCodes)
                             /\ p.stations[i].zone \notin ToSet(p.zones) => a[i] = <<"TF-C106">>
    BY <1>4, <1>5
  <1>7. \A i \in 1..Len(b) : /\ b[i] \in Seq(ReferenceCodes)
                             /\ p.flows[i] \notin declared_ids => b[i] = <<"TF-C101">>
    BY <1>4, <1>5
  <1>8. /\ Len(a) = 0 => a = <<>>
        /\ Len(b) = 0 => b = <<>>
    BY <1>4
  <1> HIDE DEF a, b, declared_ids
  <1>9. /\ A \in Seq(ReferenceCodes)
        /\ \A i \in 1..Len(a), x \in ReferenceCodes : a[i] = <<x>> => x \in ToSet(A)
    BY <1>2, <1>4, <1>6, <1>8, FlattenedHolds
  <1>10. /\ B \in Seq(ReferenceCodes)
         /\ \A i \in 1..Len(b), x \in ReferenceCodes : b[i] = <<x>> => x \in ToSet(B)
    BY <1>2, <1>4, <1>7, <1>8, FlattenedHolds
  <1> HIDE DEF A, B
  <1>11. A \o B \in Seq(ReferenceCodes) /\ ToSet(A \o B) = ToSet(A) \cup ToSet(B)
    BY <1>9, <1>10, TogetherHold
  <1>12. ASSUME ToSet(A \o B) = {}
         PROVE  /\ \A i \in 1..Len(a) : p.stations[i].zone \in ToSet(p.zones)
                /\ \A i \in 1..Len(b) : p.flows[i] \in declared_ids
    <2>1. ToSet(A) = {} /\ ToSet(B) = {} BY <1>11, <1>12
    <2> QED BY <1>5, <1>6, <1>7, <1>9, <1>10, <2>1
  <1> QED BY <1>2, <1>3, <1>4, <1>11, <1>12 DEF declared_ids

\* A list without elements is the empty one.
LEMMA NothingIn ==
    ASSUME NEW X, NEW u \in Seq(X)
    PROVE  /\ ToSet(u) \subseteq X
           /\ ToSet(u) = {} <=> u = <<>>
  <1>1. DOMAIN u = 1..Len(u) /\ Len(u) \in Nat /\ \A i \in 1..Len(u) : u[i] \in X OBVIOUS
  <1>2. Len(u) = 0 <=> u = <<>> OBVIOUS
  <1>3. ToSet(u) = {} <=> 1..Len(u) = {} BY <1>1 DEF ToSet
  <1>4. 1..Len(u) = {} <=> Len(u) = 0
    <2>1. Len(u) # 0 => 1 \in 1..Len(u) BY <1>1
    <2> QED BY <1>1, <2>1
  <1> QED BY <1>1, <1>2, <1>3, <1>4 DEF ToSet

\* The shape is told of by the codes of the schema.
LEMMA ShapeFound ==
    ASSUME NEW p \in Profiles
    PROVE  validate_schema(p) \in Seq(SchemaCodes)
  <1>1. p.schema_errors \in Seq(SchemaCodes) BY DEF Profiles
  <1>2. "TF-C013" \in SchemaCodes BY DEF SchemaCodes
  <1> QED BY <1>1, <1>2, TogetherHold DEF validate_schema

\* Plausibility gives warnings only.
LEMMA PlausibilityFound ==
    ASSUME NEW p \in Profiles
    PROVE  check_plausibility(p) \in Seq(Warnings)
  <1> DEFINE a == [i \in DOMAIN p.stations |->
                     IF p.stations[i].capacity = 0 THEN <<"TF-C301">> ELSE <<>>]
  <1>1. p.stations \in Seq([id : StationNames, zone : ZoneNames, capacity : 0..1])
    BY DEF Profiles
  <1>2. DOMAIN p.stations = 1..Len(p.stations) /\ Len(p.stations) \in Nat BY <1>1
  <1>3. DOMAIN a = 1..Len(p.stations) /\ Len(a) = Len(p.stations) BY <1>2
  <1>4. "TF-C301" \in Warnings BY DEF Warnings
  <1>5. \A i \in 1..Len(a) : a[i] \in Seq(Warnings) BY <1>3, <1>4
  <1>6. Len(a) = 0 => a = <<>> BY <1>3
  <1> HIDE DEF a
  <1>7. FlattenSeq(a) \in Seq(Warnings) BY <1>2, <1>3, <1>5, <1>6, FlattenedHolds
  <1> QED BY <1>7 DEF check_plausibility, a

\* A code that is no warning is an error.
LEMMA ErrorsAre ==
    /\ \A codes : ToSet(codes) \subseteq SchemaCodes /\ ToSet(codes) # {} => HasError(codes)
    /\ \A codes : ToSet(codes) \subseteq ReferenceCodes /\ ToSet(codes) # {} => HasError(codes)
    /\ \A codes : ~HasError(codes) => ToSet(codes) \subseteq Warnings
    /\ \A u, v : ToSet(v) \subseteq ToSet(u) /\ HasError(v) => HasError(u)
    /\ Warnings \cap ReferenceCodes = {} /\ SchemaCodes \cap ReferenceCodes = {}
  <1>1. /\ Warnings \cap SchemaCodes = {} /\ Warnings \cap ReferenceCodes = {}
        /\ SchemaCodes \cap ReferenceCodes = {}
    BY DEF Warnings, SchemaCodes, ReferenceCodes
  <1> QED BY <1>1 DEF HasError

\* What load_facility lets through, for any profile.
LEMMA ProfileLoads ==
    ASSUME NEW p \in Profiles, NEW strict \in BOOLEAN
    PROVE  LET r == load_facility(p, strict)
           IN  /\ r.end = "loaded" =>
                    /\ \A i \in DOMAIN p.stations : p.stations[i].zone \in ToSet(p.zones)
                    /\ \A i \in DOMAIN p.flows :
                          \E j \in DOMAIN p.stations : p.stations[j].id = p.flows[i]
                    /\ ToSet(r.codes) \subseteq Warnings
                    /\ strict => r.codes = <<>>
               /\ validate_schema(p) # <<>> => ToSet(r.codes) \cap ReferenceCodes = {}
  <1> DEFINE r == load_facility(p, strict)
             shaped == validate_schema(p)
             refs == check_references(p)
             plausible == check_plausibility(p)
             resolved == IF HasError(shaped) THEN <<>> ELSE refs
             found == shaped \o resolved \o plausible
  <1>1. shaped \in Seq(SchemaCodes) /\ refs \in Seq(ReferenceCodes) /\ plausible \in Seq(Warnings)
    BY ShapeFound, ReferencesFound, PlausibilityFound
  <1>2. /\ ToSet(refs) = {} =>
              /\ \A i \in DOMAIN p.stations : p.stations[i].zone \in ToSet(p.zones)
              /\ \A i \in DOMAIN p.flows :
                    \E j \in DOMAIN p.stations : p.stations[j].id = p.flows[i]
    BY ReferencesFound
  <1>3. /\ p.yaml \in {"broken", "empty"} =>
              r.end = "config_error" /\ r.codes \in {<<"TF-C001">>, <<>>}
        /\ p.yaml = "misshapen" => r.end = "attribute_error" /\ r.codes = <<>>
        /\ p.yaml = "mapping" =>
              /\ r.codes = found
              /\ r.end = "loaded" => ~HasError(found) /\ ~(strict /\ found # <<>>)
    BY DEF load_facility, parse
  <1>4. p.yaml \in {"mapping", "misshapen", "empty", "broken"} BY DEF Profiles, Yaml
  <1> HIDE DEF r, shaped, refs, plausible
  <1>5. /\ ToSet(shaped) \subseteq SchemaCodes /\ ToSet(refs) \subseteq ReferenceCodes
        /\ ToSet(plausible) \subseteq Warnings /\ (ToSet(shaped) = {} <=> shaped = <<>>)
    BY <1>1, NothingIn
  <1>6. resolved \in Seq(ReferenceCodes) /\ (HasError(shaped) => ToSet(resolved) = {})
    BY <1>1 DEF ToSet
  <1> DEFINE X == SchemaCodes \cup ReferenceCodes \cup Warnings
  <1>7. shaped \in Seq(X) /\ resolved \in Seq(X) /\ plausible \in Seq(X) BY <1>1, <1>6
  <1>8. ToSet(found) = ToSet(shaped) \cup ToSet(resolved) \cup ToSet(plausible)
    <2> HIDE DEF X, resolved
    <2>1. shaped \o resolved \in Seq(X) /\ ToSet(shaped \o resolved) = ToSet(shaped) \cup ToSet(resolved)
      BY <1>7, TogetherHold
    <2> DEFINE both == shaped \o resolved
    <2>2. both \in Seq(X) BY <2>1
    <2>3. found = both \o plausible BY DEF found
    <2> HIDE DEF both, found
    <2>4. ToSet(found) = ToSet(both) \cup ToSet(plausible) BY <1>7, <2>2, <2>3, TogetherHold
    <2> QED BY <2>1, <2>4 DEF both
  <1> HIDE DEF found
  <1>9. ASSUME r.end = "loaded"
        PROVE  /\ ToSet(refs) = {} /\ ToSet(r.codes) \subseteq Warnings
               /\ strict => r.codes = <<>>
    <2>1. /\ p.yaml = "mapping" /\ r.codes = found /\ ~HasError(found)
          /\ strict => found = <<>>
      BY <1>3, <1>4, <1>9
    <2>2. ~HasError(shaped) BY <1>8, <2>1, ErrorsAre
    <2>3. resolved = refs BY <2>2
    <2>4. ToSet(refs) = {} BY <1>5, <1>8, <2>1, <2>3, ErrorsAre
    <2> QED BY <2>1, <2>4, ErrorsAre
  <1>10. ASSUME shaped # <<>> PROVE ToSet(r.codes) \cap ReferenceCodes = {}
    <2>1. HasError(shaped) BY <1>5, <1>10, ErrorsAre
    <2>2. ToSet(found) \subseteq SchemaCodes \cup Warnings BY <1>5, <1>6, <1>8, <2>1
    <2>3. ToSet(found) \cap ReferenceCodes = {} BY <2>2, ErrorsAre
    <2>4. CASE p.yaml = "mapping" BY <1>3, <2>3, <2>4
    <2>5. CASE p.yaml # "mapping"
      <3>1. r.codes \in {<<"TF-C001">>, <<>>} BY <1>3, <1>4, <2>5
      <3>2. ToSet(<<"TF-C001">>) \subseteq {"TF-C001"} /\ ToSet(<<>>) = {} BY DEF ToSet
      <3>3. "TF-C001" \notin ReferenceCodes BY DEF ReferenceCodes
      <3> QED BY <3>1, <3>2, <3>3
    <2> QED BY <2>4, <2>5
  <1> QED BY <1>2, <1>9, <1>10 DEF r, shaped

\* load_metrics: an id that is there twice is reported.
LEMMA MetricsLoad ==
    ASSUME NEW ms \in Seq(MetricEntries), check_metric_rules(ms) = <<>>
    PROVE  \A i, j \in 1..Len(ms) : ms[i].id = ms[j].id => i = j
  <1> DEFINE form(i) == IF ms[i].form = "other" THEN <<"TF-C153">> ELSE <<>>
             twice(i) == IF \E j \in 1..i - 1 : ms[j].id = ms[i].id THEN <<"TF-C150">> ELSE <<>>
             since(i) == IF ms[i].deprecated /\ ~ms[i].deprecated_in THEN <<"TF-C155">> ELSE <<>>
             a == [i \in DOMAIN ms |-> form(i) \o twice(i) \o since(i)]
             X == {"TF-C150", "TF-C153", "TF-C155"}
  <1>1. DOMAIN ms = 1..Len(ms) /\ Len(ms) \in Nat OBVIOUS
  <1>2. DOMAIN a = 1..Len(ms) /\ Len(a) = Len(ms) BY <1>1
  <1>3. \A i \in 1..Len(ms) : /\ form(i) \in Seq(X) /\ twice(i) \in Seq(X) /\ since(i) \in Seq(X)
    <2> SUFFICES ASSUME NEW i \in 1..Len(ms)
                 PROVE  form(i) \in Seq(X) /\ twice(i) \in Seq(X) /\ since(i) \in Seq(X)
      OBVIOUS
    <2>1. <<>> \in Seq(X) /\ \A x \in X : <<x>> \in Seq(X) OBVIOUS
    <2>2. "TF-C150" \in X /\ "TF-C153" \in X /\ "TF-C155" \in X OBVIOUS
    <2>3. /\ form(i) \in {<<"TF-C153">>, <<>>} /\ twice(i) \in {<<"TF-C150">>, <<>>}
          /\ since(i) \in {<<"TF-C155">>, <<>>}
      OBVIOUS
    <2> HIDE DEF form, twice, since, X
    <2> QED BY <2>1, <2>2, <2>3
  <1>4. \A i \in 1..Len(ms) : (\E j \in 1..i - 1 : ms[j].id = ms[i].id) => twice(i) = <<"TF-C150">>
    OBVIOUS
  <1>5. \A i \in 1..Len(ms) : a[i] = form(i) \o twice(i) \o since(i) BY <1>1
  <1>6. FlattenSeq(a) = <<>> BY DEF check_metric_rules
  <1>7. Len(a) = 0 => a = <<>> BY <1>2
  <1> HIDE DEF form, twice, since, a, X
  <1>8. \A i \in 1..Len(ms) :
           /\ a[i] \in Seq(X) /\ Len(a[i]) = Len(form(i)) + Len(twice(i)) + Len(since(i))
           /\ Len(form(i)) \in Nat /\ Len(twice(i)) \in Nat /\ Len(since(i)) \in Nat
    <2> SUFFICES ASSUME NEW i \in 1..Len(ms)
                 PROVE  /\ a[i] \in Seq(X)
                        /\ Len(a[i]) = Len(form(i)) + Len(twice(i)) + Len(since(i))
                        /\ Len(form(i)) \in Nat /\ Len(twice(i)) \in Nat /\ Len(since(i)) \in Nat
      OBVIOUS
    <2> DEFINE u == form(i)
               v == twice(i)
               w == since(i)
    <2>1. u \in Seq(X) /\ v \in Seq(X) /\ w \in Seq(X) /\ a[i] = u \o v \o w BY <1>3, <1>5
    <2> HIDE DEF u, v, w
    <2>2. u \o v \in Seq(X) /\ Len(u \o v) = Len(u) + Len(v) BY <2>1
    <2>3. u \o v \o w \in Seq(X) /\ Len(u \o v \o w) = Len(u \o v) + Len(w) BY <2>1, <2>2
    <2>4. Len(u) \in Nat /\ Len(v) \in Nat /\ Len(w) \in Nat BY <2>1
    <2> QED BY <2>1, <2>2, <2>3, <2>4 DEF u, v, w
  <1>9. \A i \in 1..Len(ms) : a[i] = <<>> BY <1>1, <1>2, <1>6, <1>7, <1>8, FlattenedHolds
  <1>10. \A i \in 1..Len(ms) : \A j \in 1..i - 1 : ms[j].id # ms[i].id
    <2> SUFFICES ASSUME NEW i \in 1..Len(ms), \E j \in 1..i - 1 : ms[j].id = ms[i].id PROVE FALSE
      OBVIOUS
    <2>1. Len(twice(i)) = 1 BY <1>4
    <2>2. Len(a[i]) = 0 BY <1>9
    <2>3. /\ Len(a[i]) = Len(form(i)) + Len(twice(i)) + Len(since(i))
          /\ Len(form(i)) \in Nat /\ Len(since(i)) \in Nat
      BY <1>8
    <2> HIDE DEF form, twice, since, a
    <2> QED BY <2>1, <2>2, <2>3
  <1>11. SUFFICES ASSUME NEW i \in 1..Len(ms), NEW j \in 1..Len(ms), ms[i].id = ms[j].id, i # j
                  PROVE  FALSE
    OBVIOUS
  <1>12. CASE i < j
    <2>1. i \in 1..j - 1 BY <1>12
    <2> QED BY <1>10, <1>11, <2>1
  <1>13. CASE j < i
    <2>1. j \in 1..i - 1 BY <1>13
    <2> QED BY <1>10, <1>11, <2>1
  <1> QED BY <1>1, <1>11, <1>12, <1>13

\* Files of the right types are resolved as the loaders have to.
LEMMA ConfigMeans ==
    ASSUME ConfigInv
    PROVE  ConfigIsResolved
  <1>1. LoadedIsResolved
    <2>1. profile \in Profiles /\ ReferenceCodes = {"TF-C101", "TF-C106"}
      BY DEF ConfigInv, ReferenceCodes
    <2> QED BY <2>1, ProfileLoads DEF LoadedIsResolved
  <1>2. LimitsNameOneMetric
    <2> SUFFICES ASSUME load_metrics(metrics).end = "loaded", NEW k \in limits
                 PROVE  Cardinality({i \in DOMAIN metrics : metrics[i].id = k}) =
                            IF k \in resolve_spec_limits(limits, metrics) THEN 0 ELSE 1
      BY DEF LimitsNameOneMetric
    <2> DEFINE carriers == {i \in DOMAIN metrics : metrics[i].id = k}
    <2>1. metrics \in Seq(MetricEntries) BY DEF ConfigInv
    <2>2. DOMAIN metrics = 1..Len(metrics) BY <2>1
    <2>3. check_metric_rules(metrics) = <<>> BY DEF load_metrics
    <2>4. \A i, j \in carriers : i = j BY <2>1, <2>2, <2>3, MetricsLoad
    <2>5. k \in resolve_spec_limits(limits, metrics) <=> carriers = {} BY DEF resolve_spec_limits
    <2>6. CASE carriers = {} BY <2>5, <2>6, FS_EmptySet
    <2>7. CASE carriers # {}
      <3>1. PICK i \in carriers : carriers = {i} BY <2>4, <2>7
      <3>2. Cardinality({i}) = 1 BY FS_Singleton
      <3> QED BY <2>5, <2>7, <3>1, <3>2
    <2> QED BY <2>6, <2>7
  <1> QED BY <1>1, <1>2 DEF ConfigIsResolved

\* The first files have the right types.
LEMMA ConfigBegins ==
    ASSUME ConfigInit
    PROVE  ConfigInv
  <1>1. PICK z \in ZoneNames, id \in StationNames :
           profile = [yaml |-> "mapping", schema_errors |-> <<>>, zones |-> <<z>>,
                      stations |-> <<[id |-> id, zone |-> z, capacity |-> 1]>>,
                      flows |-> <<id>>]
    BY DEF ConfigInit
  <1>2. [id |-> id, zone |-> z, capacity |-> 1] \in [id : StationNames, zone : ZoneNames, capacity : 0..1]
    OBVIOUS
  <1>3. "mapping" \in Yaml BY DEF Yaml
  <1>4. <<>> \in Seq(SchemaCodes) /\ <<z>> \in Seq(ZoneNames) /\ <<id>> \in Seq(StationNames)
        /\ <<[id |-> id, zone |-> z, capacity |-> 1]>> \in
              Seq([id : StationNames, zone : ZoneNames, capacity : 0..1])
    BY <1>2
  <1>5. profile \in Profiles BY <1>1, <1>3, <1>4 DEF Profiles
  <1>6. metrics = <<>> BY DEF ConfigInit
  <1> QED BY <1>5, <1>6 DEF ConfigInv

\* An edit of one field leaves a profile.
LEMMA EditKeeps ==
    ASSUME NEW p \in Profiles
    PROVE  /\ \A y \in Yaml : [p EXCEPT !.yaml = y] \in Profiles
           /\ \A q \in Seq(SchemaCodes) : [p EXCEPT !.schema_errors = q] \in Profiles
           /\ \A q \in Seq(ZoneNames) : [p EXCEPT !.zones = q] \in Profiles
           /\ \A q \in Seq([id : StationNames, zone : ZoneNames, capacity : 0..1]) :
                 [p EXCEPT !.stations = q] \in Profiles
           /\ \A q \in Seq(StationNames) : [p EXCEPT !.flows = q] \in Profiles
  BY DEF Profiles

\* No edit of the two files changes their types.
LEMMA ConfigStep ==
    ASSUME ConfigInv, ProfileNext \/ MetricsNext \/ UNCHANGED config_vars
    PROVE  ConfigInv'
  <1> DEFINE Stations0 == [id : StationNames, zone : ZoneNames, capacity : 0..1]
  <1>1. /\ profile \in Profiles /\ metrics \in Seq(MetricEntries)
        /\ profile.zones \in Seq(ZoneNames) /\ profile.stations \in Seq(Stations0)
        /\ profile.flows \in Seq(StationNames) /\ profile.schema_errors \in Seq(SchemaCodes)
    BY DEF ConfigInv, Profiles
  <1>2. ASSUME NEW p \in Profiles, EditProfile(p) PROVE ConfigInv'
    BY <1>1, <1>2 DEF EditProfile, ConfigInv
  <1>3. CASE ProfileNext
    <2>1. CASE \E z \in ZoneNames : AddZone(z)
      <3>1. PICK z \in ZoneNames : AddZone(z) BY <2>1
      <3>2. Append(profile.zones, z) \in Seq(ZoneNames) BY <1>1
      <3> QED BY <1>1, <1>2, <3>1, <3>2, EditKeeps DEF AddZone
    <2>2. CASE DropZone
      <3>1. Tail(profile.zones) \in Seq(ZoneNames) BY <1>1, <2>2 DEF DropZone
      <3> QED BY <1>1, <1>2, <2>2, <3>1, EditKeeps DEF DropZone
    <2>3. CASE DropStation
      <3>1. Tail(profile.stations) \in Seq(Stations0) BY <1>1, <2>3 DEF DropStation
      <3> QED BY <1>1, <1>2, <2>3, <3>1, EditKeeps DEF DropStation
    <2>4. CASE \E id \in StationNames, z \in ZoneNames, c \in 0..1 :
                  AddStation([id |-> id, zone |-> z, capacity |-> c])
      <3>1. PICK s \in Stations0 : AddStation(s) BY <2>4
      <3>2. Append(profile.stations, s) \in Seq(Stations0) BY <1>1
      <3> QED BY <1>1, <1>2, <3>1, <3>2, EditKeeps DEF AddStation
    <2>5. CASE \E id \in StationNames : AddFlow(id)
      <3>1. PICK id \in StationNames : AddFlow(id) BY <2>5
      <3>2. Append(profile.flows, id) \in Seq(StationNames) BY <1>1
      <3> QED BY <1>1, <1>2, <3>1, <3>2, EditKeeps DEF AddFlow
    <2>6. CASE \E code \in {"TF-C011", "TF-C012", "TF-C013"} : Misspell(code)
      <3>1. PICK code \in SchemaCodes : Misspell(code) BY <2>6 DEF SchemaCodes
      <3>2. Append(profile.schema_errors, code) \in Seq(SchemaCodes) BY <1>1
      <3> QED BY <1>1, <1>2, <3>1, <3>2, EditKeeps DEF Misspell
    <2>7. CASE \E y \in Yaml : Reshape(y)
      <3>1. PICK y \in Yaml : Reshape(y) BY <2>7
      <3> QED BY <1>1, <1>2, <3>1, EditKeeps DEF Reshape
    <2> QED BY <1>3, <2>1, <2>2, <2>3, <2>4, <2>5, <2>6, <2>7 DEF ProfileNext
  <1>4. CASE MetricsNext
    <2>1. CASE \E k \in MetricIds : AddLimit(k)
      <3>1. UNCHANGED <<profile, metrics>> BY <2>1 DEF AddLimit
      <3> QED BY <1>1, <3>1 DEF ConfigInv
    <2>2. CASE \E id \in MetricIds, f \in MetricForms, d, i \in BOOLEAN :
                  AddMetric([id |-> id, form |-> f, deprecated |-> d, deprecated_in |-> i])
      <3>1. PICK m \in MetricEntries : AddMetric(m) BY <2>2 DEF MetricEntries
      <3>2. profile' = profile /\ metrics' = Append(metrics, m) BY <3>1 DEF AddMetric
      <3> QED BY <1>1, <3>2 DEF ConfigInv
    <2> QED BY <1>4, <2>1, <2>2 DEF MetricsNext
  <1>5. CASE UNCHANGED config_vars BY <1>1, <1>5 DEF config_vars, ConfigInv
  <1> QED BY <1>3, <1>4, <1>5

\* load_facility and load_metrics: a profile that loads has no dangling name in it, a
\* strict load hands over no warning, a profile of the wrong shape is not told of
\* references as well, and in a registry that loads a spec limit names one metric or is
\* reported, whatever edits led to the two files.
THEOREM ConfigCorrect == PartsSpec => [](part \in {"profile", "metrics"} => ConfigIsResolved)
  <1> DEFINE Inv == part \in {"profile", "metrics"} => ConfigInv
  <1>1. PartsInit => Inv BY ConfigBegins DEF PartsInit
  <1>2. ASSUME Inv, [PartsNext]_<<part, vars, tool_vars, portal_vars, temperature_vars,
                        bus_vars, mqtt_vars, registry_vars, time_vars, scenario_vars, facility,
                        config_vars, versions, archive_vars, sync_vars, rules_vars, thread_vars>>
        PROVE  Inv'
    <2>1. UNCHANGED part BY <1>2, PartRuns
    <2>2. ASSUME part \in {"profile", "metrics"}
          PROVE  ProfileNext \/ MetricsNext \/ UNCHANGED config_vars
      BY <1>2, <2>2 DEF PartsNext, OthersStill
    <2> QED BY <1>2, <2>1, <2>2, ConfigStep
  <1>3. Inv => (part \in {"profile", "metrics"} => ConfigIsResolved) BY ConfigMeans
  <1> QED BY <1>1, <1>2, <1>3, PTL DEF PartsSpec

\* Names, references and versions that the configuration lets through resolve.
THEOREM ConfigurationResolvesCorrect == PartsSpec => []ConfigurationResolves
  <1>1. (/\ part = "namespace" => NamespaceIsTheFacility
         /\ part \in {"profile", "metrics"} => ConfigIsResolved
         /\ part = "schema" => MajorIsStable) => ConfigurationResolves
    BY DEF ConfigurationResolves
  <1> QED BY <1>1, NamespaceCorrect, ConfigCorrect, MajorCorrect, PTL
-----------------------------------------------------------------------------
\* An operation of a plan, one that opens an issue, and what an open plan may not hold.
IsOperation(o) ==
    \/ o.kind \in {"milestone", "label"}
    \/ o.kind = "issue" /\ o.does \in {"open", "relabel", "rewrite", "close"}

Opens(o) == o.kind = "issue" /\ o.does = "open"

Operations(ops) == Listing(ops) /\ \A k \in 1..Len(ops) : IsOperation(ops[k])

OpensNothing(ops) == \A k \in 1..Len(ops) : ~Opens(ops[k])

\* No issue is opened that the tracker holds, or that nobody planned.
OpensTheMissing(ops, all) ==
    \A k \in 1..Len(ops) : Opens(ops[k]) =>
        /\ ops[k].title # ByHand
        /\ \A i \in 1..Len(all) : all[i].title # ops[k].title

OpensOnce(ops) ==
    \A k, l \in 1..Len(ops) :
        Opens(ops[k]) /\ Opens(ops[l]) /\ ops[k].title = ops[l].title => k = l

\* What a package asks of the tracker: one issue when none is listed, and edits else.
LEMMA PackageAsks ==
    ASSUME NEW p, NEW all
    PROVE  /\ Operations(PackageOperations(p, all))
           /\ \A k \in 1..Len(PackageOperations(p, all)) :
                 Opens(PackageOperations(p, all)[k]) =>
                     /\ k = 1 /\ PackageOperations(p, all)[k].title = issue_title(p)
                     /\ NumbersOf(all, issue_title(p)) = {}
  <1> DEFINE numbers == NumbersOf(all, issue_title(p))
             n == Min(numbers)
             fresh == [kind |-> "issue", does |-> "open", title |-> issue_title(p),
                        to |-> issue_body(p), labels |-> labels_for(p), milestone |-> p.phase]
             Edit(does, to) == [kind |-> "issue", does |-> does, number |-> n, to |-> to]
             e1 == Edit("relabel", labels_for(p))
             e2 == Edit("rewrite", issue_body(p))
             e3 == Edit("close", "COMPLETED")
             q1 == IF actual_labels(all[n]) # labels_for(p) THEN <<e1>> ELSE <<>>
             q2 == IF all[n].body # issue_body(p) THEN <<e2>> ELSE <<>>
             q3 == IF p.status = "done" /\ all[n].state = "OPEN" THEN <<e3>> ELSE <<>>
             q == PackageOperations(p, all)
  <1>1. q = IF numbers = {} THEN <<fresh>> ELSE q1 \o q2 \o q3 BY DEF PackageOperations
  <1>2. IsOperation(fresh) /\ fresh.title = issue_title(p) BY DEF IsOperation
  <1>3. /\ IsOperation(e1) /\ IsOperation(e2) /\ IsOperation(e3)
        /\ ~Opens(e1) /\ ~Opens(e2) /\ ~Opens(e3)
    BY DEF IsOperation, Opens
  <1> DEFINE E == {e1, e2, e3}
  <1> HIDE DEF fresh, e1, e2, e3
  <1>4. /\ q1 \in {<<e1>>, <<>>} /\ q2 \in {<<e2>>, <<>>} /\ q3 \in {<<e3>>, <<>>}
    OBVIOUS
  <1> HIDE DEF q1, q2, q3
  <1>5. e1 \in E /\ e2 \in E /\ e3 \in E OBVIOUS
  <1>6. \A x \in E : IsOperation(x) /\ ~Opens(x) BY <1>3
  <1> HIDE DEF E, q
  <1>7. <<>> \in Seq(E) /\ \A x \in E : <<x>> \in Seq(E) OBVIOUS
  <1>8. q1 \in Seq(E) /\ q2 \in Seq(E) /\ q3 \in Seq(E) BY <1>4, <1>5, <1>7
  <1>9. CASE numbers = {}
    <2>1. q = <<fresh>> BY <1>1, <1>9
    <2>2. q \in Seq({fresh}) /\ Len(q) = 1 /\ q[1] = fresh BY <2>1
    <2>3. Operations(q) BY <1>2, <2>2 DEF Operations, Listing
    <2> QED BY <1>2, <1>9, <2>2, <2>3 DEF q
  <1>10. CASE numbers # {}
    <2>1. q = q1 \o q2 \o q3 BY <1>1, <1>10
    <2>2. q \in Seq(E) BY <1>8, <2>1
    <2>3. \A k \in 1..Len(q) : q[k] \in E BY <2>2
    <2>4. Operations(q) BY <1>6, <2>2, <2>3 DEF Operations, Listing
    <2> QED BY <1>6, <2>3, <2>4 DEF q
  <1> QED BY <1>9, <1>10

\* The issue operations of a plan: when the list of issues is whole, each issue they open
\* is missing, and none is opened twice.
LEMMA PlanAsks ==
    ASSUME NEW plan \in Roadmaps, NEW all, Len(all) \in Nat, DOMAIN all = 1..Len(all)
    PROVE  /\ Operations(IssueOperations(plan, all))
           /\ OpensOnce(IssueOperations(plan, all))
           /\ Len(all) <= ListLimit => OpensTheMissing(IssueOperations(plan, all), all)
  <1> DEFINE n == Len(plan)
             s == [i \in DOMAIN plan |-> PackageOperations(plan[i], all)]
             F == IssueOperations(plan, all)
             X == UNION {{s[i][k] : k \in 1..Len(s[i])} : i \in 1..n}
  <1>1. /\ n \in Nat /\ DOMAIN plan = 1..n
        /\ \A i, j \in 1..n : issue_title(plan[i]) = issue_title(plan[j]) => i = j
    <2>1. plan \in Seq(Range(plan)) BY RoadmapAssumption
    <2>2. n \in Nat /\ DOMAIN plan = 1..n BY <2>1
    <2> QED BY <2>2, RoadmapAssumption
  <1>2. Len(s) = n /\ DOMAIN s = 1..n /\ (n = 0 => s = <<>>) BY <1>1
  <1>3. F = FlattenSeq(s) BY DEF IssueOperations
  <1>4. ASSUME NEW i \in 1..n
        PROVE  /\ Operations(s[i])
               /\ \A k \in 1..Len(s[i]) : Opens(s[i][k]) =>
                     /\ k = 1 /\ s[i][k].title = issue_title(plan[i])
                     /\ NumbersOf(all, issue_title(plan[i])) = {}
    <2>1. s[i] = PackageOperations(plan[i], all) BY <1>1
    <2> QED BY <2>1, PackageAsks
  <1> HIDE DEF s
  <1>5. \A i \in 1..n : s[i] \in Seq(X)
    <2> SUFFICES ASSUME NEW i \in 1..n PROVE s[i] \in Seq(X) OBVIOUS
    <2>1. s[i] \in Seq({s[i][k] : k \in 1..Len(s[i])}) BY <1>4, ListingIs DEF Operations
    <2>2. {s[i][k] : k \in 1..Len(s[i])} \subseteq X OBVIOUS
    <2> HIDE DEF X
    <2> QED BY <2>1, <2>2, SMTT(60)
  <1> HIDE DEF X, n
  <1>6. ComesFrom(F, s, n, X) BY <1>1, <1>2, <1>3, <1>5, Flattened
  <1> HIDE DEF F
  <1>7. PICK own \in [1..Len(F) -> 1..n], pos \in [1..Len(F) -> Nat] :
          /\ \A k \in 1..Len(F) : pos[k] \in 1..Len(s[own[k]]) /\ F[k] = s[own[k]][pos[k]]
          /\ \A k, l \in 1..Len(F) : own[k] = own[l] /\ pos[k] = pos[l] => k = l
    BY <1>6 DEF ComesFrom
  <1>8. \A k \in 1..Len(F) : own[k] \in 1..n BY <1>7
  <1>9. ASSUME NEW k \in 1..Len(F), Opens(F[k])
        PROVE  /\ pos[k] = 1 /\ F[k].title = issue_title(plan[own[k]])
               /\ NumbersOf(all, issue_title(plan[own[k]])) = {}
    <2>1. PICK i \in 1..n : i = own[k] /\ pos[k] \in 1..Len(s[i]) /\ F[k] = s[i][pos[k]]
      BY <1>7, <1>8
    <2>2. \A j \in 1..Len(s[i]) : Opens(s[i][j]) =>
             /\ j = 1 /\ s[i][j].title = issue_title(plan[i])
             /\ NumbersOf(all, issue_title(plan[i])) = {}
      BY <1>4
    <2> QED BY <1>9, <2>1, <2>2
  <1>10. Operations(F)
    <2>1. Listing(F) BY <1>6 DEF ComesFrom, Listing
    <2>2. \A k \in 1..Len(F) : IsOperation(F[k])
      <3> SUFFICES ASSUME NEW k \in 1..Len(F) PROVE IsOperation(F[k]) OBVIOUS
      <3>1. own[k] \in 1..n /\ pos[k] \in 1..Len(s[own[k]]) /\ F[k] = s[own[k]][pos[k]]
        BY <1>7, <1>8
      <3> QED BY <1>4, <3>1 DEF Operations
    <2> QED BY <2>1, <2>2 DEF Operations
  <1>11. OpensOnce(F)
    <2> SUFFICES ASSUME NEW k \in 1..Len(F), NEW l \in 1..Len(F), Opens(F[k]), Opens(F[l]),
                        F[k].title = F[l].title
                 PROVE  k = l
      BY DEF OpensOnce
    <2>1. pos[k] = 1 /\ pos[l] = 1 BY <1>9
    <2>2. issue_title(plan[own[k]]) = issue_title(plan[own[l]]) BY <1>9
    <2>3. own[k] = own[l] BY <1>1, <1>8, <2>2
    <2> QED BY <1>7, <2>1, <2>3
  <1>12. ASSUME Len(all) <= ListLimit PROVE OpensTheMissing(F, all)
    <2> SUFFICES ASSUME NEW k \in 1..Len(F), Opens(F[k])
                 PROVE  /\ F[k].title # ByHand
                        /\ \A i \in 1..Len(all) : all[i].title # F[k].title
      BY DEF OpensTheMissing
    <2>1. F[k].title = issue_title(plan[own[k]]) /\ NumbersOf(all, F[k].title) = {} BY <1>9
    <2>2. ASSUME NEW p PROVE issue_title(p) # ByHand
      <3>1. 2 \in DOMAIN issue_title(p) BY DEF issue_title
      <3>2. 2 \notin DOMAIN ByHand BY DEF ByHand
      <3> QED BY <3>1, <3>2
    <2>3. ListLimit \in Nat \ {0} BY ListLimitAssumption
    <2>4. \A i \in 1..Len(all) : i \in Listed(all) BY <1>12, <2>3 DEF Listed
    <2>5. \A i \in 1..Len(all) : all[i].title # F[k].title BY <2>1, <2>4 DEF NumbersOf
    <2> QED BY <2>1, <2>2, <2>5
  <1> QED BY <1>10, <1>11, <1>12 DEF F

\* The labels a plan asks for are finitely many, and are made once each.
LEMMA ImageIsFinite ==
    ASSUME NEW S, IsFiniteSet(S), NEW f, DOMAIN f = S
    PROVE  IsFiniteSet({f[x] : x \in S})
  <1> DEFINE T == {f[x] : x \in S}
             g == [x \in S |-> f[x]]
  <1>1. g \in [S -> T] /\ \A t \in T : \E x \in S : g[x] = t OBVIOUS
  <1> HIDE DEF T, g
  <1>2. g \in Surjection(S, T) BY <1>1 DEF Surjection
  <1>3. IsFiniteSet(T) BY <1>2, FS_Surjection
  <1> QED BY <1>3 DEF T

\* A finite set as a list of its elements.
LEMMA SetAsListing ==
    ASSUME NEW S, IsFiniteSet(S)
    PROVE  SetToSeq(S) \in Seq(S)
  <1> DEFINE n == Cardinality(S)
  <1>1. n \in Nat BY FS_CardinalityType
  <1>2. PICK m \in Nat : ExistsBijection(1..m, S) BY FS_NatBijection
  <1>3. n = m BY <1>2, FS_CountingElements
  <1>4. PICK f \in [1..n -> S] : IsInjective(f)
    <2>1. PICK f \in Bijection(1..n, S) : TRUE BY <1>2, <1>3 DEF ExistsBijection
    <2>2. f \in [1..n -> S] /\ \A a, b \in 1..n : f[a] = f[b] => a = b
      BY <2>1 DEF Bijection, Injection, IsInjective
    <2> QED BY <2>2 DEF IsInjective
  <1> HIDE DEF n
  <1>5. SetToSeq(S) \in [1..n -> S] BY <1>4 DEF SetToSeq, n
  <1> QED BY <1>1, <1>5

\* A package asks for finitely many labels.
LEMMA LabelsAreFinite ==
    ASSUME NEW p, IsFiniteSet(p.covers)
    PROVE  IsFiniteSet(labels_for(p))
  <1> DEFINE f == [r \in p.covers |-> <<"req:", r>>]
             g == [r \in p.covers |-> <<"tier:", TierOf[r]>>]
             moved == IF p.status = "reordered" THEN {<<"", "moved">>} ELSE {}
  <1>1. IsFiniteSet({f[r] : r \in p.covers}) /\ IsFiniteSet({g[r] : r \in p.covers})
    BY ImageIsFinite
  <1>2. /\ {f[r] : r \in p.covers} = {<<"req:", r>> : r \in p.covers}
        /\ {g[r] : r \in p.covers} = {<<"tier:", TierOf[r]>> : r \in p.covers}
    OBVIOUS
  <1>3. IsFiniteSet({<<"phase:", p.phase>>, <<"wave:", p.wave>>})
    <2>1. IsFiniteSet({<<"phase:", p.phase>>}) /\ IsFiniteSet({<<"wave:", p.wave>>})
      BY FS_Singleton
    <2>2. {<<"phase:", p.phase>>, <<"wave:", p.wave>>}
            = {<<"phase:", p.phase>>} \cup {<<"wave:", p.wave>>}
      OBVIOUS
    <2> QED BY <2>1, <2>2, FS_Union
  <1>4. IsFiniteSet(moved) BY FS_Singleton, FS_EmptySet
  <1> HIDE DEF f, g, moved
  <1>5. labels_for(p) = (({<<"phase:", p.phase>>, <<"wave:", p.wave>>}
                            \cup {f[r] : r \in p.covers}) \cup {g[r] : r \in p.covers}) \cup moved
    BY <1>2 DEF labels_for, moved
  <1> QED BY <1>1, <1>3, <1>4, <1>5, FS_Union

\* Operations for labels open no issue.
LEMMA LabelsAsk ==
    ASSUME NEW plan \in Roadmaps, NEW held
    PROVE  /\ Operations(LabelOperations(plan, held))
           /\ OpensNothing(LabelOperations(plan, held))
  <1> DEFINE wanted == UNION {labels_for(plan[i]) : i \in DOMAIN plan}
             f == [l \in wanted \ held |-> [kind |-> "label", does |-> "create", label |-> l]]
             S == {f[l] : l \in wanted \ held}
             each == [i \in DOMAIN plan |-> labels_for(plan[i])]
  <1>1. IsFiniteSet(DOMAIN plan)
    <2>1. plan \in Seq(Range(plan)) BY RoadmapAssumption
    <2>2. DOMAIN plan = 1..Len(plan) /\ 1 \in Int /\ Len(plan) \in Int BY <2>1
    <2> QED BY <2>2, FS_Interval
  <1>2. IsFiniteSet(wanted)
    <2>1. IsFiniteSet({each[i] : i \in DOMAIN plan}) BY <1>1, ImageIsFinite
    <2>2. \A T \in {each[i] : i \in DOMAIN plan} : IsFiniteSet(T)
      <3>1. \A i \in DOMAIN plan : IsFiniteSet(labels_for(plan[i]))
        BY RoadmapAssumption, LabelsAreFinite
      <3> QED BY <3>1
    <2>3. wanted = UNION {each[i] : i \in DOMAIN plan} OBVIOUS
    <2> HIDE DEF wanted, each
    <2> QED BY <2>1, <2>2, <2>3, FS_UNION
  <1>3. IsFiniteSet(wanted \ held) BY <1>2, FS_Subset
  <1>4. IsFiniteSet(S) BY <1>3, ImageIsFinite
  <1>5. LabelOperations(plan, held) = SetToSeq(S)
    <2>1. S = {[kind |-> "label", does |-> "create", label |-> l] : l \in wanted \ held}
      OBVIOUS
    <2> HIDE DEF S
    <2> QED BY <2>1 DEF LabelOperations
  <1>6. \A o \in S : o.kind = "label"
    <2>1. \A l \in wanted \ held : f[l].kind = "label" OBVIOUS
    <2> HIDE DEF f
    <2> QED BY <2>1
  <1> HIDE DEF S
  <1>7. LabelOperations(plan, held) \in Seq(S) BY <1>4, <1>5, SetAsListing
  <1> DEFINE q == LabelOperations(plan, held)
  <1> HIDE DEF q
  <1>8. q \in Seq(S) BY <1>7 DEF q
  <1>9. \A k \in 1..Len(q) : q[k].kind = "label" BY <1>6, <1>8
  <1>10. Operations(q) /\ OpensNothing(q)
    BY <1>8, <1>9 DEF Operations, Listing, IsOperation, OpensNothing, Opens
  <1> QED BY <1>10 DEF q

\* Operations for milestones open no issue.
LEMMA MilestonesAsk ==
    ASSUME NEW plan, NEW present
    PROVE  /\ Operations(MilestoneOperations(plan, present))
           /\ OpensNothing(MilestoneOperations(plan, present))
  <1> DEFINE created(i) == [kind |-> "milestone", does |-> "create", title |-> Phases[i],
                            body |-> milestone_body(plan, Phases[i])]
             described(i) == [kind |-> "milestone", does |-> "describe", title |-> Phases[i],
                              body |-> milestone_body(plan, Phases[i])]
             s == [i \in DOMAIN Phases |->
                      LET body == milestone_body(plan, Phases[i])
                      IN  IF Phases[i] \notin DOMAIN present
                          THEN <<[kind |-> "milestone", does |-> "create", title |-> Phases[i],
                                  body |-> body]>>
                          ELSE IF present[Phases[i]] # body
                          THEN <<[kind |-> "milestone", does |-> "describe",
                                  title |-> Phases[i], body |-> body]>>
                          ELSE <<>>]
             X == {created(i) : i \in DOMAIN Phases} \cup {described(i) : i \in DOMAIN Phases}
             q == MilestoneOperations(plan, present)
  <1>1. q = FlattenSeq(s) BY DEF MilestoneOperations
  <1>2. Len(Phases) \in Nat /\ DOMAIN Phases = 1..Len(Phases) BY RoadmapAssumption
  <1>3. Len(s) = Len(Phases) /\ DOMAIN s = 1..Len(s) /\ (Len(s) = 0 => s = <<>>) BY <1>2
  <1>4. \A i \in DOMAIN Phases : s[i] \in {<<created(i)>>, <<described(i)>>, <<>>} OBVIOUS
  <1>5. \A i \in DOMAIN Phases : created(i) \in X /\ described(i) \in X OBVIOUS
  <1>6. \A o \in X : o.kind = "milestone" OBVIOUS
  <1> HIDE DEF X, s, created, described, q
  <1>7. <<>> \in Seq(X) /\ \A x \in X : <<x>> \in Seq(X) OBVIOUS
  <1>8. \A i \in 1..Len(s) : s[i] \in Seq(X) BY <1>2, <1>3, <1>4, <1>5, <1>7
  <1>9. ComesFrom(q, s, Len(s), X) BY <1>1, <1>2, <1>3, <1>8, Flattened
  <1>10. q \in Seq(X) BY <1>9 DEF ComesFrom
  <1>11. \A k \in 1..Len(q) : q[k].kind = "milestone" BY <1>6, <1>10
  <1>12. Operations(q) /\ OpensNothing(q)
    BY <1>10, <1>11 DEF Operations, Listing, IsOperation, OpensNothing, Opens
  <1> QED BY <1>12 DEF q

\* One list of operations after another.
LEMMA OperationsJoined ==
    ASSUME NEW q, NEW r, Operations(q), Operations(r), OpensNothing(q)
    PROVE  /\ Operations(q \o r)
           /\ OpensNothing(r) => OpensNothing(q \o r)
           /\ OpensOnce(r) => OpensOnce(q \o r)
           /\ \A all : OpensTheMissing(r, all) => OpensTheMissing(q \o r, all)
  <1> DEFINE t == q \o r
             n == Len(q)
  <1>1. /\ Listing(t) /\ n \in Nat /\ Len(r) \in Nat /\ Len(t) = n + Len(r)
        /\ \A k \in 1..n : t[k] = q[k]
        /\ \A k \in n + 1..Len(t) : k - n \in 1..Len(r) /\ t[k] = r[k - n]
    BY JoinOfListings DEF Operations
  <1> HIDE DEF t, n
  <1>2. ASSUME NEW k \in 1..Len(t)
        PROVE  \/ k \in 1..n /\ t[k] = q[k] /\ ~Opens(t[k]) /\ IsOperation(t[k])
               \/ k - n \in 1..Len(r) /\ t[k] = r[k - n] /\ IsOperation(t[k])
    <2>1. CASE k \in 1..n BY <1>1, <2>1 DEF OpensNothing, Operations, n
    <2>2. CASE k \notin 1..n
      <3>1. k \in n + 1..Len(t) BY <1>1, <2>2
      <3> QED BY <1>1, <3>1 DEF Operations
    <2> QED BY <2>1, <2>2
  <1>3. Operations(t) BY <1>1, <1>2 DEF Operations
  <1>4. OpensNothing(r) => OpensNothing(t) BY <1>2 DEF OpensNothing
  <1>5. OpensOnce(r) => OpensOnce(t)
    <2> SUFFICES ASSUME OpensOnce(r), NEW k \in 1..Len(t), NEW l \in 1..Len(t),
                        Opens(t[k]), Opens(t[l]), t[k].title = t[l].title
                 PROVE  k = l
      BY DEF OpensOnce
    <2>1. k - n \in 1..Len(r) /\ t[k] = r[k - n] /\ l - n \in 1..Len(r) /\ t[l] = r[l - n]
      BY <1>2
    <2>2. k - n = l - n BY <2>1 DEF OpensOnce
    <2> QED BY <1>1, <2>2
  <1>6. ASSUME NEW all, OpensTheMissing(r, all) PROVE OpensTheMissing(t, all)
    BY <1>2, <1>6 DEF OpensTheMissing
  <1> QED BY <1>3, <1>4, <1>5, <1>6 DEF t

\* Two lists of issues under the same titles, and a list with one issue more.
TitlesKept(all, new) ==
    /\ Listing(new) /\ Len(new) = Len(all)
    /\ \A i \in 1..Len(all) : new[i].title = all[i].title /\ "title" \in DOMAIN new[i]

TitleAdded(all, new, t) ==
    /\ Listing(new) /\ Len(new) = Len(all) + 1
    /\ \A i \in 1..Len(all) : new[i].title = all[i].title /\ "title" \in DOMAIN new[i]
    /\ new[Len(all) + 1].title = t /\ "title" \in DOMAIN new[Len(all) + 1]

TitlesApart(all) ==
    \A i, j \in 1..Len(all) : i # j => all[i].title # all[j].title \/ all[i].title = ByHand

\* What a run has to do still fits what the tracker holds.
FitsTracker(q, all) == OpensOnce(q) /\ OpensTheMissing(q, all)

\* Plan and tracker keep fitting when the titles stay.
LEMMA FitsWhenKept ==
    ASSUME NEW q, NEW all, NEW new, TitlesKept(all, new)
    PROVE  /\ FitsTracker(q, all) => FitsTracker(q, new)
           /\ TitlesApart(all) => TitlesApart(new)
  <1>1. FitsTracker(q, all) => FitsTracker(q, new) BY DEF FitsTracker, OpensTheMissing, TitlesKept
  <1>2. TitlesApart(all) => TitlesApart(new) BY DEF TitlesApart, TitlesKept
  <1> QED BY <1>1, <1>2

\* They keep fitting when a title is added that the plan does not open.
LEMMA FitsWhenAdded ==
    ASSUME NEW q, NEW all, NEW new, NEW t, Len(all) \in Nat, TitleAdded(all, new, t)
    PROVE  /\ FitsTracker(q, all) /\ (\A k \in 1..Len(q) : Opens(q[k]) => q[k].title # t) => FitsTracker(q, new)
           /\ TitlesApart(all) /\ (t = ByHand \/ \A i \in 1..Len(all) : all[i].title # t)
                => TitlesApart(new)
  <1>1. \A i \in 1..Len(new) : i \in 1..Len(all) \/ i = Len(all) + 1 BY DEF TitleAdded
  <1>2. ASSUME FitsTracker(q, all), \A k \in 1..Len(q) : Opens(q[k]) => q[k].title # t
        PROVE  FitsTracker(q, new)
    <2>1. ASSUME NEW k \in 1..Len(q), Opens(q[k]), NEW i \in 1..Len(new)
          PROVE  new[i].title # q[k].title
      <3>1. CASE i \in 1..Len(all) BY <1>2, <2>1, <3>1 DEF FitsTracker, OpensTheMissing, TitleAdded
      <3>2. CASE i = Len(all) + 1 BY <1>2, <2>1, <3>2 DEF TitleAdded
      <3> QED BY <1>1, <3>1, <3>2
    <2> QED BY <1>2, <2>1 DEF FitsTracker, OpensTheMissing
  <1>3. ASSUME TitlesApart(all), t = ByHand \/ \A i \in 1..Len(all) : all[i].title # t
        PROVE  TitlesApart(new)
    <2> SUFFICES ASSUME NEW i \in 1..Len(new), NEW j \in 1..Len(new), i # j,
                        new[i].title = new[j].title
                 PROVE  new[i].title = ByHand
      BY DEF TitlesApart
    <2>1. CASE i \in 1..Len(all) /\ j \in 1..Len(all)
      BY <1>3, <2>1 DEF TitlesApart, TitleAdded
    <2>2. CASE i = Len(all) + 1 /\ j \in 1..Len(all) BY <1>3, <2>2 DEF TitleAdded
    <2>3. CASE i \in 1..Len(all) /\ j = Len(all) + 1 BY <1>3, <2>3 DEF TitleAdded
    <2> QED BY <1>1, <2>1, <2>2, <2>3
  <1> QED BY <1>2, <1>3

\* What is left after the next operation.
LEMMA RestFits ==
    ASSUME NEW q, NEW all, Operations(q), q # <<>>
    PROVE  /\ Operations(Tail(q)) /\ IsOperation(Head(q))
           /\ FitsTracker(q, all) =>
                 /\ FitsTracker(Tail(q), all)
                 /\ Opens(Head(q)) =>
                       /\ \A k \in 1..Len(Tail(q)) :
                             Opens(Tail(q)[k]) => Tail(q)[k].title # Head(q).title
                       /\ \A i \in 1..Len(all) : all[i].title # Head(q).title
  <1> DEFINE t == Tail(q)
  <1>1. /\ Listing(t) /\ Len(q) \in Nat \ {0} /\ Len(t) = Len(q) - 1
        /\ \A k \in 1..Len(t) : k + 1 \in 1..Len(q) /\ t[k] = q[k + 1]
        /\ Head(q) = q[1]
    BY TailOfListing DEF Operations
  <1> HIDE DEF t
  <1>2. 1 \in 1..Len(q) BY <1>1
  <1>3. Operations(t) /\ IsOperation(Head(q)) BY <1>1, <1>2 DEF Operations
  <1>4. ASSUME FitsTracker(q, all) PROVE FitsTracker(t, all)
    <2>1. OpensOnce(t)
      <3> SUFFICES ASSUME NEW k \in 1..Len(t), NEW l \in 1..Len(t), Opens(t[k]), Opens(t[l]),
                          t[k].title = t[l].title
                   PROVE  k = l
        BY DEF OpensOnce
      <3>1. k + 1 = l + 1 BY <1>1, <1>4 DEF FitsTracker, OpensOnce
      <3> QED BY <3>1
    <2>2. OpensTheMissing(t, all) BY <1>1, <1>4 DEF FitsTracker, OpensTheMissing
    <2> QED BY <2>1, <2>2 DEF FitsTracker
  <1>5. ASSUME FitsTracker(q, all), Opens(Head(q)), NEW k \in 1..Len(t), Opens(t[k])
        PROVE  t[k].title # Head(q).title
    <2>1. k + 1 # 1 BY <1>1
    <2> QED BY <1>1, <1>2, <1>5, <2>1 DEF FitsTracker, OpensOnce
  <1>6. ASSUME FitsTracker(q, all), Opens(Head(q)), NEW i \in 1..Len(all)
        PROVE  all[i].title # Head(q).title
    BY <1>1, <1>2, <1>6 DEF FitsTracker, OpensTheMissing
  <1> QED BY <1>3, <1>4, <1>5, <1>6 DEF t

-----------------------------------------------------------------------------
RunIs(x) ==
    /\ x.at \in {"labels", "issues", "apply"} /\ {"at", "plan", "ops"} \subseteq DOMAIN x
    /\ x.plan \in Roadmaps /\ Operations(x.ops)
    /\ x.at \in {"labels", "issues"} => OpensNothing(x.ops)

NotRunning(x) == x.at \in {"idle", "ended", "blocked", "raised"}

SyncTypes ==
    /\ DOMAIN syncs = Runners /\ roadmap \in Roadmaps
    /\ Listing(issues) /\ \A i \in 1..Len(issues) : "title" \in DOMAIN issues[i]
    /\ \A r \in Runners : RunIs(syncs[r]) \/ NotRunning(syncs[r])

\* While no two runs overlap and the list of issues is whole, what the one run has still to
\* open is missing from the tracker.
SyncFits ==
    /\ ~overlapped => \A q, r \in Runners : Running(q) /\ Running(r) => q = r
    /\ ~overlapped /\ Len(issues) <= ListLimit =>
          /\ TitlesApart(issues)
          /\ \A r \in Runners : syncs[r].at = "apply" => FitsTracker(syncs[r].ops, issues)

SyncInv ==
    /\ SyncTypes /\ SyncFits
    /\ unattended \subseteq config.allowed_apply_contexts

\* What a sync that runs is.
LEMMA RunningIs ==
    ASSUME SyncTypes, NEW r \in Runners
    PROVE  /\ Running(r) <=> RunIs(syncs[r])
           /\ Running(r) <=> ~NotRunning(syncs[r])
  BY DEF SyncTypes, Running, RunIs, NotRunning

\* The same run, in the fields that count here.
SameRun(x, y) == y.at = x.at /\ (RunIs(x) => y.plan = x.plan /\ y.ops = x.ops /\ RunIs(y))

\* Who is told of an overlap keeps his run.
LEMMA DisturbKeeps ==
    ASSUME SyncTypes, NEW e
    PROVE  /\ DOMAIN Disturb(e) = Runners
           /\ \A q \in Runners : SameRun(syncs[q], Disturb(e)[q])
           /\ \A q \in Runners : q = e => Disturb(e)[q] = syncs[q]
  <1> SUFFICES ASSUME NEW q \in Runners PROVE SameRun(syncs[q], Disturb(e)[q]) BY DEF Disturb
  <1>1. CASE q # e /\ Running(q)
    <2>1. RunIs(syncs[q]) BY <1>1, RunningIs
    <2>2. Disturb(e)[q] = [syncs[q] EXCEPT !.clean = FALSE] BY <1>1 DEF Disturb
    <2>3. {"at", "plan", "ops"} \subseteq DOMAIN syncs[q] BY <2>1 DEF RunIs
    <2>4. /\ Disturb(e)[q].at = syncs[q].at /\ Disturb(e)[q].plan = syncs[q].plan
          /\ Disturb(e)[q].ops = syncs[q].ops /\ DOMAIN Disturb(e)[q] = DOMAIN syncs[q]
      BY <2>2, <2>3
    <2> QED BY <2>1, <2>4 DEF SameRun, RunIs
  <1>2. CASE ~(q # e /\ Running(q))
    <2>1. Disturb(e)[q] = syncs[q] BY <1>2 DEF Disturb
    <2> QED BY <2>1 DEF SameRun
  <1> QED BY <1>1, <1>2

\* A call that takes effect leaves the titles alone, or adds the one it opens.
LEMMA CallKeepsTitles ==
    ASSUME SyncTypes, NEW op, IsOperation(op), gh_call(op)
    PROVE  /\ Opens(op) => TitleAdded(issues, issues', op.title)
           /\ ~Opens(op) => TitlesKept(issues, issues')
  <1> DEFINE record == [title |-> op.title, body |-> op.to, labels |-> op.labels,
                        state |-> "OPEN", reason |-> ""]
  <1>1. PICK X : issues \in Seq(X) BY DEF SyncTypes, Listing
  <1>2. \A i \in 1..Len(issues) : "title" \in DOMAIN issues[i] BY DEF SyncTypes
  <1>3. ASSUME Opens(op) PROVE TitleAdded(issues, issues', op.title)
    <2>1. issues' = Append(issues, record) BY <1>3 DEF gh_call, Opens
    <2>2. record.title = op.title /\ "title" \in DOMAIN record OBVIOUS
    <2> HIDE DEF record
    <2>3. issues \in Seq(X \cup {record}) BY <1>1
    <2>4. /\ issues' \in Seq(X \cup {record}) /\ Len(issues') = Len(issues) + 1
          /\ \A i \in 1..Len(issues) : issues'[i] = issues[i]
          /\ issues'[Len(issues) + 1] = record
      BY <2>1, <2>3
    <2> QED BY <1>2, <2>2, <2>4 DEF TitleAdded, Listing
  <1>4. ASSUME ~Opens(op) PROVE TitlesKept(issues, issues')
    <2>1. DOMAIN issues = 1..Len(issues) /\ Len(issues) \in Nat BY <1>1
    <2>2. CASE op.kind # "issue"
      <3>1. issues' = issues BY <2>2 DEF gh_call
      <3> QED BY <1>1, <1>2, <3>1 DEF TitlesKept, Listing
    <2>3. CASE op.kind = "issue"
      <3>1. op.does \in {"relabel", "rewrite", "close"} BY <1>4, <2>3 DEF IsOperation, Opens
      <3>2. /\ DOMAIN issues' = DOMAIN issues /\ issues' = [i \in DOMAIN issues |-> issues'[i]]
            /\ \A i \in DOMAIN issues : /\ issues'[i].title = issues[i].title
                                        /\ "title" \in DOMAIN issues'[i]
        <4>1. CASE op.does = "relabel"
          <5>1. issues' = [issues EXCEPT ![op.number].labels = @ \cup op.to]
            BY <2>3, <4>1 DEF gh_call
          <5> QED BY <1>2, <2>1, <5>1
        <4>2. CASE op.does = "rewrite"
          <5>1. issues' = [issues EXCEPT ![op.number].body = op.to]
            BY <2>3, <4>2 DEF gh_call
          <5> QED BY <1>2, <2>1, <5>1
        <4>3. CASE op.does = "close"
          <5>1. issues' = [issues EXCEPT ![op.number].state = "CLOSED",
                                         ![op.number].reason = op.to]
            BY <2>3, <4>3 DEF gh_call
          <5> QED BY <1>2, <2>1, <5>1
        <4> QED BY <3>1, <4>1, <4>2, <4>3
      <3>3. issues' \in Seq({issues'[i] : i \in 1..Len(issues)}) BY <2>1, <3>2
      <3>4. Len(issues') = Len(issues) BY <2>1, <3>2, <3>3
      <3> QED BY <2>1, <3>2, <3>3, <3>4 DEF TitlesKept, Listing
    <2> QED BY <2>2, <2>3
  <1> QED BY <1>3, <1>4

\* A hand edit takes no title from the tracker, and adds at most one written by hand.
LEMMA EditsKeepTitles ==
    ASSUME SyncTypes, HandEdits
    PROVE  /\ TitlesKept(issues, issues') \/ TitleAdded(issues, issues', ByHand)
           /\ syncs' = Disturb("") /\ UNCHANGED <<config, roadmap, overlapped, unattended>>
  <1> DEFINE record == [title |-> ByHand, body |-> ByHand, labels |-> {}, state |-> "OPEN",
                        reason |-> ""]
  <1>1. PICK X : issues \in Seq(X) BY DEF SyncTypes, Listing
  <1>2. \A i \in 1..Len(issues) : "title" \in DOMAIN issues[i] BY DEF SyncTypes
  <1>3. DOMAIN issues = 1..Len(issues) /\ Len(issues) \in Nat BY <1>1
  <1>4. syncs' = Disturb("") /\ UNCHANGED <<config, roadmap, overlapped, unattended>>
    BY DEF HandEdits, EditTracker
  <1>5. CASE EditTracker(Append(issues, record))
    <2>1. issues' = Append(issues, record) BY <1>5 DEF EditTracker
    <2>2. record.title = ByHand /\ "title" \in DOMAIN record OBVIOUS
    <2> HIDE DEF record
    <2>3. issues \in Seq(X \cup {record}) BY <1>1
    <2>4. /\ issues' \in Seq(X \cup {record}) /\ Len(issues') = Len(issues) + 1
          /\ \A i \in 1..Len(issues) : issues'[i] = issues[i]
          /\ issues'[Len(issues) + 1] = record
      BY <2>1, <2>3
    <2>5. TitleAdded(issues, issues', ByHand) BY <1>2, <2>2, <2>4 DEF TitleAdded, Listing
    <2> QED BY <1>4, <2>5
  <1>6. ASSUME NEW i \in DOMAIN issues,
               \/ EditTracker([issues EXCEPT ![i].body = ByHand])
               \/ EditTracker([issues EXCEPT ![i].state = "OPEN", ![i].reason = "REOPENED"])
               \/ EditTracker([issues EXCEPT ![i].state = "CLOSED", ![i].reason = "NOT_PLANNED"])
               \/ EditTracker([issues EXCEPT ![i].labels = @ \cup {<<"", "bug">>}])
               \/ \E l \in issues[i].labels : EditTracker([issues EXCEPT ![i].labels = @ \ {l}])
        PROVE  TitlesKept(issues, issues')
    <2>1. \/ issues' = [issues EXCEPT ![i].body = ByHand]
          \/ issues' = [issues EXCEPT ![i].state = "OPEN", ![i].reason = "REOPENED"]
          \/ issues' = [issues EXCEPT ![i].state = "CLOSED", ![i].reason = "NOT_PLANNED"]
          \/ \E v : issues' = [issues EXCEPT ![i].labels = v]
      BY <1>6 DEF EditTracker
    <2>2. /\ DOMAIN issues' = DOMAIN issues /\ issues' = [k \in DOMAIN issues |-> issues'[k]]
          /\ \A k \in DOMAIN issues : /\ issues'[k].title = issues[k].title
                                      /\ "title" \in DOMAIN issues'[k]
      BY <1>2, <1>3, <2>1
    <2>3. issues' \in Seq({issues'[k] : k \in 1..Len(issues)}) BY <1>3, <2>2
    <2>4. Len(issues') = Len(issues) BY <1>3, <2>2, <2>3
    <2> QED BY <1>3, <2>2, <2>3, <2>4 DEF TitlesKept, Listing
  <1> QED BY <1>4, <1>5, <1>6 DEF HandEdits

\* A step that leaves every run where it is, and at most adds an issue by hand.
LEMMA EditsAreHarmless ==
    ASSUME SyncTypes, SyncFits, DOMAIN syncs' = Runners,
           \A q \in Runners : SameRun(syncs[q], syncs'[q]),
           roadmap' \in Roadmaps, overlapped' = overlapped,
           TitlesKept(issues, issues') \/ TitleAdded(issues, issues', ByHand)
    PROVE  SyncTypes' /\ SyncFits'
  <1>1. /\ Listing(issues') /\ Len(issues') >= Len(issues) /\ Len(issues) \in Nat
        /\ \A i \in 1..Len(issues') : "title" \in DOMAIN issues'[i]
    <2>1. Len(issues) \in Nat BY ListingIs DEF SyncTypes
    <2>2. CASE TitlesKept(issues, issues') BY <2>1, <2>2 DEF TitlesKept
    <2>3. CASE TitleAdded(issues, issues', ByHand) BY <2>1, <2>3 DEF TitleAdded
    <2> QED BY <2>1, <2>2, <2>3
  <1>2. Len(issues') \in Nat BY <1>1, ListingIs
  <1>3. \A q \in Runners : (RunIs(syncs[q]) => RunIs(syncs'[q]))
                           /\ (NotRunning(syncs[q]) => NotRunning(syncs'[q]))
    BY DEF SameRun, NotRunning
  <1>4. SyncTypes' BY <1>1, <1>3 DEF SyncTypes
  <1>5. \A q \in Runners : Running(q)' <=> Running(q) BY DEF SameRun, Running
  <1>6. ASSUME ~overlapped, Len(issues') <= ListLimit
        PROVE  /\ TitlesApart(issues')
               /\ \A q \in Runners : syncs'[q].at = "apply" => FitsTracker(syncs'[q].ops, issues')
    <2>1. Len(issues) <= ListLimit BY <1>1, <1>2, <1>6, ListLimitAssumption
    <2>2. TitlesApart(issues) BY <1>6, <2>1 DEF SyncFits
    <2>3. ASSUME NEW q \in Runners, syncs'[q].at = "apply"
          PROVE  FitsTracker(syncs[q].ops, issues) /\ syncs'[q].ops = syncs[q].ops
      <3>1. syncs[q].at = "apply" BY <2>3 DEF SameRun
      <3>2. RunIs(syncs[q]) BY <3>1 DEF SyncTypes, NotRunning
      <3> QED BY <1>6, <2>1, <3>1, <3>2 DEF SyncFits, SameRun
    <2>4. CASE TitlesKept(issues, issues') BY <2>2, <2>3, <2>4, FitsWhenKept
    <2>5. CASE TitleAdded(issues, issues', ByHand)
      <3>1. TitlesApart(issues') BY <1>1, <2>2, <2>5, FitsWhenAdded
      <3>2. ASSUME NEW q \in Runners, syncs'[q].at = "apply"
            PROVE  FitsTracker(syncs'[q].ops, issues')
        <4>1. FitsTracker(syncs[q].ops, issues) /\ syncs'[q].ops = syncs[q].ops BY <2>3, <3>2
        <4>2. \A k \in 1..Len(syncs[q].ops) : Opens(syncs[q].ops[k]) =>
                  syncs[q].ops[k].title # ByHand
          BY <4>1 DEF FitsTracker, OpensTheMissing
        <4> QED BY <1>1, <2>5, <4>1, <4>2, FitsWhenAdded
      <3> QED BY <3>1, <3>2
    <2> QED BY <2>4, <2>5
  <1>7. SyncFits' BY <1>5, <1>6 DEF SyncFits
  <1> QED BY <1>4, <1>7

\* A step of one run: what it has left fits the tracker it leaves.
LEMMA RunKeepsFitting ==
    ASSUME SyncTypes, SyncFits, NEW r \in Runners, Running(r), DOMAIN syncs' = Runners,
           \A q \in Runners : q # r => SameRun(syncs[q], syncs'[q]),
           RunIs(syncs'[r]) \/ NotRunning(syncs'[r]),
           UNCHANGED <<roadmap, overlapped>>,
           TitlesKept(issues, issues') \/ \E t : TitleAdded(issues, issues', t),
           ~overlapped /\ Len(issues) <= ListLimit /\ Len(issues') <= ListLimit =>
              /\ TitlesApart(issues')
              /\ syncs'[r].at = "apply" => FitsTracker(syncs'[r].ops, issues')
    PROVE  SyncTypes' /\ SyncFits'
  <1>1. /\ Listing(issues') /\ Len(issues') >= Len(issues) /\ Len(issues) \in Nat
        /\ \A i \in 1..Len(issues') : "title" \in DOMAIN issues'[i]
    <2>1. Len(issues) \in Nat BY ListingIs DEF SyncTypes
    <2>2. CASE TitlesKept(issues, issues') BY <2>1, <2>2 DEF TitlesKept
    <2>3. ASSUME NEW t, TitleAdded(issues, issues', t)
          PROVE  /\ Listing(issues') /\ Len(issues') >= Len(issues)
                 /\ \A i \in 1..Len(issues') : "title" \in DOMAIN issues'[i]
      BY <2>1, <2>3 DEF TitleAdded
    <2> QED BY <2>1, <2>2, <2>3
  <1>2. Len(issues') \in Nat BY <1>1, ListingIs
  <1>3. \A q \in Runners : q # r => (RunIs(syncs[q]) => RunIs(syncs'[q]))
                                    /\ (NotRunning(syncs[q]) => NotRunning(syncs'[q]))
    BY DEF SameRun, NotRunning
  <1>4. SyncTypes' BY <1>1, <1>3 DEF SyncTypes
  <1>5. \A q \in Runners : Running(q)' => Running(q)
    <2>1. \A q \in Runners : q # r => (Running(q)' <=> Running(q)) BY DEF SameRun, Running
    <2> QED BY <2>1
  <1>6. ~overlapped => \A p, q \in Runners : Running(p)' /\ Running(q)' => p = q
    BY <1>5 DEF SyncFits
  <1>7. ASSUME ~overlapped, Len(issues') <= ListLimit
        PROVE  /\ TitlesApart(issues')
               /\ \A q \in Runners : syncs'[q].at = "apply" => FitsTracker(syncs'[q].ops, issues')
    <2>1. Len(issues) <= ListLimit BY <1>1, <1>2, <1>7, ListLimitAssumption
    <2>2. \A q \in Runners : syncs'[q].at = "apply" => q = r
      <3> SUFFICES ASSUME NEW q \in Runners, syncs'[q].at = "apply" PROVE q = r OBVIOUS
      <3>1. Running(q)' BY DEF Running
      <3>2. Running(q) BY <1>5, <3>1
      <3> QED BY <1>7, <3>2 DEF SyncFits
    <2> QED BY <1>7, <2>1, <2>2
  <1>8. SyncFits' BY <1>6, <1>7 DEF SyncFits
  <1> QED BY <1>4, <1>8

\* A run that begins while another is under way overlaps it, and one that does not has
\* nothing to open yet.
LEMMA BeginSyncKeeps ==
    ASSUME SyncTypes, SyncFits, NEW r \in Runners, NEW c, BeginSync(r, c)
    PROVE  SyncTypes' /\ SyncFits'
  <1>1. /\ ~Running(r) /\ overlapped' = (overlapped \/ \E q \in Runners : Running(q))
        /\ UNCHANGED <<roadmap, issues>>
    BY DEF BeginSync, tracker
  <1>2. DOMAIN syncs = Runners BY DEF SyncTypes
  <1>3. /\ DOMAIN syncs' = Runners /\ \A q \in Runners : q # r => syncs'[q] = syncs[q]
        /\ syncs'[r].at = "labels" /\ syncs'[r].plan = roadmap
        /\ syncs'[r].ops = MilestoneOperations(roadmap, milestones)
        /\ {"at", "plan", "ops"} \subseteq DOMAIN syncs'[r]
    BY <1>2 DEF BeginSync
  <1>4. RunIs(syncs'[r])
    <2>1. /\ Operations(MilestoneOperations(roadmap, milestones))
          /\ OpensNothing(MilestoneOperations(roadmap, milestones))
      BY MilestonesAsk
    <2> QED BY <1>3, <2>1 DEF RunIs, SyncTypes
  <1>5. SyncTypes' BY <1>1, <1>3, <1>4 DEF SyncTypes
  <1>6. ASSUME ~overlapped', NEW q \in Runners, q # r PROVE ~Running(q) /\ ~Running(q)'
    <2>1. ~Running(q) BY <1>1, <1>6
    <2> QED BY <1>3, <1>6, <2>1 DEF Running
  <1>7. ASSUME ~overlapped', NEW q \in Runners PROVE syncs'[q].at # "apply"
    <2>1. CASE q = r BY <1>3, <2>1
    <2>2. CASE q # r
      <3>1. ~Running(q)' BY <1>6, <1>7, <2>2
      <3> QED BY <3>1 DEF Running
    <2> QED BY <2>1, <2>2
  <1>8. ~overlapped' => ~overlapped BY <1>1
  <1>9. SyncFits' BY <1>1, <1>6, <1>7, <1>8 DEF SyncFits
  <1> QED BY <1>5, <1>9

\* A run that ends, or is given up, opens nothing any more.
LEMMA EndKeeps ==
    ASSUME SyncTypes, SyncFits, NEW r \in Runners,
           ReadFails(r) \/ DryRun(r) \/ EndSync(r)
    PROVE  SyncTypes' /\ SyncFits'
  <1>1. Running(r) /\ UNCHANGED <<roadmap, overlapped, issues>>
    BY DEF ReadFails, DryRun, EndSync, Running, tracker
  <1>2. DOMAIN syncs = Runners BY DEF SyncTypes
  <1>3. RunIs(syncs[r]) BY <1>1, RunningIs
  <1>4. /\ DOMAIN syncs' = Runners /\ \A q \in Runners : q # r => syncs'[q] = syncs[q]
        /\ NotRunning(syncs'[r])
    <2>1. CASE ReadFails(r) BY <1>2, <1>3, <2>1 DEF ReadFails, NotRunning, RunIs
    <2>2. CASE DryRun(r) BY <1>2, <2>2 DEF DryRun, NotRunning, NoRun
    <2>3. CASE EndSync(r) BY <1>2, <2>3 DEF EndSync, NotRunning, NoRun
    <2> QED BY <2>1, <2>2, <2>3
  <1>5. \A q \in Runners : q # r => SameRun(syncs[q], syncs'[q]) BY <1>4 DEF SameRun
  <1>6. TitlesKept(issues, issues') BY <1>1 DEF TitlesKept, SyncTypes
  <1>7. ~overlapped /\ Len(issues) <= ListLimit => TitlesApart(issues')
    BY <1>1 DEF SyncFits
  <1>8. syncs'[r].at # "apply" BY <1>4 DEF NotRunning
  <1> QED BY <1>1, <1>4, <1>5, <1>6, <1>7, <1>8, RunKeepsFitting

\* Reading labels and issues, and the plan made from them, keep plan and tracker fitting.
LEMMA ReadsKeep ==
    ASSUME SyncTypes, SyncFits, NEW r \in Runners, ReadLabels(r) \/ ReadIssues(r)
    PROVE  SyncTypes' /\ SyncFits'
  <1>1. /\ Running(r) /\ UNCHANGED <<roadmap, overlapped, issues>>
        /\ syncs[r].at \in {"labels", "issues"}
    BY DEF ReadLabels, ReadIssues, Running, tracker
  <1>2. DOMAIN syncs = Runners BY DEF SyncTypes
  <1>3. RunIs(syncs[r]) BY <1>1, RunningIs
  <1>4. /\ Operations(syncs[r].ops) /\ OpensNothing(syncs[r].ops) /\ syncs[r].plan \in Roadmaps
        /\ {"at", "plan", "ops"} \subseteq DOMAIN syncs[r]
    BY <1>1, <1>3 DEF RunIs
  <1>5. TitlesKept(issues, issues') BY <1>1 DEF TitlesKept, SyncTypes
  <1>6. ~overlapped /\ Len(issues) <= ListLimit => TitlesApart(issues')
    BY <1>1 DEF SyncFits
  <1>7. CASE ReadLabels(r)
    <2> DEFINE q == LabelOperations(syncs[r].plan, labels)
    <2>1. syncs' = [syncs EXCEPT ![r].at = "issues", ![r].ops = @ \o q] BY <1>7 DEF ReadLabels
    <2> HIDE DEF q
    <2>2. /\ DOMAIN syncs' = Runners /\ \A p \in Runners : p # r => syncs'[p] = syncs[p]
          /\ syncs'[r].at = "issues" /\ syncs'[r].ops = syncs[r].ops \o q
          /\ syncs'[r].plan = syncs[r].plan /\ {"at", "plan", "ops"} \subseteq DOMAIN syncs'[r]
      BY <1>2, <1>4, <2>1
    <2>3. Operations(q) /\ OpensNothing(q) BY <1>4, LabelsAsk DEF q
    <2>4. Operations(syncs[r].ops \o q) /\ OpensNothing(syncs[r].ops \o q)
      BY <1>4, <2>3, OperationsJoined
    <2>5. RunIs(syncs'[r]) BY <1>4, <2>2, <2>4 DEF RunIs
    <2>6. \A p \in Runners : p # r => SameRun(syncs[p], syncs'[p]) BY <2>2 DEF SameRun
    <2>7. syncs'[r].at # "apply" BY <2>2
    <2> QED BY <1>1, <1>5, <1>6, <2>2, <2>5, <2>6, <2>7, RunKeepsFitting
  <1>8. CASE ReadIssues(r)
    <2> DEFINE q == IssueOperations(syncs[r].plan, issues)
    <2>1. syncs' = [syncs EXCEPT ![r].at = "apply", ![r].seen = Len(issues), ![r].ops = @ \o q]
      BY <1>8 DEF ReadIssues
    <2> HIDE DEF q
    <2>2. /\ DOMAIN syncs' = Runners /\ \A p \in Runners : p # r => syncs'[p] = syncs[p]
          /\ syncs'[r].at = "apply" /\ syncs'[r].ops = syncs[r].ops \o q
          /\ syncs'[r].plan = syncs[r].plan /\ {"at", "plan", "ops"} \subseteq DOMAIN syncs'[r]
      BY <1>2, <1>4, <2>1
    <2>3. /\ Operations(q) /\ OpensOnce(q)
          /\ Len(issues) <= ListLimit => OpensTheMissing(q, issues)
      <3>1. Len(issues) \in Nat /\ DOMAIN issues = 1..Len(issues) BY ListingIs DEF SyncTypes
      <3> QED BY <1>4, <3>1, PlanAsks DEF q
    <2>4. /\ Operations(syncs[r].ops \o q)
          /\ Len(issues) <= ListLimit => FitsTracker(syncs[r].ops \o q, issues)
      BY <1>4, <2>3, OperationsJoined DEF FitsTracker
    <2>5. RunIs(syncs'[r]) BY <1>4, <2>2, <2>4 DEF RunIs
    <2>6. \A p \in Runners : p # r => SameRun(syncs[p], syncs'[p]) BY <2>2 DEF SameRun
    <2>7. ~overlapped /\ Len(issues) <= ListLimit => FitsTracker(syncs'[r].ops, issues')
      BY <1>1, <2>2, <2>4
    <2> QED BY <1>1, <1>5, <1>6, <2>2, <2>5, <2>6, <2>7, RunKeepsFitting
  <1> QED BY <1>7, <1>8

\* An operation that is refused or fails is left out: what remains fits as it did.
LEMMA SkipKeeps ==
    ASSUME SyncTypes, SyncFits, NEW r \in Runners, RefuseOperation(r) \/ CallFails(r)
    PROVE  SyncTypes' /\ SyncFits'
  <1>1. /\ Running(r) /\ UNCHANGED <<roadmap, overlapped, issues>> /\ syncs[r].at = "apply"
        /\ syncs[r].ops # <<>>
        /\ syncs' = [syncs EXCEPT ![r].refused = TRUE, ![r].ops = Tail(@)]
    BY DEF RefuseOperation, CallFails, NextOperation, Running, tracker
  <1>2. DOMAIN syncs = Runners BY DEF SyncTypes
  <1>3. RunIs(syncs[r]) BY <1>1, RunningIs
  <1>4. /\ Operations(syncs[r].ops) /\ syncs[r].plan \in Roadmaps
        /\ {"at", "plan", "ops"} \subseteq DOMAIN syncs[r]
    BY <1>3 DEF RunIs
  <1>5. /\ DOMAIN syncs' = Runners /\ \A p \in Runners : p # r => syncs'[p] = syncs[p]
        /\ syncs'[r].at = "apply" /\ syncs'[r].ops = Tail(syncs[r].ops)
        /\ syncs'[r].plan = syncs[r].plan /\ {"at", "plan", "ops"} \subseteq DOMAIN syncs'[r]
    BY <1>1, <1>2, <1>4
  <1>6. /\ Operations(Tail(syncs[r].ops))
        /\ FitsTracker(syncs[r].ops, issues) => FitsTracker(Tail(syncs[r].ops), issues)
    BY <1>1, <1>4, RestFits
  <1>7. RunIs(syncs'[r]) BY <1>4, <1>5, <1>6 DEF RunIs
  <1>8. \A p \in Runners : p # r => SameRun(syncs[p], syncs'[p]) BY <1>5 DEF SameRun
  <1>9. TitlesKept(issues, issues') BY <1>1 DEF TitlesKept, SyncTypes
  <1>10. ~overlapped /\ Len(issues) <= ListLimit =>
            TitlesApart(issues') /\ FitsTracker(syncs'[r].ops, issues')
    BY <1>1, <1>5, <1>6 DEF SyncFits
  <1> QED BY <1>1, <1>5, <1>7, <1>8, <1>9, <1>10, RunKeepsFitting

\* A call that takes effect: the issue it opens was missing, and is not opened again.
LEMMA CallFitsWell ==
    ASSUME SyncTypes, SyncFits, NEW r \in Runners, NextOperation(r), gh_call(Head(syncs[r].ops))
    PROVE  /\ TitlesKept(issues, issues') \/ \E t : TitleAdded(issues, issues', t)
           /\ ~overlapped /\ Len(issues) <= ListLimit =>
                 TitlesApart(issues') /\ FitsTracker(Tail(syncs[r].ops), issues')
           /\ Operations(Tail(syncs[r].ops))
  <1>1. syncs[r].at = "apply" /\ syncs[r].ops # <<>> /\ Running(r)
    BY DEF NextOperation, Running
  <1>2. Operations(syncs[r].ops) BY <1>1, RunningIs DEF RunIs
  <1>3. PICK q : q = syncs[r].ops OBVIOUS
  <1>4. PICK op : op = Head(q) OBVIOUS
  <1>5. /\ Operations(Tail(q)) /\ IsOperation(op)
        /\ FitsTracker(q, issues) =>
              /\ FitsTracker(Tail(q), issues)
              /\ Opens(op) => /\ \A k \in 1..Len(Tail(q)) :
                                    Opens(Tail(q)[k]) => Tail(q)[k].title # op.title
                              /\ \A i \in 1..Len(issues) : issues[i].title # op.title
    BY <1>1, <1>2, <1>3, <1>4, RestFits
  <1>6. gh_call(op) BY <1>3, <1>4
  <1>7. /\ Opens(op) => TitleAdded(issues, issues', op.title)
        /\ ~Opens(op) => TitlesKept(issues, issues')
    BY <1>5, <1>6, CallKeepsTitles
  <1>8. ASSUME ~overlapped, Len(issues) <= ListLimit
        PROVE  TitlesApart(issues') /\ FitsTracker(Tail(q), issues')
    <2>1. TitlesApart(issues) /\ FitsTracker(q, issues) BY <1>1, <1>3, <1>8 DEF SyncFits
    <2>2. FitsTracker(Tail(q), issues) BY <1>5, <2>1
    <2>3. CASE Opens(op)
      <3>1. Len(issues) \in Nat BY ListingIs DEF SyncTypes
      <3>2. TitleAdded(issues, issues', op.title) BY <1>7, <2>3
      <3> QED BY <1>5, <2>1, <2>2, <2>3, <3>1, <3>2, FitsWhenAdded
    <2>4. CASE ~Opens(op) BY <1>7, <2>1, <2>2, <2>4, FitsWhenKept
    <2> QED BY <2>3, <2>4
  <1> QED BY <1>3, <1>5, <1>7, <1>8

\* So does a call that is answered,
LEMMA PerformKeeps ==
    ASSUME SyncTypes, SyncFits, NEW r \in Runners, Perform(r)
    PROVE  SyncTypes' /\ SyncFits'
  <1>1. /\ NextOperation(r) /\ gh_call(Head(syncs[r].ops)) /\ Running(r)
        /\ UNCHANGED <<roadmap, overlapped>> /\ syncs[r].at = "apply"
        /\ syncs' = [Disturb(r) EXCEPT ![r].ops = Tail(@)]
    BY DEF Perform, NextOperation, Running
  <1>2. /\ DOMAIN Disturb(r) = Runners /\ Disturb(r)[r] = syncs[r]
        /\ \A q \in Runners : SameRun(syncs[q], Disturb(r)[q])
    BY DisturbKeeps
  <1>3. /\ syncs[r].plan \in Roadmaps /\ {"at", "plan", "ops"} \subseteq DOMAIN syncs[r]
    BY <1>1, RunningIs DEF RunIs
  <1>4. /\ DOMAIN syncs' = Runners /\ \A p \in Runners : p # r => syncs'[p] = Disturb(r)[p]
        /\ syncs'[r].at = "apply" /\ syncs'[r].ops = Tail(syncs[r].ops)
        /\ syncs'[r].plan = syncs[r].plan /\ {"at", "plan", "ops"} \subseteq DOMAIN syncs'[r]
    BY <1>1, <1>2, <1>3
  <1>5. /\ TitlesKept(issues, issues') \/ \E t : TitleAdded(issues, issues', t)
        /\ ~overlapped /\ Len(issues) <= ListLimit =>
              TitlesApart(issues') /\ FitsTracker(Tail(syncs[r].ops), issues')
        /\ Operations(Tail(syncs[r].ops))
    BY <1>1, CallFitsWell
  <1>6. RunIs(syncs'[r]) BY <1>3, <1>4, <1>5 DEF RunIs
  <1>7. \A p \in Runners : p # r => SameRun(syncs[p], syncs'[p]) BY <1>2, <1>4
  <1> QED BY <1>1, <1>4, <1>5, <1>6, <1>7, RunKeepsFitting

\* and one that is given up on, whether it took effect or not.
LEMMA TimeoutKeeps ==
    ASSUME SyncTypes, SyncFits, NEW r \in Runners, CallTimesOut(r)
    PROVE  SyncTypes' /\ SyncFits'
  <1>1. /\ NextOperation(r) /\ (gh_call(Head(syncs[r].ops)) \/ UNCHANGED issues)
        /\ Running(r) /\ UNCHANGED <<roadmap, overlapped>>
        /\ syncs' = [Disturb(r) EXCEPT ![r] = [NoRun EXCEPT !.at = "raised"]]
    BY DEF CallTimesOut, NextOperation, Running, tracker
  <1>2. /\ DOMAIN Disturb(r) = Runners
        /\ \A q \in Runners : SameRun(syncs[q], Disturb(r)[q])
    BY DisturbKeeps
  <1>3. /\ DOMAIN syncs' = Runners /\ \A p \in Runners : p # r => syncs'[p] = Disturb(r)[p]
        /\ syncs'[r].at = "raised"
    BY <1>1, <1>2 DEF NoRun
  <1>4. \A p \in Runners : p # r => SameRun(syncs[p], syncs'[p]) BY <1>2, <1>3
  <1>5. NotRunning(syncs'[r]) /\ syncs'[r].at # "apply" BY <1>3 DEF NotRunning
  <1>6. /\ TitlesKept(issues, issues') \/ \E t : TitleAdded(issues, issues', t)
        /\ ~overlapped /\ Len(issues) <= ListLimit => TitlesApart(issues')
    <2>1. CASE gh_call(Head(syncs[r].ops)) BY <1>1, <2>1, CallFitsWell
    <2>2. CASE UNCHANGED issues
      <3>1. TitlesKept(issues, issues') BY <2>2 DEF TitlesKept, SyncTypes
      <3>2. ~overlapped /\ Len(issues) <= ListLimit => TitlesApart(issues')
        BY <2>2 DEF SyncFits
      <3> QED BY <3>1, <3>2
    <2> QED BY <1>1, <2>1, <2>2
  <1> QED BY <1>1, <1>3, <1>4, <1>5, <1>6, RunKeepsFitting

\* Only a context that the configuration allows changes the tracker unattended.
LEMMA ContextsKeep ==
    ASSUME SyncInv, SyncNext
    PROVE  unattended' \subseteq config'.allowed_apply_contexts
  <1>1. UNCHANGED config
    BY DEF SyncNext, BeginSync, ReadFails, ReadLabels, ReadIssues, DryRun, RefuseOperation,
           Perform, CallFails, CallTimesOut, EndSync, EditRoadmap, HandEdits, EditTracker
  <1>2. ASSUME NEW r \in Runners, Perform(r) \/ CallTimesOut(r)
        PROVE  unattended' \subseteq config.allowed_apply_contexts
    <2>1. /\ permitted(syncs[r].context, Head(syncs[r].ops).kind)
          /\ unattended' = unattended \cup ({syncs[r].context} \ {Checkout})
      BY <1>2 DEF Perform, CallTimesOut
    <2>2. syncs[r].context = Checkout \/ syncs[r].context \in config.allowed_apply_contexts
      BY <2>1 DEF permitted
    <2> QED BY <2>1, <2>2 DEF SyncInv
  <1>3. \/ \E r \in Runners : Perform(r) \/ CallTimesOut(r)
        \/ UNCHANGED unattended
    BY DEF SyncNext, BeginSync, ReadFails, ReadLabels, ReadIssues, DryRun, RefuseOperation,
           CallFails, EndSync, EditRoadmap, HandEdits, EditTracker
  <1> QED BY <1>1, <1>2, <1>3 DEF SyncInv

\* Every step keeps the invariant.
LEMMA SyncStep ==
    ASSUME SyncInv, SyncNext
    PROVE  SyncInv'
  <1>1. SyncTypes /\ SyncFits BY DEF SyncInv
  <1>2. ASSUME NEW r \in Runners, NEW c, BeginSync(r, c) PROVE SyncTypes' /\ SyncFits'
    BY <1>1, <1>2, BeginSyncKeeps
  <1>3. ASSUME NEW r \in Runners,
               \/ ReadFails(r) \/ ReadLabels(r) \/ ReadIssues(r) \/ DryRun(r)
               \/ RefuseOperation(r) \/ Perform(r) \/ CallFails(r) \/ CallTimesOut(r)
               \/ EndSync(r)
        PROVE  SyncTypes' /\ SyncFits'
    BY <1>1, <1>3, EndKeeps, ReadsKeep, SkipKeeps, PerformKeeps, TimeoutKeeps
  <1>4. ASSUME NEW plan \in Roadmaps, EditRoadmap(plan) PROVE SyncTypes' /\ SyncFits'
    <2>1. /\ roadmap' = plan /\ syncs' = Disturb("") /\ UNCHANGED <<issues, overlapped>>
      BY <1>4 DEF EditRoadmap, tracker
    <2>2. DOMAIN syncs' = Runners /\ \A q \in Runners : SameRun(syncs[q], syncs'[q])
      BY <1>1, <2>1, DisturbKeeps
    <2>3. TitlesKept(issues, issues') BY <1>1, <2>1 DEF TitlesKept, SyncTypes
    <2>4. roadmap' \in Roadmaps /\ overlapped' = overlapped BY <2>1
    <2> QED BY <1>1, <2>2, <2>3, <2>4, EditsAreHarmless
  <1>5. ASSUME HandEdits PROVE SyncTypes' /\ SyncFits'
    <2>1. /\ TitlesKept(issues, issues') \/ TitleAdded(issues, issues', ByHand)
          /\ syncs' = Disturb("") /\ UNCHANGED <<config, roadmap, overlapped, unattended>>
      BY <1>1, <1>5, EditsKeepTitles
    <2>2. DOMAIN syncs' = Runners /\ \A q \in Runners : SameRun(syncs[q], syncs'[q])
      BY <1>1, <2>1, DisturbKeeps
    <2>3. roadmap' \in Roadmaps /\ overlapped' = overlapped BY <1>1, <2>1 DEF SyncTypes
    <2> QED BY <1>1, <2>1, <2>2, <2>3, EditsAreHarmless
  <1>6. SyncTypes' /\ SyncFits' BY <1>2, <1>3, <1>4, <1>5 DEF SyncNext
  <1> QED BY <1>6, ContextsKeep DEF SyncInv

\* The empty tracker has it.
LEMMA SyncBegins ==
    ASSUME SyncInit
    PROVE  SyncInv
  <1>1. /\ roadmap \in Roadmaps /\ issues = <<>> /\ syncs = [r \in Runners |-> NoRun]
        /\ overlapped = FALSE /\ unattended = {}
    BY DEF SyncInit
  <1>2. Listing(issues) /\ Len(issues) = 0
    <2>1. <<>> \in Seq({}) /\ Len(<<>>) = 0 OBVIOUS
    <2> QED BY <1>1, <2>1 DEF Listing
  <1>3. \A r \in Runners : syncs[r].at = "idle" BY <1>1 DEF NoRun
  <1>4. SyncTypes BY <1>1, <1>2, <1>3 DEF SyncTypes, NotRunning
  <1>5. SyncFits BY <1>2, <1>3 DEF SyncFits, Running, TitlesApart
  <1> QED BY <1>1, <1>4, <1>5 DEF SyncInv

\* The invariant says what the projection has to.
LEMMA SyncMeans ==
    ASSUME SyncInv
    PROVE  OneIssuePerPackage /\ OnlyTheReleaseWorkflow
  <1>1. DOMAIN issues = 1..Len(issues) BY ListingIs DEF SyncInv, SyncTypes
  <1>2. OneIssuePerPackage BY <1>1 DEF SyncInv, SyncFits, TitlesApart, OneIssuePerPackage
  <1>3. OnlyTheReleaseWorkflow
    <2> SUFFICES ASSUME local_drift = {} PROVE unattended \subseteq {"release-workflow"}
      BY DEF OnlyTheReleaseWorkflow
    <2>1. "SYNC-CONTEXT" \notin local_drift OBVIOUS
    <2>2. config.allowed_apply_contexts \subseteq {"release-workflow"} BY <2>1 DEF local_drift
    <2> QED BY <2>2 DEF SyncInv
  <1> QED BY <1>2, <1>3

\* sync.py: with plans that pass their check, a package has one issue as long as runs do not
\* overlap and the list of issues is whole, through calls that fail, calls that took effect
\* after their run had given up on them, and hand edits; and with a configuration that the
\* drift check passes, only the release workflow changes the tracker unattended.
THEOREM ProjectionCorrect ==
    PartsSpec => [](part = "sync" => OneIssuePerPackage /\ OnlyTheReleaseWorkflow)
  <1> DEFINE Inv == part = "sync" => SyncInv
  <1>1. PartsInit => Inv BY SyncBegins DEF PartsInit
  <1>2. ASSUME Inv, [PartsNext]_<<part, vars, tool_vars, portal_vars, temperature_vars,
                        bus_vars, mqtt_vars, registry_vars, time_vars, scenario_vars, facility,
                        config_vars, versions, archive_vars, sync_vars, rules_vars, thread_vars>>
        PROVE  Inv'
    <2>1. UNCHANGED part BY <1>2, PartRuns
    <2>2. ASSUME part = "sync" PROVE SyncNext \/ UNCHANGED sync_vars
      BY <1>2, <2>2 DEF PartsNext, OthersStill
    <2>3. ASSUME SyncInv, UNCHANGED sync_vars PROVE SyncInv'
      <3>1. UNCHANGED <<config, roadmap, issues, syncs, overlapped, unattended>>
        BY <2>3 DEF sync_vars, tracker
      <3>2. SyncTypes' BY <2>3, <3>1 DEF SyncInv, SyncTypes
      <3>3. SyncFits' BY <2>3, <3>1 DEF SyncInv, SyncFits, Running
      <3> QED BY <2>3, <3>1, <3>2, <3>3 DEF SyncInv
    <2> QED BY <1>2, <2>1, <2>2, <2>3, SyncStep
  <1>3. Inv => (part = "sync" => OneIssuePerPackage /\ OnlyTheReleaseWorkflow) BY SyncMeans
  <1> QED BY <1>1, <1>2, <1>3, PTL DEF PartsSpec
==============================================================================
