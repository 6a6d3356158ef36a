------------------------- MODULE ClientConfigProofs -------------------------
(***************************************************************************)
(* Proofs about ClientConfig, for all configurations, shared objects, URLs *)
(* and numbers of clients: every option is what OptionsInEffect says, and  *)
(* a new client changes nothing for the others but what they share.        *)
(*                                                                         *)
(* The argument: a caller's object holds, under each key, what the last    *)
(* creation that refers to the object and names the key has written; an    *)
(* object that a client made for itself is written by no other creation;   *)
(* and what is read once was read when the creation was the last one.      *)
(***************************************************************************)
EXTENDS ClientConfig, WellFoundedInduction, TLAPS

-----------------------------------------------------------------------------
(* The operators of the model                                               *)

\* In f overlaid with g, the keys of g are those of g.
LEMMA GetOverlay ==
    ASSUME NEW f, NEW g, NEW key
    PROVE  Get(Overlay(f, g), key) = IF key \in DOMAIN g THEN g[key] ELSE Get(f, key)
BY DEF Get, Overlay

\* An option has one name or two: PathOf makes no other paths.
LEMMA PathShape ==
    ASSUME NEW url, NEW p \in DOMAIN loadConfigOptionsFromURL(url)
    PROVE  (\E a : p = <<a>>) \/ (\E a, b : p = <<a, b>>)
<1>1. CASE p \in UserOptions
    BY <1>1 DEF UserOptions
<1>2. CASE \E i \in 1..Len(url.params) : p = PathOf(url.params[i])
    <2>1. PICK i \in 1..Len(url.params) : p = PathOf(url.params[i])
        BY <1>2
    <2>2. CASE url.params[i].prefix # ""
        BY <2>1, <2>2 DEF PathOf
    <2>3. CASE url.params[i].prefix = ""
        <3> DEFINE name == url.params[i].name
        <3>1. CASE name \in DOMAIN Known
            <4>1. p = Known[name]
                BY <2>1, <2>3, <3>1 DEF PathOf
            <4> QED BY <4>1, <3>1 DEF Known
        <3>2. CASE name \notin DOMAIN Known /\ name \in DOMAIN NodeOnly
            <4>1. p = NodeOnly[name]
                BY <2>1, <2>3, <3>2 DEF PathOf
            <4> QED BY <4>1, <3>2 DEF NodeOnly
        <3>3. CASE name \notin DOMAIN Known /\ name \notin DOMAIN NodeOnly
            BY <2>1, <2>3, <3>3 DEF PathOf
        <3> QED BY <3>1, <3>2, <3>3
    <2> QED BY <2>2, <2>3
<1> QED BY <1>1, <1>2 DEF loadConfigOptionsFromURL

\* What a null leaves of the options
LEMMA BeforeNullFacts ==
    ASSUME NEW url
    PROVE  /\ DOMAIN BeforeNull(url) \subseteq DOMAIN loadConfigOptionsFromURL(url)
           /\ \A p \in DOMAIN BeforeNull(url) :
                 BeforeNull(url)[p] = loadConfigOptionsFromURL(url)[p]
BY DEF BeforeNull

\* The keys of a nested option are the second names of its paths.
LEMMA NestedOptionsFacts ==
    ASSUME NEW url, NEW name, NEW key
    PROVE  LET options == BeforeNull(url)
           IN  /\ key \in DOMAIN NestedOptions(options, name) <=> <<name, key>> \in DOMAIN options
               /\ key \in DOMAIN NestedOptions(options, name) =>
                     NestedOptions(options, name)[key] = options[<<name, key>>]
<1> DEFINE options == BeforeNull(url)
<1>1. \A p \in DOMAIN options : (\E a : p = <<a>>) \/ (\E a, b : p = <<a, b>>)
    BY PathShape, BeforeNullFacts
<1> HIDE DEF options
<1>2. ASSUME <<name, key>> \in DOMAIN options
      PROVE  key \in DOMAIN NestedOptions(options, name)
    <2>1. <<name, key>> \in {q \in DOMAIN options : Len(q) = 2 /\ q[1] = name}
        BY <1>2
    <2> QED BY <2>1 DEF NestedOptions
<1>3. ASSUME key \in DOMAIN NestedOptions(options, name)
      PROVE  <<name, key>> \in DOMAIN options
    <2>1. PICK p \in DOMAIN options : Len(p) = 2 /\ p[1] = name /\ p[2] = key
        BY <1>3 DEF NestedOptions
    <2> QED BY <2>1, <1>1
<1>4. ASSUME key \in DOMAIN NestedOptions(options, name)
      PROVE  NestedOptions(options, name)[key] = options[<<name, key>>]
    BY <1>4 DEF NestedOptions
<1> QED BY <1>2, <1>3, <1>4 DEF options

\* A URL that names a key of a nested option has options for it.
LEMMA NoOptionsOfName ==
    ASSUME NEW url, NEW name, NEW key, <<name, key>> \in DOMAIN BeforeNull(url)
    PROVE  NestedOptions(BeforeNull(url), name) # Empty
BY NestedOptionsFacts DEF Empty

\* The plain options are the paths of one name.
LEMMA PlainOptionsFacts ==
    ASSUME NEW options, NEW name \in PlainNames
    PROVE  /\ name \in DOMAIN PlainOptions(options) <=> <<name>> \in DOMAIN options
           /\ name \in DOMAIN PlainOptions(options) =>
                 PlainOptions(options)[name] = options[<<name>>]
BY DEF PlainOptions

\* A set of creations that is not empty has a last one.
LEMMA Greatest ==
    ASSUME NEW n \in Nat, NEW S \in SUBSET (1..n), S # {}
    PROVE  \E m \in S : \A k \in S : k <= m
<1> DEFINE T == {n - k : k \in S}
           R == {p \in Nat \X Nat : p[1] < p[2]}
<1>1. IsWellFoundedOn(R, Nat)
    BY NatLessThanWellFounded, Zenon DEF OpToRel
<1>2. T \subseteq Nat /\ T # {}
    <2>1. \A k \in S : k \in Nat /\ k <= n
        OBVIOUS
    <2>2. \A k \in S : n - k \in Nat
        BY <2>1
    <2> QED BY <2>2
<1>3. PICK t \in T : \A u \in T : <<u, t>> \notin R
    <2> HIDE DEF T, R
    <2> QED BY <1>1, <1>2, WFMin
<1>4. \A u \in T : t <= u
    <2>1. ASSUME NEW u \in T PROVE t <= u
        <3>1. u \in Nat /\ t \in Nat
            BY <1>2
        <3>2. <<u, t>> \notin R
            BY <1>3
        <3> HIDE DEF T
        <3>3. ~(u < t)
            BY <3>1, <3>2
        <3> QED BY <3>1, <3>3
    <2> QED BY <2>1
<1>5. PICK m \in S : t = n - m
    OBVIOUS
<1>6. \A k \in S : n - k \in T
    OBVIOUS
<1>7. \A k \in S : t <= n - k
    BY <1>4, <1>6
<1> HIDE DEF T
<1>8. n \in Int /\ m \in Int /\ t = n - m /\ \A k \in S : k \in Int
    BY <1>5
<1> QED BY <1>7, <1>8, <1>5

-----------------------------------------------------------------------------
(* The merge of call n: config, the options of url, and the objects as they *)
(* are before it.                                                           *)

NestedAfter(config, url, n) == MergedNested(config.nested, BeforeNull(url), n)
ObjectsAfter(config, url, n) == MergedObjects(config.nested, BeforeNull(url), n)
RefAfter(config, name, n) == RefOrNew(config.nested, name, n)

\* A merge refers to the objects of the configuration and to those it makes.
LEMMA NestedAfterFacts ==
    ASSUME NEW config \in Configs, NEW url, NEW n
    PROVE  /\ DOMAIN NestedAfter(config, url, n) \subseteq Nested
           /\ DOMAIN config.nested \subseteq DOMAIN NestedAfter(config, url, n)
           /\ \A name \in DOMAIN NestedAfter(config, url, n) :
                 NestedAfter(config, url, n)[name] = RefAfter(config, name, n)
           /\ \A name \in Nested : \A key : <<name, key>> \in DOMAIN BeforeNull(url) =>
                 name \in DOMAIN NestedAfter(config, url, n)
           /\ \A name \in DOMAIN NestedAfter(config, url, n) :
                 \/ name \in DOMAIN config.nested
                 \/ RefAfter(config, name, n) = <<n, name>>
<1>1. DOMAIN config.nested \subseteq Nested
    BY ConfigAssumption
<1> QED BY <1>1, NoOptionsOfName DEF NestedAfter, MergedNested, RefAfter, RefOrNew

\* Two nested options are never one object.
LEMMA RefsDiffer ==
    ASSUME NEW config \in Configs, NEW url, NEW n \in 1..MaxCreations,
           NEW name1 \in Nested, NEW name2 \in Nested,
           RefAfter(config, name1, n) = RefAfter(config, name2, n)
    PROVE  name1 = name2
<1>1. CASE name1 \in DOMAIN config.nested /\ name2 \in DOMAIN config.nested
    BY <1>1, ConfigAssumption DEF RefAfter, RefOrNew
<1>2. CASE name1 \notin DOMAIN config.nested /\ name2 \notin DOMAIN config.nested
    BY <1>2 DEF RefAfter, RefOrNew
<1>3. CASE name1 \in DOMAIN config.nested /\ name2 \notin DOMAIN config.nested
    <2>1. config.nested[name1] \in DOMAIN Contents /\ <<n, name2>> \notin DOMAIN Contents
        BY <1>3, ConfigAssumption
    <2> QED BY <1>3, <2>1 DEF RefAfter, RefOrNew
<1>4. CASE name1 \notin DOMAIN config.nested /\ name2 \in DOMAIN config.nested
    <2>1. config.nested[name2] \in DOMAIN Contents /\ <<n, name1>> \notin DOMAIN Contents
        BY <1>4, ConfigAssumption
    <2> QED BY <1>4, <2>1 DEF RefAfter, RefOrNew
<1> QED BY <1>1, <1>2, <1>3, <1>4

\* A merge removes no object and makes only those it refers to.
LEMMA ObjectsAfterDomain ==
    ASSUME NEW config \in Configs, NEW url, NEW n \in 1..MaxCreations
    PROVE  /\ DOMAIN objects \subseteq DOMAIN ObjectsAfter(config, url, n)
           /\ \A ref \in DOMAIN ObjectsAfter(config, url, n) :
                 \/ ref \in DOMAIN objects
                 \/ \E name \in DOMAIN NestedAfter(config, url, n) :
                       ref = RefAfter(config, name, n)
           /\ \A name \in DOMAIN NestedAfter(config, url, n) :
                 RefAfter(config, name, n) \in DOMAIN ObjectsAfter(config, url, n)
<1>1. DOMAIN ObjectsAfter(config, url, n) = DOMAIN objects \cup
          {NestedAfter(config, url, n)[name] : name \in DOMAIN NestedAfter(config, url, n)}
    BY DEF ObjectsAfter, MergedObjects, NestedAfter
<1>2. \A name \in DOMAIN NestedAfter(config, url, n) :
          NestedAfter(config, url, n)[name] = RefAfter(config, name, n)
    BY NestedAfterFacts
<1> QED BY <1>1, <1>2

\* An option that the URL gives is written to its object, and the other keys stay.
LEMMA ObjectWritten ==
    ASSUME NEW config \in Configs, NEW url, NEW n \in 1..MaxCreations,
           NEW name \in DOMAIN NestedAfter(config, url, n), NEW key
    PROVE  LET ref == RefAfter(config, name, n)
           IN  Get(ObjectsAfter(config, url, n)[ref], key) =
                   IF <<name, key>> \in DOMAIN BeforeNull(url) THEN BeforeNull(url)[<<name, key>>]
                   ELSE IF ref \in DOMAIN objects THEN Get(objects[ref], key) ELSE "undefined"
<1> DEFINE merged == NestedAfter(config, url, n)
           ref == RefAfter(config, name, n)
           options == BeforeNull(url)
           nameOf == CHOOSE k \in DOMAIN merged : merged[k] = ref
           old == IF ref \in DOMAIN objects THEN objects[ref] ELSE Empty
<1>1. merged[name] = ref
    BY NestedAfterFacts
<1>2. nameOf \in DOMAIN merged /\ merged[nameOf] = ref
    BY <1>1
<1>3. nameOf = name
    <2>1. nameOf \in Nested /\ name \in Nested /\ RefAfter(config, nameOf, n) = ref
        BY <1>2, NestedAfterFacts
    <2> QED BY <2>1, RefsDiffer
<1>4. ObjectsAfter(config, url, n)[ref] = Overlay(old, NestedOptions(options, nameOf))
    BY <1>1 DEF ObjectsAfter, MergedObjects, NestedAfter
<1>5. Get(old, key) = IF ref \in DOMAIN objects THEN Get(objects[ref], key) ELSE "undefined"
    BY DEF Get, Empty
<1> HIDE DEF merged, nameOf, old, options
<1>6. Get(ObjectsAfter(config, url, n)[ref], key) =
          IF key \in DOMAIN NestedOptions(options, name)
          THEN NestedOptions(options, name)[key] ELSE Get(old, key)
    BY <1>3, <1>4, GetOverlay
<1>7. /\ key \in DOMAIN NestedOptions(options, name) <=> <<name, key>> \in DOMAIN options
      /\ key \in DOMAIN NestedOptions(options, name) =>
            NestedOptions(options, name)[key] = options[<<name, key>>]
    BY NestedOptionsFacts DEF options
<1> QED BY <1>5, <1>6, <1>7 DEF options

\* An object that the merge does not refer to stays as it is.
LEMMA ObjectKept ==
    ASSUME NEW config \in Configs, NEW url, NEW n \in 1..MaxCreations,
           NEW ref \in DOMAIN objects,
           \A name \in DOMAIN NestedAfter(config, url, n) : ref # RefAfter(config, name, n)
    PROVE  ObjectsAfter(config, url, n)[ref] = objects[ref]
<1>1. ref \notin {NestedAfter(config, url, n)[name] : name \in DOMAIN NestedAfter(config, url, n)}
    BY NestedAfterFacts
<1> QED BY <1>1 DEF ObjectsAfter, MergedObjects, NestedAfter

-----------------------------------------------------------------------------
(* The invariant                                                            *)

\* Creation j has written a key of an object, which it knows by that name.
WroteBy(creation, name, ref, key) ==
    /\ name \in DOMAIN creation.config.nested
    /\ creation.config.nested[name] = ref
    /\ ~URLRefused(creation.url, creation.platform)
    /\ <<name, key>> \in DOMAIN BeforeNull(creation.url)
Wrote(j, name, ref, key) == WroteBy(creations[j], name, ref, key)

AllKeys == Keys \cup {"request", "response", "level", "enabled", "idle_socket_ttl"}
PerRequest == {"clickhouse_settings", "http_headers"}

CreationsInv ==
    /\ creations \in Seq({creations[i] : i \in DOMAIN creations})
    /\ Len(creations) <= MaxCreations
    /\ \A i \in 1..Len(creations) : creations[i].config \in Configs

\* The objects are those of the callers and those the calls have made.
ObjectsInv ==
    /\ DOMAIN Contents \subseteq DOMAIN objects
    /\ \A ref \in DOMAIN objects : ref \notin DOMAIN Contents =>
           \E j \in 1..Len(creations), name \in Nested : ref = <<j, name>>

\* A caller's object holds what was written to it last, or what it held.
UntouchedInv ==
    \A ref \in DOMAIN Contents, key \in AllKeys :
        (\A j \in 1..Len(creations), name \in Nested : ~Wrote(j, name, ref, key))
            => Get(objects[ref], key) = Get(Contents[ref], key)
LastWriteInv ==
    \A ref \in DOMAIN Contents, key \in AllKeys, name \in Nested :
        \A j \in 1..Len(creations) :
            /\ Wrote(j, name, ref, key)
            /\ \A k \in 1..Len(creations) : Wrote(k, name, ref, key) => k <= j
            => Get(objects[ref], key) = loadConfigOptionsFromURL(creations[j].url)[<<name, key>>]

\* A client is only made when the whole URL was merged.
CompleteInv ==
    \A i \in 1..Len(creations) : creations[i].client # {} =>
        /\ ~URLRefused(creations[i].url, creations[i].platform)
        /\ DOMAIN BeforeNull(creations[i].url) = DOMAIN loadConfigOptionsFromURL(creations[i].url)

\* The settings and headers of a client are the caller's objects or its own,
\* and nobody else writes to those.
ClientRefsInv ==
    \A i \in 1..Len(creations) : \A client \in creations[i].client : \A name \in PerRequest :
        /\ client[name] = RefAfter(creations[i].config, name, i)
        /\ client[name] \in DOMAIN objects
OwnObjectsInv ==
    \A i \in 1..Len(creations), name \in PerRequest, key \in AllKeys :
        creations[i].client # {} /\ name \notin DOMAIN creations[i].config.nested =>
            Get(objects[<<i, name>>], key) =
                IF <<name, key>> \in DOMAIN loadConfigOptionsFromURL(creations[i].url)
                THEN loadConfigOptionsFromURL(creations[i].url)[<<name, key>>]
                ELSE "undefined"

\* What is read once, when the client is made
ReadOncePaths ==
    {path \in AllPaths : path # <<"session_id">> /\ path[1] \notin PerRequest}
ReadOnceInv ==
    \A i \in 1..Len(creations) : \A client \in creations[i].client : \A path \in ReadOncePaths :
        Effective(client, path) = Normal(path, OrElse(Expected(i, path), DefaultOf(path)))

ConfigInv ==
    /\ CreationsInv /\ ObjectsInv /\ UntouchedInv /\ LastWriteInv
    /\ CompleteInv /\ ClientRefsInv /\ OwnObjectsInv /\ ReadOnceInv

-----------------------------------------------------------------------------
(* What one creation changes.  Whether it is refused, fails or makes a      *)
(* client, it appends itself and writes its URL's options.                  *)

\* Appending to a sequence, whatever its elements are.
LEMMA AppendAny ==
    ASSUME NEW s, NEW S, s \in Seq(S), NEW e
    PROVE  /\ Len(Append(s, e)) = Len(s) + 1
           /\ DOMAIN Append(s, e) = 1..(Len(s) + 1)
           /\ \A i \in 1..Len(s) : Append(s, e)[i] = s[i]
           /\ Append(s, e)[Len(s) + 1] = e
           /\ Append(s, e) \in Seq({Append(s, e)[i] : i \in DOMAIN Append(s, e)})
           /\ Len(s) \in Nat /\ DOMAIN s = 1..Len(s)
<1> DEFINE t == Append(s, e)
           T == S \cup {e}
<1>1. s \in Seq(T) /\ e \in T
    OBVIOUS
<1>2. /\ Len(t) = Len(s) + 1 /\ t \in Seq(T) /\ DOMAIN t = 1..Len(t)
      /\ \A i \in 1..Len(s) : t[i] = s[i]
      /\ t[Len(s) + 1] = e
    BY <1>1
<1>3. Len(s) \in Nat /\ DOMAIN s = 1..Len(s)
    OBVIOUS
<1> HIDE DEF t
<1>4. \A i \in 1..Len(t) : t[i] \in {t[j] : j \in DOMAIN t}
    BY <1>2
<1>5. t = [i \in 1..Len(t) |-> t[i]]
    BY <1>2
<1>6. t \in Seq({t[j] : j \in DOMAIN t})
    BY <1>2, <1>3, <1>4, <1>5
<1> QED BY <1>2, <1>3, <1>6 DEF t

ClientMade(config, url, platform, n) ==
    LET m == mergeConfigs(config, BeforeNull(url), n)
    IN  Overlay(getConnectionParams(m, url, platform, n),
                [session_id |-> Get(config.plain, "session_id"),
                 role |-> Get(config.plain, "role")])

\* The settings and the headers that the client refers to
UsedBy(config, url, platform, n) ==
    {ClientMade(config, url, platform, n).clickhouse_settings,
     ClientMade(config, url, platform, n).http_headers}

\* Call n of a merging creation
Merges(config, url, platform, n) ==
    /\ ~URLRefused(url, platform)
    /\ \E clients :
        /\ creations' = Append(creations,
               Creation(config, url, platform, clients = {}, clients))
        /\ \/ clients = {} /\ objects' = ObjectsAfter(config, url, n)
           \/ /\ clients = {ClientMade(config, url, platform, n)}
              /\ DOMAIN BeforeNull(url) = DOMAIN loadConfigOptionsFromURL(url)
              /\ objects' = Overlay([ref \in UsedBy(config, url, platform, n) |-> Empty],
                                    ObjectsAfter(config, url, n))

\* CreationMerged in terms of what the merge leaves behind.
LEMMA CreationMergedMerges ==
    ASSUME NEW config, NEW url, NEW platform, CreationMerged(config, url, platform)
    PROVE  Merges(config, url, platform, Len(creations) + 1)
<1> DEFINE n == Len(creations) + 1
           options == BeforeNull(url)
           m == mergeConfigs(config, options, n)
           params == getConnectionParams(m, url, platform, n)
           failed == \/ DOMAIN options # DOMAIN loadConfigOptionsFromURL(url)
                     \/ BothAuth(m.plain)
                     \/ ~CodecSupported(params.request, platform)
                     \/ ~CodecSupported(params.response, platform)
           client == ClientMade(config, url, platform, n)
           clients == IF failed THEN {} ELSE {client}
           used == {client.clickhouse_settings, client.http_headers}
<1>1. m.objects = ObjectsAfter(config, url, n)
    BY DEF mergeConfigs, ObjectsAfter
<1>2. /\ ~URLRefused(url, platform)
      /\ creations' = Append(creations, Creation(config, url, platform, failed, clients))
      /\ objects' = IF failed THEN m.objects
                    ELSE Overlay([ref \in used |-> Empty], m.objects)
    BY DEF CreationMerged, ClientMade
<1>3. failed <=> clients = {}
    OBVIOUS
<1>4. ~failed => DOMAIN options = DOMAIN loadConfigOptionsFromURL(url)
    OBVIOUS
<1>5. used = UsedBy(config, url, platform, n)
    BY DEF UsedBy
<1> HIDE DEF failed, client, m, params, used
<1>6. Creation(config, url, platform, failed, clients)
      = Creation(config, url, platform, clients = {}, clients)
    <2>1. failed \in BOOLEAN
        BY DEF failed
    <2> QED BY <1>3, <2>1
<1>7. CASE failed
    BY <1>1, <1>2, <1>3, <1>6, <1>7 DEF Merges
<1>8. CASE ~failed
    BY <1>1, <1>2, <1>4, <1>5, <1>6, <1>8 DEF Merges, client
<1> QED BY <1>7, <1>8

Appended(n) ==
    /\ n = Len(creations) + 1 /\ n \in 1..MaxCreations
    /\ CreationsInv'
    /\ Len(creations') = n
    /\ \A j \in 1..(n - 1) : creations'[j] = creations[j]

\* The objects: the new ones are those of call n, which writes to the callers'
\* objects it refers to, and to no other.
ObjectsStep(n) ==
    /\ DOMAIN objects \subseteq DOMAIN objects'
    /\ \A ref \in DOMAIN objects' : ref \notin DOMAIN objects =>
           \E name \in Nested : ref = <<n, name>>
    /\ \A ref \in DOMAIN Contents, key \in AllKeys, name \in Nested :
           WroteBy(creations'[n], name, ref, key) =>
               Get(objects'[ref], key) = loadConfigOptionsFromURL(creations'[n].url)[<<name, key>>]
    /\ \A ref \in DOMAIN Contents, key \in AllKeys :
           (\A name \in Nested : ~WroteBy(creations'[n], name, ref, key)) =>
               Get(objects'[ref], key) = Get(objects[ref], key)
    /\ \A ref \in DOMAIN objects : ref \notin DOMAIN Contents => objects'[ref] = objects[ref]

\* A creation becomes the last one and changes no earlier one.
LEMMA CreationAppends ==
    ASSUME CreationsInv, Len(creations) < MaxCreations, NEW e, e.config \in Configs,
           creations' = Append(creations, e)
    PROVE  /\ Appended(Len(creations) + 1)
           /\ creations'[Len(creations) + 1] = e
<1> DEFINE n == Len(creations) + 1
<1>1. /\ Len(creations') = n /\ DOMAIN creations' = 1..n
      /\ \A i \in 1..Len(creations) : creations'[i] = creations[i]
      /\ creations'[n] = e
      /\ creations' \in Seq({creations'[i] : i \in DOMAIN creations'})
      /\ Len(creations) \in Nat
    BY AppendAny DEF CreationsInv
<1>2. \A i \in 1..n : creations'[i].config \in Configs
    <2>1. \A i \in 1..Len(creations) : creations[i].config \in Configs
        BY DEF CreationsInv
    <2>2. \A i \in 1..n : i \in 1..Len(creations) \/ i = n
        BY <1>1
    <2> QED BY <1>1, <2>1, <2>2
<1>3. n \in 1..MaxCreations /\ n <= MaxCreations /\ n - 1 = Len(creations)
    BY <1>1, ConfigAssumption
<1>4. CreationsInv'
    BY <1>1, <1>2, <1>3 DEF CreationsInv
<1> QED BY <1>1, <1>3, <1>4 DEF Appended

\* What call n does to the object that a caller's configuration refers to
LEMMA CallersObject ==
    ASSUME CreationsInv, ObjectsInv, NEW config \in Configs, NEW url,
           NEW n \in 1..MaxCreations, NEW name \in DOMAIN config.nested, NEW key
    PROVE  Get(ObjectsAfter(config, url, n)[config.nested[name]], key) =
               IF <<name, key>> \in DOMAIN BeforeNull(url)
               THEN loadConfigOptionsFromURL(url)[<<name, key>>]
               ELSE Get(objects[config.nested[name]], key)
<1>1. config.nested[name] \in DOMAIN objects
    BY ConfigAssumption DEF ObjectsInv
<1>2. RefAfter(config, name, n) = config.nested[name] /\ name \in DOMAIN NestedAfter(config, url, n)
    BY NestedAfterFacts DEF RefAfter, RefOrNew
<1> QED BY <1>1, <1>2, ObjectWritten, BeforeNullFacts

\* A merge leaves alone what its configuration does not refer to.
LEMMA OthersObject ==
    ASSUME CreationsInv, ObjectsInv, NEW config \in Configs, NEW url,
           NEW n \in 1..MaxCreations, n = Len(creations) + 1, NEW ref \in DOMAIN objects,
           \A name \in DOMAIN config.nested : config.nested[name] # ref
    PROVE  ObjectsAfter(config, url, n)[ref] = objects[ref]
<1>1. \A name \in Nested : ref # <<n, name>>
    <2>1. CASE ref \in DOMAIN Contents
        BY <2>1, ConfigAssumption
    <2>2. CASE ref \notin DOMAIN Contents
        <3>1. PICK j \in 1..Len(creations), name \in Nested : ref = <<j, name>>
            BY <2>2 DEF ObjectsInv
        <3>2. j # n
            <4>1. Len(creations) \in Nat
                BY DEF CreationsInv
            <4> QED BY <4>1
        <3> QED BY <3>1, <3>2
    <2> QED BY <2>1, <2>2
<1>2. \A name \in DOMAIN NestedAfter(config, url, n) : ref # RefAfter(config, name, n)
    BY <1>1, NestedAfterFacts DEF RefAfter, RefOrNew
<1> QED BY <1>2, ObjectKept

\* A merge, failed or not, does to the objects what ObjectsStep says.
LEMMA ObjectsAfterStep ==
    ASSUME CreationsInv, ObjectsInv, NEW config \in Configs, NEW url, NEW platform,
           NEW n \in 1..MaxCreations, n = Len(creations) + 1,
           creations'[n].config = config, creations'[n].url = url,
           creations'[n].platform = platform, ~URLRefused(url, platform),
           DOMAIN ObjectsAfter(config, url, n) \subseteq DOMAIN objects',
           \A ref \in DOMAIN objects' : ref \in DOMAIN ObjectsAfter(config, url, n)
               \/ \E name \in PerRequest : ref = RefAfter(config, name, n),
           \A ref \in DOMAIN ObjectsAfter(config, url, n) :
               objects'[ref] = ObjectsAfter(config, url, n)[ref]
    PROVE  ObjectsStep(n)
<1>1. DOMAIN objects \subseteq DOMAIN ObjectsAfter(config, url, n)
    BY ObjectsAfterDomain, Zenon
<1>2. ASSUME NEW ref \in DOMAIN objects', ref \notin DOMAIN objects
      PROVE  \E name \in Nested : ref = <<n, name>>
    <2>1. PICK name \in Nested : ref = RefAfter(config, name, n)
        <3>1. PerRequest \subseteq Nested
            BY DEF PerRequest, Nested
        <3>2. DOMAIN NestedAfter(config, url, n) \subseteq Nested
            BY NestedAfterFacts
        <3>3. CASE ref \in DOMAIN ObjectsAfter(config, url, n)
            BY <1>2, <3>2, <3>3, ObjectsAfterDomain
        <3>4. CASE ref \notin DOMAIN ObjectsAfter(config, url, n)
            BY <3>1, <3>4, Zenon
        <3> QED BY <3>3, <3>4
    <2>2. name \notin DOMAIN config.nested
        BY <1>2, <2>1, ConfigAssumption DEF RefAfter, RefOrNew, ObjectsInv
    <2> QED BY <2>1, <2>2 DEF RefAfter, RefOrNew
<1>3. ASSUME NEW ref \in DOMAIN Contents, NEW key \in AllKeys, NEW name \in Nested,
             WroteBy(creations'[n], name, ref, key)
      PROVE  Get(objects'[ref], key) = loadConfigOptionsFromURL(creations'[n].url)[<<name, key>>]
    <2>1. /\ name \in DOMAIN config.nested /\ config.nested[name] = ref
          /\ <<name, key>> \in DOMAIN BeforeNull(url)
        BY <1>3 DEF WroteBy
    <2>2. ref \in DOMAIN ObjectsAfter(config, url, n)
        BY <1>1 DEF ObjectsInv
    <2> QED BY <2>1, <2>2, CallersObject
<1>4. ASSUME NEW ref \in DOMAIN Contents, NEW key \in AllKeys,
             \A name \in Nested : ~WroteBy(creations'[n], name, ref, key)
      PROVE  Get(objects'[ref], key) = Get(objects[ref], key)
    <2>1. ref \in DOMAIN objects /\ ref \in DOMAIN ObjectsAfter(config, url, n)
        BY <1>1 DEF ObjectsInv
    <2>2. CASE \E name \in DOMAIN config.nested : config.nested[name] = ref
        <3>1. PICK name \in DOMAIN config.nested : config.nested[name] = ref
            BY <2>2
        <3>2. <<name, key>> \notin DOMAIN BeforeNull(url)
            BY <1>4, <3>1, ConfigAssumption DEF WroteBy
        <3> QED BY <2>1, <3>1, <3>2, CallersObject
    <2>3. CASE \A name \in DOMAIN config.nested : config.nested[name] # ref
        BY <2>1, <2>3, OthersObject
    <2> QED BY <2>2, <2>3
<1>5. ASSUME NEW ref \in DOMAIN objects, ref \notin DOMAIN Contents
      PROVE  objects'[ref] = objects[ref]
    BY <1>1, <1>5, OthersObject, ConfigAssumption
<1> QED BY <1>1, <1>2, <1>3, <1>4, <1>5 DEF ObjectsStep

\* A refused URL writes nothing.
LEMMA RefusedStep ==
    ASSUME NEW n, URLRefused(creations'[n].url, creations'[n].platform), UNCHANGED objects
    PROVE  ObjectsStep(n)
BY DEF ObjectsStep, WroteBy

-----------------------------------------------------------------------------
(* The callers' objects                                                     *)

\* The creations before call n, and call n itself.
LEMMA OldWrites ==
    ASSUME NEW n, Appended(n), CreationsInv
    PROVE  /\ Len(creations) = n - 1 /\ Len(creations') = n /\ n \in Nat
           /\ \A j \in 1..Len(creations) : j \in 1..n /\ j # n /\ creations'[j] = creations[j]
           /\ \A j \in 1..n : j # n => j \in 1..Len(creations)
           /\ n \in 1..n /\ n \in 1..MaxCreations
<1>1. Len(creations) \in Nat
    BY DEF CreationsInv
<1> QED BY <1>1 DEF Appended

\* The objects stay those of the callers and of the calls.
LEMMA ObjectsKept ==
    ASSUME NEW n, Appended(n), ObjectsStep(n), CreationsInv, ObjectsInv
    PROVE  ObjectsInv'
<1>1. DOMAIN Contents \subseteq DOMAIN objects'
    BY DEF ObjectsInv, ObjectsStep
<1>2. ASSUME NEW ref \in DOMAIN objects', ref \notin DOMAIN Contents
      PROVE  \E j \in 1..Len(creations'), name \in Nested : ref = <<j, name>>
    <2>1. CASE ref \in DOMAIN objects
        <3>1. PICK j \in 1..Len(creations), name \in Nested : ref = <<j, name>>
            BY <1>2, <2>1 DEF ObjectsInv
        <3> QED BY <3>1, OldWrites
    <2>2. CASE ref \notin DOMAIN objects
        <3>1. PICK name \in Nested : ref = <<n, name>>
            BY <2>2 DEF ObjectsStep
        <3> QED BY <3>1, OldWrites
    <2> QED BY <2>1, <2>2
<1> QED BY <1>1, <1>2 DEF ObjectsInv

\* What nobody has written stays what the caller gave.
LEMMA UntouchedKept ==
    ASSUME NEW n, Appended(n), ObjectsStep(n), CreationsInv, UntouchedInv
    PROVE  UntouchedInv'
<1>1. ASSUME NEW ref \in DOMAIN Contents, NEW key \in AllKeys,
             \A j \in 1..Len(creations'), name \in Nested :
                 ~WroteBy(creations'[j], name, ref, key)
      PROVE  Get(objects'[ref], key) = Get(Contents[ref], key)
    <2>1. \A name \in Nested : ~WroteBy(creations'[n], name, ref, key)
        BY <1>1, OldWrites
    <2>2. \A j \in 1..Len(creations), name \in Nested : ~Wrote(j, name, ref, key)
        BY <1>1, OldWrites DEF Wrote
    <2>3. Get(objects'[ref], key) = Get(objects[ref], key)
        BY <2>1 DEF ObjectsStep
    <2>4. Get(objects[ref], key) = Get(Contents[ref], key)
        BY <2>2 DEF UntouchedInv
    <2> QED BY <2>3, <2>4
<1> QED BY <1>1 DEF UntouchedInv, Wrote

\* What was written last is what an object holds.
LEMMA LastWriteKept ==
    ASSUME NEW n, Appended(n), ObjectsStep(n), CreationsInv, LastWriteInv
    PROVE  LastWriteInv'
<1>1. ASSUME NEW ref \in DOMAIN Contents, NEW key \in AllKeys, NEW name \in Nested,
             NEW j \in 1..Len(creations'), WroteBy(creations'[j], name, ref, key),
             \A k \in 1..Len(creations') : WroteBy(creations'[k], name, ref, key) => k <= j
      PROVE  Get(objects'[ref], key) = loadConfigOptionsFromURL(creations'[j].url)[<<name, key>>]
    <2>1. CASE j = n
        BY <1>1, <2>1 DEF ObjectsStep
    <2>2. CASE j # n
        <3>1. j \in 1..Len(creations) /\ creations'[j] = creations[j] /\ j < n
            <4>1. j \in 1..n
                BY OldWrites
            <4> QED BY <2>2, <4>1, OldWrites
        <3>2. ~WroteBy(creations'[n], name, ref, key)
            <4>1. ~(n <= j) /\ n \in 1..Len(creations')
                BY <3>1, OldWrites
            <4> QED BY <1>1, <4>1
        <3>3. ASSUME NEW other \in Nested, WroteBy(creations'[n], other, ref, key)
              PROVE  FALSE
            <4>1. creations'[n].config \in Configs /\ creations'[j].config \in Configs
                BY <3>1, OldWrites DEF Appended, CreationsInv
            <4>2. other = name
                BY <1>1, <3>3, <4>1, ConfigAssumption DEF WroteBy
            <4> QED BY <3>2, <3>3, <4>2
        <3>4. Get(objects'[ref], key) = Get(objects[ref], key)
            BY <3>3 DEF ObjectsStep
        <3>5. Wrote(j, name, ref, key)
              /\ \A k \in 1..Len(creations) : Wrote(k, name, ref, key) => k <= j
            BY <1>1, <3>1, OldWrites DEF Wrote
        <3>6. Get(objects[ref], key) = loadConfigOptionsFromURL(creations[j].url)[<<name, key>>]
            BY <3>1, <3>5 DEF LastWriteInv
        <3> QED BY <3>1, <3>4, <3>6
    <2> QED BY <2>1, <2>2
<1> QED BY <1>1 DEF LastWriteInv, Wrote

-----------------------------------------------------------------------------
(* The client that call n makes                                             *)

\* The parameters that come from the merged configuration
ClientParams ==
    {"username", "password", "access_token", "database", "pathname", "application",
     "request_timeout", "max_open_connections", "request", "response", "level", "enabled",
     "idle_socket_ttl", "clickhouse_settings", "http_headers"}

\* The parameters of a client are those of getConnectionParams.
LEMMA ClientFields ==
    ASSUME NEW config, NEW url, NEW platform, NEW n, NEW k \in ClientParams
    PROVE  ClientMade(config, url, platform, n)[k] =
               getConnectionParams(mergeConfigs(config, BeforeNull(url), n), url, platform, n)[k]
<1> DEFINE m == mergeConfigs(config, BeforeNull(url), n)
           params == getConnectionParams(m, url, platform, n)
           own == [session_id |-> Get(config.plain, "session_id"),
                  role |-> Get(config.plain, "role")]
<1>1. ClientMade(config, url, platform, n) = Overlay(params, own)
    BY DEF ClientMade
<1> HIDE DEF m
<1>2. k \in DOMAIN params /\ k \notin DOMAIN own
    BY DEF getConnectionParams, ClientParams
<1> QED BY <1>1, <1>2 DEF Overlay, m

\* getConnectionParams: settings and headers are references.
LEMMA ParamRefs ==
    ASSUME NEW m, NEW url, NEW platform, NEW n
    PROVE  LET params == getConnectionParams(m, url, platform, n)
           IN  /\ params["clickhouse_settings"] = RefOrNew(m.nested, "clickhouse_settings", n)
               /\ params["http_headers"] = RefOrNew(m.nested, "http_headers", n)
BY DEF getConnectionParams

\* getConnectionParams: the nested options that are read once.
LEMMA ParamNested ==
    ASSUME NEW m, NEW url, NEW platform, NEW n
    PROVE  LET params == getConnectionParams(m, url, platform, n)
           IN  /\ params["request"] = Codec(NestedOption(m, "compression", "request"))
               /\ params["response"] = Codec(NestedOption(m, "compression", "response"))
               /\ params["level"] = OrElse(NestedOption(m, "log", "level"), "WARN")
               /\ params["enabled"] = OrElse(NestedOption(m, "keep_alive", "enabled"), "true")
               /\ params["idle_socket_ttl"] =
                      OrElse(NestedOption(m, "keep_alive", "idle_socket_ttl"), "n2500")
BY DEF getConnectionParams

\* The settings and headers of a client are those of its merged configuration.
LEMMA UsedRefs ==
    ASSUME NEW config \in Configs, NEW url, NEW platform, NEW n \in 1..MaxCreations
    PROVE  /\ UsedBy(config, url, platform, n) =
                  {RefAfter(config, name, n) : name \in PerRequest}
           /\ \A name \in PerRequest :
                  ClientMade(config, url, platform, n)[name] = RefAfter(config, name, n)
<1> DEFINE m == mergeConfigs(config, BeforeNull(url), n)
           client == ClientMade(config, url, platform, n)
<1>1. m.nested = NestedAfter(config, url, n)
    BY DEF mergeConfigs, NestedAfter
<1>2. \A name \in PerRequest : client[name] = getConnectionParams(m, url, platform, n)[name]
    BY ClientFields DEF PerRequest, ClientParams
<1> HIDE DEF m, client
<1>3. \A name \in PerRequest : client[name] = RefOrNew(m.nested, name, n)
    BY <1>2, ParamRefs DEF PerRequest
<1>4. \A name \in PerRequest :
          RefOrNew(NestedAfter(config, url, n), name, n) = RefAfter(config, name, n)
    BY NestedAfterFacts DEF RefOrNew, RefAfter, PerRequest, Nested
<1>5. \A name \in PerRequest : client[name] = RefAfter(config, name, n)
    BY <1>1, <1>3, <1>4
<1> QED BY <1>5 DEF client, UsedBy, PerRequest

\* What is so of a client when call n has made it
NewClient(n) ==
    LET c == creations'[n]
    IN  \A client \in c.client :
            /\ ~URLRefused(c.url, c.platform)
            /\ DOMAIN BeforeNull(c.url) = DOMAIN loadConfigOptionsFromURL(c.url)
            /\ client = ClientMade(c.config, c.url, c.platform, n)
            /\ \A ref \in DOMAIN ObjectsAfter(c.config, c.url, n) :
                   ref \in DOMAIN objects' /\ objects'[ref] = ObjectsAfter(c.config, c.url, n)[ref]
            /\ \A name \in PerRequest :
                   LET ref == RefAfter(c.config, name, n)
                   IN  /\ ref \in DOMAIN objects'
                       /\ ref \notin DOMAIN ObjectsAfter(c.config, c.url, n) =>
                              objects'[ref] = Empty

\* A creation that merges, whether a client comes of it or not.
LEMMA MergingCreation ==
    ASSUME CreationsInv, ObjectsInv, NEW config \in Configs, NEW url, NEW platform,
           NEW n, n = Len(creations) + 1, Len(creations) < MaxCreations,
           Merges(config, url, platform, n)
    PROVE  Appended(n) /\ ObjectsStep(n) /\ NewClient(n)
<1> DEFINE made == ClientMade(config, url, platform, n)
           after == ObjectsAfter(config, url, n)
           used == UsedBy(config, url, platform, n)
           e(clients) == Creation(config, url, platform, clients = {}, clients)
<1>1. PICK clients :
          /\ creations' = Append(creations, e(clients))
          /\ \/ clients = {} /\ objects' = after
             \/ /\ clients = {made}
                /\ DOMAIN BeforeNull(url) = DOMAIN loadConfigOptionsFromURL(url)
                /\ objects' = Overlay([ref \in used |-> Empty], after)
    BY DEF Merges, UsedBy
<1>2. ~URLRefused(url, platform)
    BY DEF Merges
<1>3. /\ e(clients).config = config /\ e(clients).url = url
      /\ e(clients).platform = platform /\ e(clients).client = clients
    BY DEF Creation
<1> HIDE DEF e, made, after, used
<1>4. Appended(n) /\ creations'[n] = e(clients)
    BY <1>1, <1>3, CreationAppends
<1>5. n \in 1..MaxCreations
    BY <1>4 DEF Appended
<1>6. used = {RefAfter(config, name, n) : name \in PerRequest}
    BY <1>5, UsedRefs DEF used
<1>7. /\ DOMAIN after \subseteq DOMAIN objects'
      /\ \A ref \in DOMAIN after : objects'[ref] = after[ref]
      /\ \A ref \in DOMAIN objects' : ref \in DOMAIN after \/ ref \in used
      /\ clients # {} => \A ref \in used :
             ref \in DOMAIN objects' /\ (ref \notin DOMAIN after => objects'[ref] = Empty)
    BY <1>1 DEF Overlay
<1>8. \A ref \in DOMAIN objects' : ref \in DOMAIN after
          \/ \E name \in PerRequest : ref = RefAfter(config, name, n)
    BY <1>6, <1>7
<1>9. ObjectsStep(n)
    BY <1>2, <1>3, <1>4, <1>5, <1>7, <1>8, ObjectsAfterStep DEF after
<1>10. NewClient(n)
    <2>1. ASSUME NEW client \in clients
          PROVE  client = made /\ DOMAIN BeforeNull(url) = DOMAIN loadConfigOptionsFromURL(url)
        BY <1>1
    <2>2. \A name \in PerRequest : RefAfter(config, name, n) \in used
        BY <1>6
    <2> QED BY <1>2, <1>3, <1>4, <1>7, <2>1, <2>2 DEF NewClient, made, after
<1> QED BY <1>4, <1>9, <1>10

\* A creation whose URL is refused.
LEMMA RefusedCreation ==
    ASSUME CreationsInv, NEW config \in Configs, NEW url, NEW platform,
           NEW n, n = Len(creations) + 1, Len(creations) < MaxCreations,
           CreationRefused(config, url, platform)
    PROVE  Appended(n) /\ ObjectsStep(n) /\ NewClient(n)
<1> DEFINE e == Creation(config, url, platform, TRUE, {})
<1>1. /\ creations' = Append(creations, e) /\ URLRefused(url, platform) /\ UNCHANGED objects
      /\ e.config = config /\ e.url = url /\ e.platform = platform /\ e.client = {}
    BY DEF CreationRefused, Creation
<1> HIDE DEF e
<1>2. Appended(n) /\ creations'[n] = e
    BY <1>1, CreationAppends
<1>3. ObjectsStep(n)
    BY <1>1, <1>2, RefusedStep
<1>4. NewClient(n)
    BY <1>1, <1>2 DEF NewClient
<1> QED BY <1>2, <1>3, <1>4

\* Every creation does what Appended, ObjectsStep and NewClient say.
LEMMA CreationStep ==
    ASSUME CreationsInv, ObjectsInv, CreateClient, NEW n, n = Len(creations) + 1
    PROVE  Appended(n) /\ ObjectsStep(n) /\ NewClient(n)
<1>1. PICK config \in Configs, url \in URLs, platform \in Platforms :
          CreationRefused(config, url, platform) \/ CreationMerged(config, url, platform)
    BY DEF CreateClient
<1>2. Len(creations) < MaxCreations
    BY DEF CreateClient
<1>3. CASE CreationRefused(config, url, platform)
    BY <1>2, <1>3, RefusedCreation
<1>4. CASE CreationMerged(config, url, platform)
    <2>1. Merges(config, url, platform, n)
        BY <1>4, CreationMergedMerges
    <2> QED BY <1>2, <2>1, MergingCreation
<1> QED BY <1>1, <1>3, <1>4

\* A key of the settings or headers that the client has made for itself
LEMMA OwnObjectMade ==
    ASSUME NEW n, Appended(n), CreationsInv, ObjectsInv, NewClient(n),
           NEW client \in creations'[n].client, NEW name \in PerRequest, NEW key,
           name \notin DOMAIN creations'[n].config.nested
    PROVE  Get(objects'[<<n, name>>], key) =
               IF <<name, key>> \in DOMAIN loadConfigOptionsFromURL(creations'[n].url)
               THEN loadConfigOptionsFromURL(creations'[n].url)[<<name, key>>]
               ELSE "undefined"
<1> DEFINE config == creations'[n].config
           url == creations'[n].url
           options == BeforeNull(url)
           after == ObjectsAfter(config, url, n)
           ref == RefAfter(config, name, n)
<1>1. /\ DOMAIN options = DOMAIN loadConfigOptionsFromURL(url)
      /\ \A r \in DOMAIN after : objects'[r] = after[r]
      /\ ref \notin DOMAIN after => objects'[ref] = Empty
    BY DEF NewClient
<1>2. config \in Configs /\ n \in 1..MaxCreations /\ name \in Nested
    BY OldWrites DEF Appended, CreationsInv, PerRequest, Nested
<1>3. ref = <<n, name>>
    BY DEF RefAfter, RefOrNew
<1>4. ref \notin DOMAIN objects
    <2>1. ref \notin DOMAIN Contents
        BY <1>2, <1>3, ConfigAssumption
    <2>2. \A j \in 1..Len(creations), other \in Nested : ref # <<j, other>>
        BY <1>3, OldWrites
    <2> QED BY <2>1, <2>2 DEF ObjectsInv
<1>5. \A p \in DOMAIN options : options[p] = loadConfigOptionsFromURL(url)[p]
    BY BeforeNullFacts
<1> HIDE DEF config, url, options, after, ref
<1>6. CASE name \in DOMAIN NestedAfter(config, url, n)
    <2>1. ref \in DOMAIN after
        BY <1>2, <1>6, ObjectsAfterDomain DEF ref, after
    <2>2. Get(after[ref], key) = IF <<name, key>> \in DOMAIN options
                                 THEN options[<<name, key>>] ELSE "undefined"
        BY <1>2, <1>4, <1>6, ObjectWritten DEF ref, after, options
    <2> QED BY <1>1, <1>3, <1>5, <2>1, <2>2 DEF url
<1>7. CASE name \notin DOMAIN NestedAfter(config, url, n)
    <2>1. ref \notin DOMAIN after
        <3>1. \A other \in DOMAIN NestedAfter(config, url, n) : ref # RefAfter(config, other, n)
            BY <1>2, <1>7, RefsDiffer, NestedAfterFacts DEF ref
        <3> QED BY <1>2, <1>4, <3>1, ObjectsAfterDomain DEF after
    <2>2. <<name, key>> \notin DOMAIN options
        BY <1>2, <1>7, NestedAfterFacts DEF options
    <2> QED BY <1>1, <1>3, <2>1, <2>2 DEF url, Get, Empty
<1> QED BY <1>6, <1>7

\* What is so of the clients stays so, and is so of a new one.
LEMMA ClientsKept ==
    ASSUME NEW n, Appended(n), ObjectsStep(n), NewClient(n), CreationsInv, ObjectsInv,
           CompleteInv, ClientRefsInv, OwnObjectsInv
    PROVE  CompleteInv' /\ ClientRefsInv' /\ OwnObjectsInv'
<1>1. CompleteInv'
    <2> SUFFICES ASSUME NEW i \in 1..Len(creations'), creations'[i].client # {}
                 PROVE  /\ ~URLRefused(creations'[i].url, creations'[i].platform)
                        /\ DOMAIN BeforeNull(creations'[i].url)
                           = DOMAIN loadConfigOptionsFromURL(creations'[i].url)
        BY DEF CompleteInv
    <2>1. CASE i = n
        BY <2>1 DEF NewClient
    <2>2. CASE i # n
        BY <2>2, OldWrites DEF CompleteInv
    <2> QED BY <2>1, <2>2
<1>2. ClientRefsInv'
    <2> SUFFICES ASSUME NEW i \in 1..Len(creations'), NEW client \in creations'[i].client,
                        NEW name \in PerRequest
                 PROVE  /\ client[name] = RefAfter(creations'[i].config, name, i)
                        /\ client[name] \in DOMAIN objects'
        BY DEF ClientRefsInv
    <2>1. CASE i = n
        <3>1. /\ client = ClientMade(creations'[n].config, creations'[n].url,
                                     creations'[n].platform, n)
              /\ RefAfter(creations'[n].config, name, n) \in DOMAIN objects'
            BY <2>1 DEF NewClient
        <3>2. creations'[n].config \in Configs /\ n \in 1..MaxCreations
            BY OldWrites DEF Appended, CreationsInv
        <3> QED BY <2>1, <3>1, <3>2, UsedRefs
    <2>2. CASE i # n
        BY <2>2, OldWrites DEF ClientRefsInv, ObjectsStep
    <2> QED BY <2>1, <2>2
<1>3. OwnObjectsInv'
    <2> SUFFICES ASSUME NEW i \in 1..Len(creations'), NEW name \in PerRequest,
                        NEW key \in AllKeys, creations'[i].client # {},
                        name \notin DOMAIN creations'[i].config.nested
                 PROVE  Get(objects'[<<i, name>>], key) =
                            IF <<name, key>> \in DOMAIN loadConfigOptionsFromURL(creations'[i].url)
                            THEN loadConfigOptionsFromURL(creations'[i].url)[<<name, key>>]
                            ELSE "undefined"
        BY DEF OwnObjectsInv
    <2>1. CASE i = n
        BY <2>1, OwnObjectMade
    <2>2. CASE i # n
        <3>1. i \in 1..Len(creations) /\ creations'[i] = creations[i]
            BY <2>2, OldWrites
        <3>2. <<i, name>> \in DOMAIN objects
            BY <3>1 DEF ClientRefsInv, RefAfter, RefOrNew
        <3>3. <<i, name>> \notin DOMAIN Contents
            <4>1. i \in 1..MaxCreations
                <5>1. /\ i <= Len(creations) /\ Len(creations) <= MaxCreations
                      /\ Len(creations) \in Nat
                    BY <3>1 DEF CreationsInv
                <5> QED BY <3>1, <5>1, ConfigAssumption
            <4> QED BY <4>1, ConfigAssumption DEF PerRequest, Nested
        <3>4. objects'[<<i, name>>] = objects[<<i, name>>]
            BY <3>2, <3>3 DEF ObjectsStep
        <3> QED BY <3>1, <3>4 DEF OwnObjectsInv
    <2> QED BY <2>1, <2>2
<1> QED BY <1>1, <1>2, <1>3

-----------------------------------------------------------------------------
(* What is expected of an option                                            *)

\* Of the writers of an option there is a last one.
LEMMA LastWriter ==
    ASSUME CreationsInv, NEW i, NEW path, Writers(i, path) # {}
    PROVE  LET last == CHOOSE j \in Writers(i, path) : \A k \in Writers(i, path) : k <= j
           IN  /\ last \in Writers(i, path)
               /\ \A k \in Writers(i, path) : k <= last
<1>1. Writers(i, path) \subseteq 1..Len(creations) /\ Len(creations) \in Nat
    BY DEF CreationsInv, Writers
<1>2. \E m \in Writers(i, path) : \A k \in Writers(i, path) : k <= m
    BY <1>1, Greatest
<1> QED BY <1>2

\* The options of a creation are settled with it, but for settings and headers.
LEMMA ExpectedKept ==
    ASSUME NEW n, Appended(n), CreationsInv, NEW i \in 1..Len(creations),
           NEW path, path[1] \notin PerRequest
    PROVE  Expected(i, path)' = Expected(i, path)
<1>1. DOMAIN creations = 1..Len(creations) /\ DOMAIN creations' = 1..Len(creations')
    BY DEF CreationsInv, Appended
<1>2. creations'[i] = creations[i]
    BY OldWrites
<1>3. ASSUME NEW j PROVE j \in Writers(i, path)' <=> j \in Writers(i, path)
    <2>1. CASE j = n
        <3>1. ~(n <= i) /\ n \notin 1..Len(creations)
            BY OldWrites
        <3> QED BY <1>1, <2>1, <3>1 DEF Writers, PerRequest
    <2>2. CASE j # n
        <3>1. j \in DOMAIN creations' <=> j \in DOMAIN creations
            BY <1>1, <2>2, OldWrites
        <3>2. j \in DOMAIN creations => creations'[j] = creations[j]
            BY <1>1, OldWrites
        <3> QED BY <1>2, <3>1, <3>2 DEF Writers
    <2> QED BY <2>1, <2>2
<1>4. Writers(i, path)' = Writers(i, path)
    BY <1>3
<1>5. Given(i, path)' = Given(i, path)
    BY <1>2 DEF Given
<1>6. CASE Writers(i, path) = {}
    BY <1>2, <1>4, <1>5, <1>6 DEF Expected
<1>7. CASE Writers(i, path) # {}
    <2> DEFINE last == CHOOSE j \in Writers(i, path) : \A k \in Writers(i, path) : k <= j
    <2>1. last \in Writers(i, path)
        BY <1>7, LastWriter
    <2>2. creations'[last] = creations[last]
        BY <1>1, <2>1, OldWrites DEF Writers
    <2>3. (CHOOSE j \in Writers(i, path) : \A k \in Writers(i, path) : k <= j)' = last
        BY <1>4
    <2>4. Expected(i, path) = loadConfigOptionsFromURL(creations[last].url)[path]
        BY <1>7 DEF Expected
    <2>5. Expected(i, path)' = loadConfigOptionsFromURL(creations'[last].url)[path]
        BY <1>4, <1>7, <2>3 DEF Expected
    <2> QED BY <2>2, <2>4, <2>5
<1> QED BY <1>6, <1>7

ExpectedOfShared(i, name, key) ==
    LET c == creations[i]
    IN  /\ name \in DOMAIN c.config.nested
        /\ ~URLRefused(c.url, c.platform)
        /\ DOMAIN BeforeNull(c.url) = DOMAIN loadConfigOptionsFromURL(c.url)
        /\ name \in PerRequest \/ i = Len(creations)
        => Get(objects[c.config.nested[name]], key) = Expected(i, <<name, key>>)

SharedInv ==
    \A i \in 1..Len(creations), name \in Nested, key \in AllKeys :
        ExpectedOfShared(i, name, key)

\* A shared object holds what is expected of the clients that read it now.
LEMMA SharedExpected == CreationsInv /\ UntouchedInv /\ LastWriteInv => SharedInv
<1> SUFFICES ASSUME CreationsInv, UntouchedInv, LastWriteInv, NEW i \in 1..Len(creations),
                    NEW name \in Nested, NEW key \in AllKeys,
                    name \in DOMAIN creations[i].config.nested,
                    ~URLRefused(creations[i].url, creations[i].platform),
                    DOMAIN BeforeNull(creations[i].url)
                        = DOMAIN loadConfigOptionsFromURL(creations[i].url),
                    name \in PerRequest \/ i = Len(creations)
             PROVE  Get(objects[creations[i].config.nested[name]], key)
                    = Expected(i, <<name, key>>)
    BY DEF SharedInv, ExpectedOfShared
<1> DEFINE path == <<name, key>>
           ref == creations[i].config.nested[name]
<1>1. path[1] = name /\ path[2] = key /\ Len(path) = 2
    OBVIOUS
<1>2. DOMAIN creations = 1..Len(creations) /\ Len(creations) \in Nat
    BY DEF CreationsInv
<1>3. \A j \in 1..Len(creations) : creations[j].config \in Configs
    BY DEF CreationsInv
<1>4. ref \in DOMAIN Contents
    BY <1>3, ConfigAssumption
<1>5. \A j : j \in Writers(i, path) <=> j \in 1..Len(creations) /\ Wrote(j, name, ref, key)
    <2>1. \A j \in 1..Len(creations) : j <= i \/ name \in PerRequest
        BY <1>2
    <2> QED BY <1>1, <1>2, <2>1 DEF Writers, Wrote, WroteBy, PerRequest
<1>6. \A j \in 1..Len(creations), other \in Nested : Wrote(j, other, ref, key) => other = name
    BY <1>3, ConfigAssumption DEF Wrote, WroteBy
<1> HIDE DEF ref
<1>7. CASE Writers(i, path) = {}
    <2>1. path \notin DOMAIN loadConfigOptionsFromURL(creations[i].url)
        BY <1>5, <1>7 DEF Wrote, WroteBy, ref
    <2>2. Expected(i, path) = Given(i, path)
        BY <1>7, <2>1 DEF Expected
    <2>3. Given(i, path) = Get(Contents[ref], key)
        BY <1>1 DEF Given, ref
    <2>4. Get(objects[ref], key) = Get(Contents[ref], key)
        BY <1>4, <1>5, <1>6, <1>7 DEF UntouchedInv
    <2> QED BY <2>2, <2>3, <2>4 DEF ref
<1>8. CASE Writers(i, path) # {}
    <2> DEFINE last == CHOOSE j \in Writers(i, path) : \A k \in Writers(i, path) : k <= j
    <2>1. last \in Writers(i, path) /\ \A k \in Writers(i, path) : k <= last
        BY <1>8, LastWriter
    <2>2. Expected(i, path) = loadConfigOptionsFromURL(creations[last].url)[path]
        BY <1>8 DEF Expected
    <2> HIDE DEF last
    <2>3. /\ last \in 1..Len(creations) /\ Wrote(last, name, ref, key)
          /\ \A k \in 1..Len(creations) : Wrote(k, name, ref, key) => k <= last
        BY <1>5, <2>1
    <2>4. Get(objects[ref], key) = loadConfigOptionsFromURL(creations[last].url)[path]
        BY <1>4, <2>3 DEF LastWriteInv
    <2> QED BY <2>2, <2>4 DEF ref
<1> QED BY <1>7, <1>8

\* Of an option without an object only the client's own URL speaks.
LEMMA OwnExpected ==
    ASSUME NEW i, NEW name, NEW key, name \notin DOMAIN creations[i].config.nested
    PROVE  LET own == loadConfigOptionsFromURL(creations[i].url)
           IN  Expected(i, <<name, key>>) =
                   IF <<name, key>> \in DOMAIN own THEN own[<<name, key>>] ELSE "undefined"
<1> DEFINE path == <<name, key>>
<1>1. path[1] = name /\ Len(path) = 2
    OBVIOUS
<1>2. Writers(i, path) = {}
    BY <1>1 DEF Writers
<1>3. Given(i, path) = "undefined"
    BY <1>1 DEF Given
<1> QED BY <1>2, <1>3 DEF Expected

\* Of a plain option the client's own URL speaks, then its caller.
LEMMA PlainExpected ==
    ASSUME NEW i, NEW name
    PROVE  LET own == loadConfigOptionsFromURL(creations[i].url)
           IN  Expected(i, <<name>>) =
                   IF <<name>> \in DOMAIN own THEN own[<<name>>]
                   ELSE Get(creations[i].config.plain, name)
<1> DEFINE path == <<name>>
<1>1. path[1] = name /\ Len(path) = 1
    OBVIOUS
<1>2. Writers(i, path) = {}
    BY <1>1 DEF Writers
<1>3. Given(i, path) = Get(creations[i].config.plain, name)
    BY <1>1 DEF Given
<1> QED BY <1>2, <1>3 DEF Expected

-----------------------------------------------------------------------------
(* What the new client reads once                                           *)

\* A nested option of the merged configuration is what is expected of it.
LEMMA NewNestedOption ==
    ASSUME NEW n, Appended(n), CreationsInv, ObjectsInv, NewClient(n),
           UntouchedInv', LastWriteInv', NEW client \in creations'[n].client,
           NEW m, m = mergeConfigs(creations'[n].config, BeforeNull(creations'[n].url), n),
           NEW name \in Nested, NEW key \in AllKeys
    PROVE  NestedOption(m, name, key) = Expected(n, <<name, key>>)'
<1> DEFINE config == creations'[n].config
           url == creations'[n].url
           options == BeforeNull(url)
           after == ObjectsAfter(config, url, n)
           path == <<name, key>>
<1>1. /\ ~URLRefused(url, creations'[n].platform)
      /\ DOMAIN options = DOMAIN loadConfigOptionsFromURL(url)
      /\ \A r \in DOMAIN after : objects'[r] = after[r]
    BY DEF NewClient
<1>2. config \in Configs /\ n \in 1..MaxCreations /\ n \in 1..Len(creations') /\ n = Len(creations')
    BY OldWrites DEF Appended, CreationsInv
<1>3. \A p \in DOMAIN options : options[p] = loadConfigOptionsFromURL(url)[p]
    BY BeforeNullFacts
<1>4. m.nested = NestedAfter(config, url, n) /\ m.objects = after
    BY DEF mergeConfigs, NestedAfter, ObjectsAfter
<1>5. CASE name \in DOMAIN config.nested
    <2>1. /\ name \in DOMAIN m.nested /\ m.nested[name] = config.nested[name]
          /\ config.nested[name] \in DOMAIN after
        <3>1. RefAfter(config, name, n) = config.nested[name]
            BY <1>5 DEF RefAfter, RefOrNew
        <3> QED BY <1>2, <1>4, <1>5, <3>1, NestedAfterFacts, ObjectsAfterDomain
    <2>2. NestedOption(m, name, key) = Get(objects'[config.nested[name]], key)
        BY <1>1, <1>4, <2>1 DEF NestedOption
    <2>3. CreationsInv' /\ UntouchedInv' /\ LastWriteInv' => SharedInv'
        BY SharedExpected, PTL
    <2>4. ExpectedOfShared(n, name, key)'
        BY <1>2, <2>3 DEF Appended, SharedInv
    <2>5. Get(objects'[config.nested[name]], key) = Expected(n, path)'
        BY <1>1, <1>2, <1>5, <2>4 DEF ExpectedOfShared
    <2> QED BY <2>2, <2>5
<1>6. CASE name \notin DOMAIN config.nested
    <2>1. Expected(n, path)' = IF path \in DOMAIN loadConfigOptionsFromURL(url)
                               THEN loadConfigOptionsFromURL(url)[path] ELSE "undefined"
        <3>1. (Writers(n, path))' = {}
            BY <1>6 DEF Writers
        <3>2. (Given(n, path))' = "undefined"
            BY <1>6 DEF Given
        <3> QED BY <3>1, <3>2 DEF Expected
    <2>2. CASE name \in DOMAIN m.nested
        <3>1. m.nested[name] = <<n, name>> /\ <<n, name>> = RefAfter(config, name, n)
            BY <1>2, <1>4, <1>6, <2>2, NestedAfterFacts DEF RefAfter, RefOrNew
        <3>2. <<n, name>> \notin DOMAIN objects
            <4>1. <<n, name>> \notin DOMAIN Contents
                BY <1>2, ConfigAssumption
            <4>2. \A j \in 1..Len(creations), other \in Nested : <<n, name>> # <<j, other>>
                BY OldWrites
            <4> QED BY <4>1, <4>2 DEF ObjectsInv
        <3>3. NestedOption(m, name, key) = Get(after[<<n, name>>], key)
            BY <1>4, <2>2, <3>1 DEF NestedOption
        <3>4. Get(after[<<n, name>>], key) = IF path \in DOMAIN options
                                             THEN options[path] ELSE "undefined"
            BY <1>2, <1>4, <2>2, <3>1, <3>2, ObjectWritten
        <3> QED BY <1>1, <1>3, <2>1, <3>3, <3>4
    <2>3. CASE name \notin DOMAIN m.nested
        <3>1. path \notin DOMAIN options
            BY <1>2, <1>4, <2>3, NestedAfterFacts
        <3>2. NestedOption(m, name, key) = "undefined"
            BY <2>3 DEF NestedOption
        <3> QED BY <1>1, <2>1, <3>1, <3>2
    <2> QED BY <2>2, <2>3
<1> QED BY <1>5, <1>6

\* A plain option of the merged configuration is what is expected of it.
LEMMA NewPlainOption ==
    ASSUME NEW n, NewClient(n), NEW client \in creations'[n].client,
           NEW m, m = mergeConfigs(creations'[n].config, BeforeNull(creations'[n].url), n),
           NEW name \in PlainNames
    PROVE  Get(m.plain, name) = Expected(n, <<name>>)'
<1> DEFINE config == creations'[n].config
           url == creations'[n].url
           options == BeforeNull(url)
           path == <<name>>
<1>1. DOMAIN options = DOMAIN loadConfigOptionsFromURL(url)
    BY DEF NewClient
<1>2. \A p \in DOMAIN options : options[p] = loadConfigOptionsFromURL(url)[p]
    BY BeforeNullFacts
<1>3. m.plain = Overlay(config.plain, PlainOptions(options))
    BY DEF mergeConfigs
<1>4. Get(m.plain, name) = IF name \in DOMAIN PlainOptions(options)
                           THEN PlainOptions(options)[name] ELSE Get(config.plain, name)
    BY <1>3, GetOverlay
<1>5. Expected(n, path)' = IF path \in DOMAIN loadConfigOptionsFromURL(url)
                           THEN loadConfigOptionsFromURL(url)[path] ELSE Get(config.plain, name)
    <2>1. (Writers(n, path))' = {}
        BY DEF Writers
    <2>2. (Given(n, path))' = Get(config.plain, name)
        BY DEF Given
    <2> QED BY <2>1, <2>2 DEF Expected
<1> QED BY <1>1, <1>2, <1>4, <1>5, PlainOptionsFacts

\* DefaultOf, path by path.
LEMMA Defaults ==
    /\ DefaultOf(<<"username">>) = "default" /\ DefaultOf(<<"password">>) = ""
    /\ DefaultOf(<<"database">>) = "default" /\ DefaultOf(<<"pathname">>) = "/"
    /\ DefaultOf(<<"access_token">>) = "undefined"
    /\ DefaultOf(<<"application">>) = "undefined"
    /\ DefaultOf(<<"request_timeout">>) = "n30000"
    /\ DefaultOf(<<"max_open_connections">>) = "n10"
    /\ DefaultOf(<<"compression", "request">>) = "undefined"
    /\ DefaultOf(<<"compression", "response">>) = "undefined"
    /\ DefaultOf(<<"log", "level">>) = "WARN"
    /\ DefaultOf(<<"keep_alive", "enabled">>) = "true"
    /\ DefaultOf(<<"keep_alive", "idle_socket_ttl">>) = "n2500"
    /\ \A key : /\ DefaultOf(<<"clickhouse_settings", key>>) = "undefined"
                /\ DefaultOf(<<"http_headers", key>>) = "undefined"
BY DEF DefaultOf

\* The paths: plain options, nested ones read once, and settings and headers.
LEMMA PathCases ==
    ASSUME NEW path \in AllPaths, path # <<"session_id">>
    PROVE  \/ path \in {<<"username">>, <<"password">>, <<"database">>, <<"application">>,
                        <<"pathname">>, <<"access_token">>, <<"request_timeout">>,
                        <<"max_open_connections">>}
           \/ path \in {<<"compression", "request">>, <<"compression", "response">>,
                        <<"log", "level">>, <<"keep_alive", "enabled">>,
                        <<"keep_alive", "idle_socket_ttl">>}
           \/ path[1] \in PerRequest /\ path[2] \in Keys /\ path = <<path[1], path[2]>>
<1>1. CASE path \in UserOptions
    BY <1>1 DEF UserOptions
<1>2. CASE \E name \in DOMAIN Known : path = Known[name]
    BY <1>2 DEF Known
<1>3. CASE \E name \in DOMAIN NodeOnly : path = NodeOnly[name]
    BY <1>3 DEF NodeOnly
<1>4. CASE path \in {"clickhouse_settings", "http_headers"} \X Keys
    BY <1>4 DEF PerRequest
<1> QED BY <1>1, <1>2, <1>3, <1>4 DEF AllPaths

\* An option without a default.
LEMMA UndefinedOption ==
    ASSUME NEW v
    PROVE  OrElse(v, "undefined") = v
BY DEF OrElse

\* getConnectionParams: plain options and their defaults
LEMMA ParamPlain ==
    ASSUME NEW m, NEW url, NEW platform, NEW n,
           NEW name \in {"username", "password", "database", "application", "pathname",
                         "access_token", "request_timeout", "max_open_connections"}
    PROVE  getConnectionParams(m, url, platform, n)[name]
           = OrElse(Get(m.plain, name), DefaultOf(<<name>>))
<1> DEFINE params == getConnectionParams(m, url, platform, n)
           value(k) == Get(m.plain, k)
<1>1. params["username"] = OrElse(value("username"), DefaultOf(<<"username">>))
    <2>1. DefaultOf(<<"username">>) = "default"
        BY Defaults
    <2>2. params["username"] = OrElse(value("username"), "default")
        BY DEF getConnectionParams
    <2> HIDE DEF params, value
    <2> QED BY <2>1, <2>2
<1>2. params["password"] = OrElse(value("password"), DefaultOf(<<"password">>))
    <2>1. DefaultOf(<<"password">>) = ""
        BY Defaults
    <2>2. params["password"] = OrElse(value("password"), "")
        BY DEF getConnectionParams
    <2> HIDE DEF params, value
    <2> QED BY <2>1, <2>2
<1>3. params["database"] = OrElse(value("database"), DefaultOf(<<"database">>))
    <2>1. DefaultOf(<<"database">>) = "default"
        BY Defaults
    <2>2. params["database"] = OrElse(value("database"), "default")
        BY DEF getConnectionParams
    <2> HIDE DEF params, value
    <2> QED BY <2>1, <2>2
<1>4. params["application"] = OrElse(value("application"), DefaultOf(<<"application">>))
    <2>1. DefaultOf(<<"application">>) = "undefined"
        BY Defaults
    <2>2. params["application"] = value("application")
        BY DEF getConnectionParams
    <2> HIDE DEF params, value
    <2> QED BY <2>1, <2>2, UndefinedOption
<1>5. params["pathname"] = OrElse(value("pathname"), DefaultOf(<<"pathname">>))
    <2>1. DefaultOf(<<"pathname">>) = "/"
        BY Defaults
    <2>2. params["pathname"] = OrElse(value("pathname"), "/")
        BY DEF getConnectionParams
    <2> HIDE DEF params, value
    <2> QED BY <2>1, <2>2
<1>6. params["access_token"] = OrElse(value("access_token"), DefaultOf(<<"access_token">>))
    <2>1. DefaultOf(<<"access_token">>) = "undefined"
        BY Defaults
    <2>2. params["access_token"] = value("access_token")
        BY DEF getConnectionParams
    <2> HIDE DEF params, value
    <2> QED BY <2>1, <2>2, UndefinedOption
<1>7. params["request_timeout"] = OrElse(value("request_timeout"), DefaultOf(<<"request_timeout">>))
    <2>1. DefaultOf(<<"request_timeout">>) = "n30000"
        BY Defaults
    <2>2. params["request_timeout"] = OrElse(value("request_timeout"), "n30000")
        BY DEF getConnectionParams
    <2> HIDE DEF params, value
    <2> QED BY <2>1, <2>2
<1>8. params["max_open_connections"] = OrElse(value("max_open_connections"), DefaultOf(<<"max_open_connections">>))
    <2>1. DefaultOf(<<"max_open_connections">>) = "n10"
        BY Defaults
    <2>2. params["max_open_connections"] = OrElse(value("max_open_connections"), "n10")
        BY DEF getConnectionParams
    <2> HIDE DEF params, value
    <2> QED BY <2>1, <2>2
<1> HIDE DEF params, value
<1>9. params[name] = OrElse(value(name), DefaultOf(<<name>>))
    BY <1>1, <1>2, <1>3, <1>4, <1>5, <1>6, <1>7, <1>8
<1> QED BY <1>9 DEF params, value

\* What a new client has read once is what is expected.
LEMMA NewReadOnce ==
    ASSUME NEW n, Appended(n), CreationsInv, ObjectsInv, NewClient(n),
           UntouchedInv', LastWriteInv', NEW client \in creations'[n].client,
           NEW path \in ReadOncePaths
    PROVE  Effective(client, path)'
           = Normal(path, OrElse(Expected(n, path)', DefaultOf(path)))
<1> DEFINE url == creations'[n].url
           platform == creations'[n].platform
           m == mergeConfigs(creations'[n].config, BeforeNull(url), n)
           params == getConnectionParams(m, url, platform, n)
<1>1. client = ClientMade(creations'[n].config, url, platform, n)
    BY DEF NewClient
<1>2. \A k \in ClientParams : client[k] = params[k]
    BY <1>1, ClientFields
<1> HIDE DEF url, platform, m, params
<1>3. \A name \in PlainNames : Get(m.plain, name) = Expected(n, <<name>>)'
    BY NewPlainOption DEF m, url
<1>4. \A name \in Nested, key \in AllKeys :
          NestedOption(m, name, key) = Expected(n, <<name, key>>)'
    BY NewNestedOption DEF m, url
<1>5. CASE path \in {<<"username">>, <<"password">>, <<"database">>, <<"application">>,
                     <<"pathname">>, <<"access_token">>, <<"request_timeout">>,
                     <<"max_open_connections">>}
    <2>1. PICK name \in PlainNames \cap ClientParams : path = <<name>>
        BY <1>5 DEF PlainNames, ClientParams
    <2>2. Effective(client, path)' = client[name]
        BY <2>1 DEF Effective
    <2>3. client[name] = params[name]
        BY <1>2, <2>1
    <2>4. params[name] = OrElse(Get(m.plain, name), DefaultOf(path))
        <3>1. name \in {"username", "password", "database", "application", "pathname",
                        "access_token", "request_timeout", "max_open_connections"}
            BY <1>5, <2>1
        <3> QED BY <2>1, <3>1, ParamPlain DEF params
    <2>5. \A v : Normal(path, v) = v
        BY <1>5 DEF Normal
    <2> QED BY <1>3, <2>1, <2>2, <2>3, <2>4, <2>5
<1>6. CASE path \in {<<"compression", "request">>, <<"compression", "response">>}
    <2>1. PICK key \in {"request", "response"} : path = <<"compression", key>>
        BY <1>6
    <2>2. Effective(client, path)' = client[key]
        BY <2>1 DEF Effective
    <2>3. client[key] = Codec(NestedOption(m, "compression", key))
        BY <1>2, <2>1, ParamNested DEF params, ClientParams
    <2>4. NestedOption(m, "compression", key) = Expected(n, path)'
        BY <1>4, <2>1 DEF Nested, AllKeys
    <2>5. \A v : Normal(path, v) = Codec(v)
        BY <2>1 DEF Normal
    <2> QED BY <2>1, <2>2, <2>3, <2>4, <2>5, Defaults, UndefinedOption
<1>7. CASE path \in {<<"log", "level">>, <<"keep_alive", "enabled">>,
                     <<"keep_alive", "idle_socket_ttl">>}
    <2>1. PICK name \in Nested \ PerRequest, key \in AllKeys \cap ClientParams :
              path = <<name, key>> /\ name # "compression"
        BY <1>7 DEF Nested, PerRequest, AllKeys, ClientParams
    <2>2. Effective(client, path)' = client[key]
        BY <2>1 DEF Effective, PerRequest
    <2>3. client[key] = params[key]
        BY <1>2, <2>1
    <2>4. params[key] = OrElse(NestedOption(m, name, key), DefaultOf(path))
        BY <1>7, <2>1, ParamNested, Defaults DEF params
    <2>5. NestedOption(m, name, key) = Expected(n, path)'
        BY <1>4, <2>1
    <2>6. \A v : Normal(path, v) = v
        BY <2>1 DEF Normal
    <2> QED BY <2>2, <2>3, <2>4, <2>5, <2>6
<1> QED BY <1>5, <1>6, <1>7, PathCases DEF ReadOncePaths

\* What was read once stays expected, whatever later clients write.
LEMMA ReadOnceKept ==
    ASSUME NEW n, Appended(n), CreationsInv, ObjectsInv, NewClient(n),
           UntouchedInv', LastWriteInv', ReadOnceInv
    PROVE  ReadOnceInv'
<1> SUFFICES ASSUME NEW i \in 1..Len(creations'), NEW client \in creations'[i].client,
                    NEW path \in ReadOncePaths
             PROVE  Effective(client, path)'
                    = Normal(path, OrElse(Expected(i, path)', DefaultOf(path)))
    BY DEF ReadOnceInv
<1>1. CASE i = n
    BY <1>1, NewReadOnce
<1>2. CASE i # n
    <2>1. i \in 1..Len(creations) /\ creations'[i] = creations[i]
        BY <1>2, OldWrites
    <2>2. path[1] \notin PerRequest
        BY DEF ReadOncePaths
    <2>3. Expected(i, path)' = Expected(i, path)
        BY <2>1, <2>2, ExpectedKept
    <2>4. Effective(client, path)' = Effective(client, path)
        BY <2>2 DEF Effective, PerRequest
    <2> QED BY <2>1, <2>3, <2>4 DEF ReadOnceInv
<1> QED BY <1>1, <1>2

-----------------------------------------------------------------------------
(* The theorems                                                             *)

\* ConfigInv is inductive.
LEMMA ConfigInvStep == ConfigInv /\ [CreateClient]_configVars => ConfigInv'
<1> SUFFICES ASSUME ConfigInv, [CreateClient]_configVars PROVE ConfigInv'
    OBVIOUS
<1>1. /\ CreationsInv /\ ObjectsInv /\ UntouchedInv /\ LastWriteInv
      /\ CompleteInv /\ ClientRefsInv /\ OwnObjectsInv /\ ReadOnceInv
    BY DEF ConfigInv
<1>2. CASE CreateClient
    <2>1. PICK n : n = Len(creations) + 1
        OBVIOUS
    <2>2. Appended(n) /\ ObjectsStep(n) /\ NewClient(n)
        BY <1>1, <1>2, <2>1, CreationStep
    <2>3. CreationsInv' /\ ObjectsInv' /\ UntouchedInv' /\ LastWriteInv'
        BY <1>1, <2>2, ObjectsKept, UntouchedKept, LastWriteKept DEF Appended
    <2>4. CompleteInv' /\ ClientRefsInv' /\ OwnObjectsInv'
        BY <1>1, <2>2, ClientsKept
    <2>5. ReadOnceInv'
        BY <1>1, <2>2, <2>3, ReadOnceKept
    <2> QED BY <2>3, <2>4, <2>5 DEF ConfigInv
<1>3. CASE UNCHANGED configVars
    <2>1. creations' = creations /\ objects' = objects
        BY <1>3 DEF configVars
    <2>2. CreationsInv' /\ ObjectsInv'
        BY <1>1, <2>1 DEF CreationsInv, ObjectsInv
    <2>3. UntouchedInv'
        BY <1>1, <2>1 DEF UntouchedInv, Wrote
    <2>4. LastWriteInv'
        BY <1>1, <2>1 DEF LastWriteInv, Wrote
    <2>5. CompleteInv' /\ ClientRefsInv' /\ OwnObjectsInv'
        BY <1>1, <2>1 DEF CompleteInv, ClientRefsInv, OwnObjectsInv
    <2>6. ReadOnceInv'
        <3>1. ASSUME NEW i, NEW path, NEW client
              PROVE  /\ Expected(i, path)' = Expected(i, path)
                     /\ Effective(client, path)' = Effective(client, path)
            BY <2>1 DEF Effective, Expected, Writers, Given
        <3> QED BY <1>1, <2>1, <3>1 DEF ReadOnceInv
    <2> QED BY <2>2, <2>3, <2>4, <2>5, <2>6 DEF ConfigInv
<1> QED BY <1>2, <1>3

\* ConfigInv holds before any client is created.
LEMMA ConfigInvInit == ConfigInit => ConfigInv
<1> SUFFICES ASSUME ConfigInit PROVE ConfigInv
    OBVIOUS
<1>1. creations = <<>> /\ Len(creations) = 0 /\ objects = Contents /\ 1..Len(creations) = {}
    BY DEF ConfigInit
<1>2. CreationsInv
    BY <1>1, ConfigAssumption DEF CreationsInv
<1> QED BY <1>1, <1>2 DEF ConfigInv, ObjectsInv, UntouchedInv, LastWriteInv, CompleteInv,
        ClientRefsInv, OwnObjectsInv, ReadOnceInv

\* ConfigInv is strong enough for OptionsInEffect.
LEMMA ConfigInvExpected == ConfigInv => OptionsInEffect
<1> SUFFICES ASSUME ConfigInv, NEW i \in DOMAIN creations, NEW client \in creations[i].client,
                    NEW path \in AllPaths \ {<<"session_id">>}
             PROVE  Effective(client, path)
                    = Normal(path, OrElse(Expected(i, path), DefaultOf(path)))
    BY DEF OptionsInEffect
<1>1. /\ CreationsInv /\ ObjectsInv /\ UntouchedInv /\ LastWriteInv
      /\ CompleteInv /\ ClientRefsInv /\ OwnObjectsInv /\ ReadOnceInv
    BY DEF ConfigInv
<1>2. i \in 1..Len(creations)
    BY <1>1 DEF CreationsInv
<1>3. CASE path[1] \notin PerRequest
    BY <1>1, <1>2, <1>3 DEF ReadOnceInv, ReadOncePaths
<1>4. CASE path[1] \in PerRequest
    <2>1. PICK name \in PerRequest, key \in Keys : path = <<name, key>>
        BY <1>4, PathCases DEF PerRequest
    <2> DEFINE nested == creations[i].config.nested
    <2>2. Effective(client, path) = Get(objects[client[name]], key)
        BY <2>1 DEF Effective, PerRequest
    <2>3. name \in Nested /\ key \in AllKeys
        BY DEF PerRequest, Nested, AllKeys
    <2>4. client[name] = RefAfter(creations[i].config, name, i)
        BY <1>1, <1>2 DEF ClientRefsInv
    <2>5. /\ ~URLRefused(creations[i].url, creations[i].platform)
          /\ DOMAIN BeforeNull(creations[i].url) = DOMAIN loadConfigOptionsFromURL(creations[i].url)
        BY <1>1, <1>2 DEF CompleteInv
    <2>6. Get(objects[client[name]], key) = Expected(i, path)
        <3>1. CASE name \in DOMAIN nested
            <4>1. client[name] = nested[name]
                BY <2>4, <3>1 DEF RefAfter, RefOrNew
            <4>2. ExpectedOfShared(i, name, key)
                BY <1>1, <1>2, <2>3, SharedExpected DEF SharedInv
            <4> QED BY <2>1, <2>5, <3>1, <4>1, <4>2 DEF ExpectedOfShared
        <3>2. CASE name \notin DOMAIN nested
            <4>1. client[name] = <<i, name>>
                BY <2>4, <3>2 DEF RefAfter, RefOrNew
            <4>2. creations[i].client # {}
                OBVIOUS
            <4> QED BY <1>1, <1>2, <2>1, <2>3, <3>2, <4>1, <4>2, OwnExpected DEF OwnObjectsInv
        <3> QED BY <3>1, <3>2
    <2>7. DefaultOf(path) = "undefined" /\ \A v : Normal(path, v) = v
        BY <2>1, Defaults DEF Normal, PerRequest
    <2> QED BY <2>2, <2>6, <2>7, UndefinedOption
<1> QED BY <1>3, <1>4

\* Every option of every client is at all times what its URL says, else what
\* the caller gave, else the default, whatever URLs, configurations and shared
\* objects there are.
THEOREM OptionsStayInEffect == ConfigSpec => []OptionsInEffect
BY ConfigInvInit, ConfigInvStep, ConfigInvExpected, PTL DEF ConfigSpec

\* A later createClient changes what an existing client uses only for a setting
\* or a header, only where both configurations refer to one object, and only if
\* its URL names that key (mergeConfigs writes to the caller's own objects).
OptionsIsolated ==
    LET new == creations'[Len(creations')]
    IN  \A i \in DOMAIN creations : \A client \in creations[i].client : \A path \in AllPaths :
            Effective(client, path)' # Effective(client, path) =>
                /\ path[1] \in PerRequest
                /\ path[1] \in DOMAIN creations[i].config.nested
                /\ path[1] \in DOMAIN new.config.nested
                /\ new.config.nested[path[1]] = creations[i].config.nested[path[1]]
                /\ ~URLRefused(new.url, new.platform)
                /\ path \in DOMAIN BeforeNull(new.url)

\* A creation is seen by other clients only through shared objects.
LEMMA StepIsolated ==
    ASSUME ConfigInv, CreateClient
    PROVE  OptionsIsolated
<1>1. /\ CreationsInv /\ ObjectsInv /\ ClientRefsInv
    BY DEF ConfigInv
<1>2. PICK n : n = Len(creations) + 1
    OBVIOUS
<1>3. Appended(n) /\ ObjectsStep(n)
    BY <1>1, <1>2, CreationStep
<1> DEFINE new == creations'[n]
<1>4. new = creations'[Len(creations')] /\ new.config \in Configs
    BY <1>1, <1>3, OldWrites DEF Appended, CreationsInv
<1> SUFFICES ASSUME NEW i \in DOMAIN creations, NEW client \in creations[i].client,
                    NEW path \in AllPaths, Effective(client, path)' # Effective(client, path)
             PROVE  /\ path[1] \in PerRequest
                    /\ path[1] \in DOMAIN creations[i].config.nested
                    /\ path[1] \in DOMAIN new.config.nested
                    /\ new.config.nested[path[1]] = creations[i].config.nested[path[1]]
                    /\ ~URLRefused(new.url, new.platform)
                    /\ path \in DOMAIN BeforeNull(new.url)
    BY <1>4 DEF OptionsIsolated
<1>5. Len(path) # 1 /\ path[1] \in PerRequest
    BY DEF Effective, PerRequest
<1>6. PICK name \in PerRequest, key \in Keys : path = <<name, key>>
    <2>1. path # <<"session_id">>
        BY <1>5
    <2> QED BY <1>5, <2>1, PathCases DEF PerRequest
<1> DEFINE ref == client[name]
<1>7. Get(objects'[ref], key) # Get(objects[ref], key)
    BY <1>6 DEF Effective, PerRequest
<1>8. i \in 1..Len(creations) /\ creations[i].config \in Configs
    BY <1>1 DEF CreationsInv
<1>9. ref = RefAfter(creations[i].config, name, i) /\ ref \in DOMAIN objects
    BY <1>1, <1>8 DEF ClientRefsInv
<1>10. name \in Nested /\ key \in AllKeys
    BY DEF PerRequest, Nested, AllKeys
<1>11. ref \in DOMAIN Contents
    BY <1>3, <1>7, <1>9 DEF ObjectsStep
<1>12. name \in DOMAIN creations[i].config.nested /\ creations[i].config.nested[name] = ref
    <2>1. i \in 1..MaxCreations
        <3>1. i <= Len(creations) /\ Len(creations) <= MaxCreations /\ Len(creations) \in Nat
            BY <1>1, <1>8 DEF CreationsInv
        <3> QED BY <1>8, <3>1, ConfigAssumption
    <2>2. ref # <<i, name>>
        BY <1>10, <1>11, <2>1, ConfigAssumption
    <2> QED BY <1>9, <2>2 DEF RefAfter, RefOrNew
<1> HIDE DEF ref, new
<1>13. PICK other \in Nested : WroteBy(new, other, ref, key)
    BY <1>3, <1>7, <1>10, <1>11 DEF ObjectsStep, new
<1>14. other = name
    BY <1>4, <1>8, <1>12, <1>13, ConfigAssumption DEF WroteBy
<1> QED BY <1>6, <1>12, <1>13, <1>14 DEF WroteBy

\* Clients are isolated from each other but for the objects they share.
THEOREM OthersOptionsAreKept == ConfigSpec => [][OptionsIsolated]_configVars
<1>1. ConfigInv /\ [CreateClient]_configVars => [OptionsIsolated]_configVars
    BY StepIsolated
<1> QED BY <1>1, ConfigInvInit, ConfigInvStep, PTL DEF ConfigSpec

\* What url_configuration.ts says of URL parameters holds but for session_id, and
\* for the settings and headers that a later client's URL wrote to a shared object.
OwnURLOverrides ==
    \A i \in DOMAIN creations : \A client \in creations[i].client :
        LET own == loadConfigOptionsFromURL(creations[i].url)
        IN  \A path \in (DOMAIN own \cap AllPaths) \ {<<"session_id">>} :
                (\A j \in Writers(i, path) : j <= i) =>
                    Effective(client, path) = Normal(path, OrElse(own[path], DefaultOf(path)))

\* ConfigInv is strong enough for OwnURLOverrides.
LEMMA ConfigInvOverrides == ConfigInv => OwnURLOverrides
<1> SUFFICES ASSUME ConfigInv, NEW i \in DOMAIN creations, NEW client \in creations[i].client,
                    NEW path \in DOMAIN loadConfigOptionsFromURL(creations[i].url),
                    path \in AllPaths, path # <<"session_id">>,
                    \A j \in Writers(i, path) : j <= i
             PROVE  Effective(client, path) = Normal(path,
                        OrElse(loadConfigOptionsFromURL(creations[i].url)[path], DefaultOf(path)))
    BY DEF OwnURLOverrides
<1>1. Effective(client, path) = Normal(path, OrElse(Expected(i, path), DefaultOf(path)))
    BY ConfigInvExpected DEF OptionsInEffect
<1>2. /\ CreationsInv /\ i \in 1..Len(creations)
      /\ ~URLRefused(creations[i].url, creations[i].platform)
      /\ path \in DOMAIN BeforeNull(creations[i].url)
    BY DEF ConfigInv, CreationsInv, CompleteInv
<1>3. CASE Writers(i, path) = {}
    BY <1>1, <1>3 DEF Expected
<1>4. CASE Writers(i, path) # {}
    <2> DEFINE last == CHOOSE j \in Writers(i, path) : \A k \in Writers(i, path) : k <= j
    <2>1. last \in Writers(i, path) /\ \A k \in Writers(i, path) : k <= last
        BY <1>2, <1>4, LastWriter
    <2>2. Expected(i, path) = loadConfigOptionsFromURL(creations[last].url)[path]
        BY <1>4 DEF Expected
    <2>3. i \in Writers(i, path)
        BY <1>2, <1>4 DEF Writers
    <2> HIDE DEF last
    <2>4. last = i
        <3>1. last <= i /\ i <= last
            BY <2>1, <2>3
        <3>2. last \in 1..Len(creations) /\ i \in 1..Len(creations) /\ Len(creations) \in Nat
            BY <1>2, <2>1 DEF Writers, CreationsInv
        <3> QED BY <3>1, <3>2
    <2> QED BY <1>1, <2>2, <2>4
<1> QED BY <1>3, <1>4

\* The URL overrides the configuration object, but for session_id and for what a
\* later client has written to a shared object.
THEOREM URLOverridesTheRest == ConfigSpec => []OwnURLOverrides
BY ConfigInvInit, ConfigInvStep, ConfigInvOverrides, PTL DEF ConfigSpec

=============================================================================
