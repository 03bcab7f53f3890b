-------------------------- MODULE LocationConfigProofs --------------------------
(***************************************************************************)
(* Theorems about LocationConfig for any sections, locations, directives   *)
(* and arguments.                                                          *)
(***************************************************************************)
EXTENDS LocationConfig, SequenceTheorems, TLAPS

Settings == Values \cup Locations \cup {NULL, DefaultProvider}
Configs == [fields: [Fields -> Settings], servers: [Locations -> Sections \cup {NULL}]]

Shape ==
  /\ stage \in {"reading", "serving"}
  /\ config \in [Sections -> Configs]
  /\ merged \in Configs
  /\ given \in [Sections -> [Directives -> Values \cup {NULL}]]
  /\ locations \in [Locations -> Sections \cup {NULL}]
  /\ matched \in Seq(Sections)

\* A section has what it was last given, and the provider by default.
GivenInv ==
  \A s \in Sections, d \in Directives :
    config[s].fields[FieldOf[d]] =
      IF given[s][d] # NULL THEN given[s][d]
      ELSE IF d = "GrassrootsCache" THEN DefaultProvider ELSE NULL

\* A server is only ever in the config of its own section.
HoldsOwn == \A s \in Sections, l \in Locations : config[s].servers[l] \in {s, NULL}

\* v is the last of the values that is not NULL, if there is any.
LastOf(values, v) ==
  \/ v = NULL /\ \A i \in DOMAIN values : values[i] = NULL
  \/ \E i \in DOMAIN values : /\ values[i] = v /\ v # NULL
                              /\ \A j \in DOMAIN values : j > i => values[j] = NULL

FieldValues(f) == [i \in 1 .. Len(matched) |-> config[matched[i]].fields[f]]
ServersAt(l) == [i \in 1 .. Len(matched) |-> config[matched[i]].servers[l]]

\* Merging one section after the other leaves the last of each setting.
MergedInv ==
  /\ matched = <<>> => merged = CreateConfig(NULL)
  /\ matched # <<>> =>
       /\ \A f \in Fields : LastOf(FieldValues(f), merged.fields[f])
       /\ \A l \in Locations : LastOf(ServersAt(l), merged.servers[l])

ReadingInv == stage = "reading" => matched = <<>>

\* GivenInv is apart: it needs the directives to set fields of their own.
MergeInv == Shape /\ HoldsOwn /\ MergedInv /\ ReadingInv

-----------------------------------------------------------------------------
LEMMA Created ==
  ASSUME NEW context \in Locations \cup {NULL}
  PROVE  /\ CreateConfig(context) \in Configs
         /\ \A f \in Fields \ {"context", "provider_name"} :
              CreateConfig(context).fields[f] = NULL
         /\ CreateConfig(context).fields["provider_name"] = DefaultProvider
         /\ \A l \in Locations : CreateConfig(context).servers[l] = NULL
BY DEF CreateConfig, Configs, Settings, Fields

LEMMA FieldsOfDirectives ==
  ASSUME NEW d \in Directives
  PROVE  /\ FieldOf[d] \in Fields \ {"context"}
         /\ FieldOf[d] = "provider_name" <=> d = "GrassrootsCache"
BY ConfigAssumption DEF FieldOf, Fields

LEMMA Merged ==
  ASSUME NEW b \in Configs, NEW n \in Configs
  PROVE  /\ MergeConfigs(b, n) \in Configs
         /\ \A f \in Fields : MergeConfigs(b, n).fields[f] =
              IF n.fields[f] # NULL THEN n.fields[f] ELSE b.fields[f]
         /\ \A l \in Locations : MergeConfigs(b, n).servers[l] =
              IF n.servers[l] # NULL THEN n.servers[l] ELSE b.servers[l]
BY DEF MergeConfigs, Overlay, Configs

\* A value that is merged over the last of the others is the last of them all.
LEMMA LastGrows ==
  ASSUME NEW n \in Nat, NEW old, DOMAIN old = 1 .. n, NEW new, DOMAIN new = 1 .. n + 1,
         \A i \in 1 .. n : new[i] = old[i], NEW v, LastOf(old, v)
  PROVE  LastOf(new, IF new[n + 1] # NULL THEN new[n + 1] ELSE v)
<1>1. n + 1 \in 1 .. n + 1 /\ \A i \in 1 .. n + 1 : i \in 1 .. n \/ i = n + 1
  OBVIOUS
<1>2. CASE new[n + 1] # NULL
  BY <1>1, <1>2 DEF LastOf
<1>3. CASE new[n + 1] = NULL
  <2>1. CASE v = NULL /\ \A i \in DOMAIN old : old[i] = NULL
    BY <1>1, <1>3, <2>1 DEF LastOf
  <2>2. CASE \E i \in DOMAIN old : /\ old[i] = v /\ v # NULL
                                   /\ \A j \in DOMAIN old : j > i => old[j] = NULL
    <3>1. PICK i \in 1 .. n : /\ old[i] = v /\ v # NULL
                              /\ \A j \in 1 .. n : j > i => old[j] = NULL
      BY <2>2
    <3>2. i \in 1 .. n + 1 /\ \A j \in 1 .. n + 1 : j > i => new[j] = NULL
      BY <1>1, <1>3, <3>1
    <3> QED
      BY <1>3, <3>1, <3>2 DEF LastOf
  <2> QED
    BY <2>1, <2>2 DEF LastOf
<1> QED
  BY <1>2, <1>3

LEMMA LastOfOne ==
  ASSUME NEW values, DOMAIN values = 1 .. 1
  PROVE  LastOf(values, values[1])
<1>1. 1 \in 1 .. 1 /\ \A i \in 1 .. 1 : i = 1
  OBVIOUS
<1> QED
  BY <1>1 DEF LastOf

LEMMA InitMergeInv == Init => MergeInv
<1> SUFFICES ASSUME Init PROVE MergeInv
  OBVIOUS
<1>1. Shape
  <2>1. \A s \in Sections : CreateConfig(LocationOf[s]) \in Configs
    BY Created, ConfigAssumption
  <2>2. CreateConfig(NULL) \in Configs
    BY Created
  <2> QED
    BY <2>1, <2>2 DEF Init, Shape
<1>2. HoldsOwn
  BY Created, ConfigAssumption DEF Init, HoldsOwn
<1> QED
  BY <1>1, <1>2 DEF Init, MergeInv, MergedInv, ReadingInv

\* While the configuration is read nothing is merged yet.
LEMMA PutKeepsMergeInv ==
  ASSUME MergeInv, NEW s \in Sections, NEW d \in Directives, NEW v \in Values,
         SetGrassrootsConfigString(s, d, v) \/ (d = "GrassrootsCache" /\ SetGrassrootsCacheProvider(s, v))
  PROVE  MergeInv'
<1>1. /\ stage = "reading" /\ config' = [config EXCEPT ![s].fields[FieldOf[d]] = v]
      /\ given' = [given EXCEPT ![s][d] = v] /\ UNCHANGED <<stage, matched, merged>>
      /\ \/ locations' = locations
         \/ locations' = [locations EXCEPT ![LocationOf[s]] = IF @ = NULL THEN s ELSE @]
  BY DEF SetGrassrootsConfigString, SetGrassrootsCacheProvider, Put
<1>2. config' \in [Sections -> Configs]
  <2>1. FieldOf[d] \in Fields
    BY FieldsOfDirectives
  <2> QED
    BY <1>1, <2>1 DEF MergeInv, Shape, Configs, Settings
<1>3. Shape'
  BY <1>1, <1>2, ConfigAssumption DEF MergeInv, Shape
<1>4. \A u \in Sections : config'[u].servers = config[u].servers
  BY <1>1 DEF MergeInv, Shape, Configs
<1>5. HoldsOwn'
  BY <1>4 DEF MergeInv, HoldsOwn
<1> QED
  BY <1>1, <1>3, <1>5 DEF MergeInv, MergedInv, ReadingInv

LEMMA MakeServersKeepsMergeInv ==
  ASSUME MergeInv, MakeServers
  PROVE  MergeInv'
<1>1. /\ stage = "reading" /\ stage' = "serving"
      /\ UNCHANGED <<given, locations, matched, merged>> /\ matched = <<>>
  BY DEF MakeServers, MergeInv, ReadingInv
<1>2. PICK made : config' = [s \in Sections |->
            [config[s] EXCEPT !.servers = [l \in Locations |->
               IF l \in made /\ locations[l] = s THEN s ELSE NULL]]]
  BY DEF MakeServers
<1>3. config' \in [Sections -> Configs] /\ HoldsOwn'
  BY <1>2 DEF MergeInv, Shape, Configs, HoldsOwn
<1> QED
  BY <1>1, <1>3 DEF MergeInv, Shape, MergedInv, ReadingInv

LEMMA MatchKeepsMergeInv ==
  ASSUME MergeInv, NEW s \in Sections, Match(s)
  PROVE  MergeInv'
<1> DEFINE n == Len(matched)
<1>1. /\ stage = "serving" /\ matched' = Append(matched, s)
      /\ UNCHANGED <<config, given, locations, stage>>
      /\ merged' = IF matched = <<>> THEN config[s] ELSE MergeConfigs(merged, config[s])
  BY DEF Match
<1>2. matched \in Seq(Sections) /\ n \in Nat /\ config[s] \in Configs /\ merged \in Configs
  BY LenProperties DEF MergeInv, Shape
<1>3. /\ Append(matched, s) \in Seq(Sections) /\ Len(Append(matched, s)) = n + 1
      /\ Append(matched, s)[n + 1] = s
      /\ \A i \in 1 .. n : Append(matched, s)[i] = matched[i]
  BY <1>2, AppendProperties
<1>4. Shape'
  BY <1>1, <1>2, <1>3, Merged DEF MergeInv, Shape
<1>5. matched' # <<>>
  <2>1. Len(matched') = n + 1
    BY <1>1, <1>3
  <2> QED
    BY <1>2, <2>1
<1>6. \A f \in Fields : LastOf(FieldValues(f)', merged'.fields[f])
  <2> TAKE f \in Fields
  <2>1. FieldValues(f)' = [i \in 1 .. n + 1 |-> config[matched'[i]].fields[f]]
    BY <1>1, <1>3 DEF FieldValues
  <2>2. /\ FieldValues(f)'[n + 1] = config[s].fields[f]
        /\ \A i \in 1 .. n : FieldValues(f)'[i] = FieldValues(f)[i]
    BY <1>1, <1>2, <1>3, <2>1 DEF FieldValues
  <2>3. DOMAIN FieldValues(f) = 1 .. n /\ DOMAIN FieldValues(f)' = 1 .. n + 1
    BY <2>1 DEF FieldValues
  <2>4. CASE matched = <<>>
    BY <1>1, <2>2, <2>3, <2>4, LastOfOne
  <2>5. CASE matched # <<>>
    <3>1. LastOf(FieldValues(f), merged.fields[f])
      BY <2>5 DEF MergeInv, MergedInv
    <3>2. merged'.fields[f] = IF config[s].fields[f] # NULL THEN config[s].fields[f]
                              ELSE merged.fields[f]
      BY <1>1, <1>2, <2>5, Merged
    <3> QED
      BY <1>2, <2>2, <2>3, <3>1, <3>2, LastGrows
  <2> QED
    BY <2>4, <2>5
<1>7. \A l \in Locations : LastOf(ServersAt(l)', merged'.servers[l])
  <2> TAKE l \in Locations
  <2>1. ServersAt(l)' = [i \in 1 .. n + 1 |-> config[matched'[i]].servers[l]]
    BY <1>1, <1>3 DEF ServersAt
  <2>2. /\ ServersAt(l)'[n + 1] = config[s].servers[l]
        /\ \A i \in 1 .. n : ServersAt(l)'[i] = ServersAt(l)[i]
    BY <1>1, <1>2, <1>3, <2>1 DEF ServersAt
  <2>3. DOMAIN ServersAt(l) = 1 .. n /\ DOMAIN ServersAt(l)' = 1 .. n + 1
    BY <2>1 DEF ServersAt
  <2>4. CASE matched = <<>>
    BY <1>1, <2>2, <2>3, <2>4, LastOfOne
  <2>5. CASE matched # <<>>
    <3>1. LastOf(ServersAt(l), merged.servers[l])
      BY <2>5 DEF MergeInv, MergedInv
    <3>2. merged'.servers[l] = IF config[s].servers[l] # NULL THEN config[s].servers[l]
                               ELSE merged.servers[l]
      BY <1>1, <1>2, <2>5, Merged
    <3> QED
      BY <1>2, <2>2, <2>3, <3>1, <3>2, LastGrows
  <2> QED
    BY <2>4, <2>5
<1>8. HoldsOwn'
  BY <1>1 DEF MergeInv, HoldsOwn
<1>9. MergedInv'
  BY <1>5, <1>6, <1>7 DEF MergedInv
<1> QED
  BY <1>1, <1>4, <1>8, <1>9 DEF MergeInv, ReadingInv

LEMMA NextKeepsMergeInv == MergeInv /\ [Next]_vars => MergeInv'
<1> SUFFICES ASSUME MergeInv, [Next]_vars PROVE MergeInv'
  OBVIOUS
<1>1. CASE UNCHANGED vars
  <2>1. \A f : FieldValues(f)' = FieldValues(f)
    BY <1>1 DEF vars, FieldValues
  <2>2. \A l : ServersAt(l)' = ServersAt(l)
    BY <1>1 DEF vars, ServersAt
  <2> QED
    BY <1>1, <2>1, <2>2 DEF vars, MergeInv, Shape, HoldsOwn, MergedInv, ReadingInv
<1>2. CASE NextRequest
  <2>1. CreateConfig(NULL) \in Configs
    BY Created
  <2>2. <<>> \in Seq(Sections)
    BY EmptySeq
  <2> QED
    BY <1>2, <2>1, <2>2 DEF NextRequest, MergeInv, Shape, HoldsOwn, MergedInv, ReadingInv
<1> QED
  BY <1>1, <1>2, PutKeepsMergeInv, MakeServersKeepsMergeInv, MatchKeepsMergeInv DEF Next

LEMMA Invariance == Spec => []MergeInv
BY InitMergeInv, NextKeepsMergeInv, PTL DEF Spec

\* Every config, of a section or merged for a request, has each of its settings and
\* a place for each location's server, as the code's copies and overlays rely on.
THEOREM TypeCorrect == Spec => []TypeOK
<1>1. MergeInv => TypeOK
  BY DEF MergeInv, Shape, TypeOK, Configs, Settings
<1> QED
  BY <1>1, Invariance, PTL

\* Merging is associative on the configs of any sections, so a request gets the
\* same config however httpd groups the sections that it merges.
THEOREM MergeAssociatesHolds == Spec => []MergeAssociates
<1>1. MergeInv => MergeAssociates
  <2> SUFFICES ASSUME MergeInv, NEW s \in Sections, NEW t \in Sections
               PROVE  MergeConfigs(MergeConfigs(merged, config[s]), config[t])
                        = MergeConfigs(merged, MergeConfigs(config[s], config[t]))
    BY DEF MergeAssociates
  <2>1. merged \in Configs /\ config[s] \in Configs /\ config[t] \in Configs
    BY DEF MergeInv, Shape
  <2> DEFINE left == MergeConfigs(MergeConfigs(merged, config[s]), config[t])
             right == MergeConfigs(merged, MergeConfigs(config[s], config[t]))
  <2>2. left \in Configs /\ right \in Configs
    BY <2>1, Merged
  <2>3. \A f \in Fields : left.fields[f] = right.fields[f]
    BY <2>1, Merged
  <2>4. \A l \in Locations : left.servers[l] = right.servers[l]
    BY <2>1, Merged
  <2> HIDE DEF left, right
  <2>5. left = right
    BY <2>2, <2>3, <2>4 DEF Configs
  <2> QED
    BY <2>5 DEF left, right
<1> QED
  BY <1>1, Invariance, PTL

LEMMA LastWithIs ==
  ASSUME NEW n \in Nat, NEW found \in SUBSET (1 .. n), NEW i \in found,
         \A j \in found : j <= i
  PROVE  (CHOOSE k \in found : \A j \in found : j <= k) = i
<1> DEFINE k == CHOOSE k \in found : \A j \in found : j <= k
<1>1. k \in found /\ \A j \in found : j <= k
  OBVIOUS
<1> HIDE DEF k
<1>2. k = i
  BY <1>1
<1> QED
  BY <1>2 DEF k

\* A request that matches the section holding a location's server, before or after
\* others, has that server in its config, and no other request has it.
THEOREM ServerOfMatchedSectionHolds == Spec => []ServerOfMatchedSection
<1>1. MergeInv => ServerOfMatchedSection
  <2> SUFFICES ASSUME MergeInv, NEW l \in Locations
               PROVE  LET Holds(s) == config[s].servers[l] # NULL
                      IN RequestConfig.servers[l] = LastWith(matched, Holds)
    BY DEF ServerOfMatchedSection
  <2> DEFINE n == Len(matched)
             found == {i \in 1 .. n : config[matched[i]].servers[l] # NULL}
             held == RequestConfig.servers[l]
  <2>1. matched \in Seq(Sections) /\ n \in Nat /\ \A i \in 1 .. n : matched[i] \in Sections
    BY LenProperties, ElementOfSeq DEF MergeInv, Shape
  <2>2. held = merged.servers[l]
    <3>1. CreateConfig(NULL) \in Configs /\ merged \in Configs
          /\ CreateConfig(NULL).servers[l] = NULL
      BY Created DEF MergeInv, Shape
    <3> QED
      BY <3>1, Merged DEF RequestConfig
  <2>3. found = {} => held = NULL
    <3>1. CASE matched = <<>>
      BY <2>2, <3>1, Created DEF MergeInv, MergedInv
    <3>2. CASE matched # <<>>
      BY <2>2, <3>2 DEF MergeInv, MergedInv, LastOf, ServersAt
    <3> QED
      BY <3>1, <3>2
  <2>4. found # {} => \E i \in found : held = matched[i] /\ \A j \in found : j <= i
    <3> SUFFICES ASSUME found # {}
                 PROVE  \E i \in found : held = matched[i] /\ \A j \in found : j <= i
      OBVIOUS
    <3>1. matched # <<>> /\ DOMAIN ServersAt(l) = 1 .. n
          /\ \A i \in 1 .. n : ServersAt(l)[i] = config[matched[i]].servers[l]
      BY <2>1 DEF ServersAt
    <3>2. LastOf(ServersAt(l), held)
      BY <2>2, <3>1 DEF MergeInv, MergedInv
    <3>3. PICK i \in 1 .. n : /\ ServersAt(l)[i] = held /\ held # NULL
                              /\ \A j \in 1 .. n : j > i => ServersAt(l)[j] = NULL
      BY <3>1, <3>2 DEF LastOf
    <3>4. i \in found /\ \A j \in found : j <= i
      BY <3>1, <3>3
    <3>5. held = matched[i]
      BY <2>1, <3>1, <3>3 DEF MergeInv, HoldsOwn
    <3> QED
      BY <3>4, <3>5
  <2>5. held = IF found = {} THEN NULL
               ELSE matched[CHOOSE i \in found : \A j \in found : j <= i]
    <3>1. CASE found = {}
      BY <2>3, <3>1
    <3>2. CASE found # {}
      <4>1. PICK i \in found : held = matched[i] /\ \A j \in found : j <= i
        BY <2>4, <3>2
      <4>2. (CHOOSE k \in found : \A j \in found : j <= k) = i
        BY <2>1, <4>1, LastWithIs
      <4> QED
        BY <3>2, <4>1, <4>2
    <3> QED
      BY <3>1, <3>2
  <2> QED
    BY <2>5, Zenon DEF LastWith
<1> QED
  BY <1>1, Invariance, PTL

-----------------------------------------------------------------------------
\* Where every directive has a field of its own, a section has what it was given.
LEMMA OwnFields ==
  ASSUME "GrassrootsReferenceServicesPath" \notin Directives,
         NEW d \in Directives, NEW e \in Directives, FieldOf[d] = FieldOf[e]
  PROVE  d = e
<1>1. /\ d \in DOMAIN FieldOf \ {"GrassrootsReferenceServicesPath"}
      /\ e \in DOMAIN FieldOf \ {"GrassrootsReferenceServicesPath"}
  BY ConfigAssumption
<1> QED
  BY <1>1 DEF FieldOf

LEMMA InitGivenInv == Init => GivenInv
<1> SUFFICES ASSUME Init, NEW s \in Sections, NEW d \in Directives
             PROVE  config[s].fields[FieldOf[d]] =
                      IF d = "GrassrootsCache" THEN DefaultProvider ELSE NULL
  BY DEF Init, GivenInv
<1>1. config[s] = CreateConfig(LocationOf[s]) /\ LocationOf[s] \in Locations
  BY ConfigAssumption DEF Init
<1> QED
  BY <1>1, Created, FieldsOfDirectives

LEMMA NextKeepsGivenInv ==
  ASSUME "GrassrootsReferenceServicesPath" \notin Directives,
         MergeInv, GivenInv, [Next]_vars
  PROVE  GivenInv'
<1>1. ASSUME NEW s \in Sections, NEW d \in Directives, NEW v \in Values, Put(s, d, v)
      PROVE  GivenInv'
  <2> SUFFICES ASSUME NEW u \in Sections, NEW e \in Directives
               PROVE  config'[u].fields[FieldOf[e]] =
                        IF given'[u][e] # NULL THEN given'[u][e]
                        ELSE IF e = "GrassrootsCache" THEN DefaultProvider ELSE NULL
    BY DEF GivenInv
  <2>1. /\ config' = [config EXCEPT ![s].fields[FieldOf[d]] = v]
        /\ given' = [given EXCEPT ![s][d] = v] /\ v # NULL
    BY <1>1, ConfigAssumption DEF Put
  <2>2. FieldOf[d] \in Fields /\ FieldOf[e] \in Fields
    BY FieldsOfDirectives
  <2>3. config[u].fields[FieldOf[e]] =
          IF given[u][e] # NULL THEN given[u][e]
          ELSE IF e = "GrassrootsCache" THEN DefaultProvider ELSE NULL
    BY DEF GivenInv
  <2>4. CASE u = s /\ e = d
    <3>1. config'[u].fields[FieldOf[e]] = v
      BY <2>1, <2>2, <2>4 DEF MergeInv, Shape, Configs
    <3>2. given'[u][e] = v
      BY <2>1, <2>4 DEF MergeInv, Shape
    <3> QED
      BY <2>1, <3>1, <3>2
  <2>5. CASE u # s \/ e # d
    <3>1. FieldOf[e] # FieldOf[d] \/ u # s
      BY <2>5, OwnFields
    <3>2. config'[u].fields[FieldOf[e]] = config[u].fields[FieldOf[e]]
      BY <2>1, <2>2, <3>1 DEF MergeInv, Shape, Configs
    <3>3. given'[u][e] = given[u][e]
      BY <2>1, <2>5 DEF MergeInv, Shape
    <3> QED
      BY <2>3, <3>2, <3>3
  <2> QED
    BY <2>4, <2>5
<1>2. CASE MakeServers
  <2>1. PICK made : config' = [s \in Sections |->
            [config[s] EXCEPT !.servers = [l \in Locations |->
               IF l \in made /\ locations[l] = s THEN s ELSE NULL]]]
    BY <1>2 DEF MakeServers
  <2>2. \A s \in Sections : config'[s].fields = config[s].fields
    BY <2>1 DEF MergeInv, Shape, Configs
  <2>3. given' = given
    BY <1>2 DEF MakeServers
  <2> QED
    BY <2>2, <2>3 DEF GivenInv
<1>3. CASE UNCHANGED <<config, given>>
  BY <1>3 DEF GivenInv
<1> QED
  BY <1>1, <1>2, <1>3
  DEF Next, SetGrassrootsConfigString, SetGrassrootsCacheProvider, Match, NextRequest, vars

\* A request has each setting from the last matching section that gives it, whatever
\* the sections before and after that leave out, except the provider, which is always
\* that of the last section: provided that no section uses the one directive which
\* sets the field of another.
THEOREM LastSectionWinsHolds ==
  ASSUME "GrassrootsReferenceServicesPath" \notin Directives
  PROVE  Spec => []LastSectionWins
<1>1. MergeInv /\ GivenInv => LastSectionWins
  <2> SUFFICES ASSUME MergeInv, GivenInv, NEW d \in Directives
               PROVE  LET Has(s) == given[s][d] # NULL
                          Any(s) == TRUE
                          giver == IF d = "GrassrootsCache" THEN LastWith(matched, Any)
                                   ELSE LastWith(matched, Has)
                          value == IF giver = NULL THEN NULL ELSE given[giver][d]
                      IN RequestConfig.fields[DocumentedFieldOf[d]] =
                           IF d = "GrassrootsCache" /\ value = NULL
                           THEN DefaultProvider ELSE value
    BY DEF LastSectionWins
  <2> DEFINE n == Len(matched)
             f == FieldOf[d]
             set == RequestConfig.fields[f]
  <2>1. DocumentedFieldOf[d] = f
    <3>1. d \in DOMAIN FieldOf /\ d # "GrassrootsReferenceServicesPath"
      BY ConfigAssumption
    <3> QED
      BY <3>1 DEF DocumentedFieldOf, FieldOf
  <2>2. matched \in Seq(Sections) /\ n \in Nat /\ \A i \in 1 .. n : matched[i] \in Sections
    BY LenProperties, ElementOfSeq DEF MergeInv, Shape
  <2>3. f \in Fields \ {"context"} /\ (f = "provider_name" <=> d = "GrassrootsCache")
    BY FieldsOfDirectives
  <2>4. set = IF merged.fields[f] # NULL THEN merged.fields[f] ELSE CreateConfig(NULL).fields[f]
    <3>1. CreateConfig(NULL) \in Configs /\ merged \in Configs
      BY Created DEF MergeInv, Shape
    <3> QED
      BY <2>3, <3>1, Merged DEF RequestConfig
  <2>5. /\ matched = <<>> => merged.fields[f] = IF d = "GrassrootsCache" THEN DefaultProvider ELSE NULL
        /\ matched # <<>> => LastOf(FieldValues(f), merged.fields[f])
        /\ CreateConfig(NULL).fields[f] = IF d = "GrassrootsCache" THEN DefaultProvider ELSE NULL
    BY <2>3, Created DEF MergeInv, MergedInv
  <2>6. /\ DOMAIN FieldValues(f) = 1 .. n
        /\ \A i \in 1 .. n : FieldValues(f)[i] =
             IF given[matched[i]][d] # NULL THEN given[matched[i]][d]
             ELSE IF d = "GrassrootsCache" THEN DefaultProvider ELSE NULL
    BY <2>2 DEF FieldValues, GivenInv
  <2>7. matched = <<>> <=> n = 0
    BY <2>2, EmptySeq
  <2> HIDE DEF n, f, set
  <2>8. CASE d # "GrassrootsCache"
    <3> DEFINE found == {i \in 1 .. n : given[matched[i]][d] # NULL}
               giver == IF found = {} THEN NULL
                        ELSE matched[CHOOSE i \in found : \A j \in found : j <= i]
    <3>1. set = IF giver = NULL THEN NULL ELSE given[giver][d]
      <4>1. CASE found = {}
        <5>1. merged.fields[f] = NULL
          BY <2>5, <2>6, <2>8, <4>1 DEF LastOf
        <5> QED
          BY <2>4, <2>5, <2>8, <4>1, <5>1
      <4>2. CASE found # {}
        <5>1. n # 0
          BY <4>2
        <5>2. PICK i \in 1 .. n : /\ FieldValues(f)[i] = merged.fields[f] /\ merged.fields[f] # NULL
                                  /\ \A j \in 1 .. n : j > i => FieldValues(f)[j] = NULL
          BY <2>5, <2>6, <2>7, <2>8, <4>2, <5>1 DEF LastOf
        <5>3. i \in found /\ merged.fields[f] = given[matched[i]][d] /\ \A j \in found : j <= i
          BY <2>2, <2>6, <2>8, <5>2 DEF n
        <5>4. (CHOOSE k \in found : \A j \in found : j <= k) = i
          BY <2>2, <5>3, LastWithIs
        <5>5. matched[i] # NULL
          BY <2>2, <5>2, ConfigAssumption
        <5> QED
          BY <2>4, <4>2, <5>2, <5>3, <5>4, <5>5
      <4> QED
        BY <4>1, <4>2
    <3>2. LET Has(s) == given[s][d] # NULL IN LastWith(matched, Has) = giver
      BY Zenon DEF LastWith, n
    <3> QED
      BY <2>1, <2>8, <3>1, <3>2 DEF set
  <2>9. CASE d = "GrassrootsCache"
    <3> DEFINE all == {i \in 1 .. n : TRUE}
               giver == IF all = {} THEN NULL
                        ELSE matched[CHOOSE i \in all : \A j \in all : j <= i]
               value == IF giver = NULL THEN NULL ELSE given[giver][d]
    <3>1. set = IF value = NULL THEN DefaultProvider ELSE value
      <4>1. CASE n = 0
        <5>1. all = {}
          BY <4>1
        <5> QED
          BY <2>4, <2>5, <2>7, <2>9, <4>1, <5>1, MergeAssumption
      <4>2. CASE n # 0
        <5>1. n \in all /\ \A j \in all : j <= n
          BY <2>2, <4>2 DEF n
        <5>2. (CHOOSE k \in all : \A j \in all : j <= k) = n
          BY <2>2, <5>1, LastWithIs DEF n
        <5>3. giver = matched[n] /\ matched[n] \in Sections /\ matched[n] # NULL
          BY <2>2, <5>1, <5>2, ConfigAssumption DEF n
        <5>4. FieldValues(f)[n] # NULL
          BY <2>6, <2>9, <5>1, MergeAssumption
        <5>5. merged.fields[f] = FieldValues(f)[n] /\ merged.fields[f] # NULL
          <6>1. PICK i \in 1 .. n : /\ FieldValues(f)[i] = merged.fields[f] /\ merged.fields[f] # NULL
                                    /\ \A j \in 1 .. n : j > i => FieldValues(f)[j] = NULL
            BY <2>5, <2>6, <2>7, <4>2, <5>1, <5>4 DEF LastOf
          <6>2. i = n
            BY <2>2, <5>1, <5>4, <6>1 DEF n
          <6> QED
            BY <6>1, <6>2
        <5> QED
          BY <2>4, <2>6, <2>9, <5>1, <5>3, <5>5
      <4> QED
        BY <4>1, <4>2
    <3>2. LET Any(s) == TRUE IN LastWith(matched, Any) = giver
      BY Zenon DEF LastWith, n
    <3> QED
      BY <2>1, <2>9, <3>1, <3>2 DEF set
  <2> QED
    BY <2>8, <2>9
<1>2. Spec => []GivenInv
  BY InitGivenInv, NextKeepsGivenInv, Invariance, PTL DEF Spec
<1> QED
  BY <1>1, <1>2, Invariance, PTL
=============================================================================
