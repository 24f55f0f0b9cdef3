--------------------------- MODULE CSharpGen_proofs ---------------------------
(* Theorems about LangCSharp for every crate and every build script. *)
EXTENDS CSharpGen, NativeMarking, FiniteSetTheorems, WellFoundedInduction, TLAPS

(* Substituting aliases keeps types well formed. *)
LEMMA LookupAliasType ==
  ASSUME NEW a, DOMAIN a \subseteq Name, a \in [DOMAIN a -> Type], NEW n \in DOMAIN a
  PROVE  LookupAlias(a, n) \in Type
<1> DEFINE ends == {m \in Chain(a, n) \cap DOMAIN a : ~Plain(a, m)}
<1>1. CASE ends = {}
  BY <1>1 DEF LookupAlias
<1>2. CASE ends # {}
  <2>1. (CHOOSE m \in ends : TRUE) \in DOMAIN a
    BY <1>2
  <2> QED
    BY <1>2, <2>1 DEF LookupAlias
<1> QED
  BY <1>1, <1>2

LEMMA ResolveAliasType ==
  ASSUME NEW a, DOMAIN a \subseteq Name, a \in [DOMAIN a -> Type], NEW t \in Type
  PROVE  ResolveAlias(a, t) \in Type
<1>1. CASE t.base \in DOMAIN a
  <2> DEFINE e == LookupAlias(a, t.base)
  <2>1. e \in Type
    BY <1>1, LookupAliasType
  <2> HIDE DEF e
  <2>2. t.wraps \o e.wraps \in Seq(Wrap)
    BY <2>1 DEF Type
  <2>3. ResolveAlias(a, t) = [wraps |-> t.wraps \o e.wraps, base |-> e.base, args |-> e.args]
    BY <1>1 DEF ResolveAlias, e
  <2> QED
    BY <2>1, <2>2, <2>3 DEF Type
<1>2. CASE t.base \notin DOMAIN a
  <2> DEFINE args == [i \in DOMAIN t.args |-> ResolveArg(a, t.args[i])]
  <2>1. ASSUME NEW i \in DOMAIN t.args PROVE ResolveArg(a, t.args[i]) \in SimpleType
    <3> DEFINE r == t.args[i]
               e == LookupAlias(a, r.base)
    <3>1. r \in SimpleType
      BY DEF Type
    <3>2. CASE r.base \in DOMAIN a
      <4>1. e \in Type
        BY <3>2, LookupAliasType
      <4>2. ResolveArg(a, r) = [wraps |-> r.wraps \o e.wraps, base |-> e.base]
        BY <3>2 DEF ResolveArg
      <4> HIDE DEF e, r
      <4>3. r.wraps \o e.wraps \in Seq(Wrap)
        BY <3>1, <4>1 DEF Type, SimpleType
      <4>4. ResolveArg(a, r) \in SimpleType
        BY <4>1, <4>2, <4>3 DEF Type, SimpleType
      <4> QED
        BY <4>4 DEF r
    <3>3. CASE r.base \notin DOMAIN a
      BY <3>1, <3>3 DEF ResolveArg
    <3> QED
      BY <3>2, <3>3
  <2>2. args \in Seq(SimpleType)
    <3>1. t.args \in Seq(SimpleType) /\ DOMAIN t.args = 1..Len(t.args) /\ Len(t.args) \in Nat
      BY DEF Type
    <3>2. args \in [1..Len(t.args) -> SimpleType]
      BY <2>1, <3>1
    <3> QED
      BY <3>1, <3>2
  <2>3. ResolveAlias(a, t) = [t EXCEPT !.args = args]
    BY <1>2 DEF ResolveAlias
  <2> HIDE DEF args
  <2> QED
    BY <2>2, <2>3 DEF Type
<1> QED
  BY <1>1, <1>2

LEMMA ResolveNameType ==
  ASSUME NEW a, NEW s \in Snippet
  PROVE  ResolveName(a, s) \in Name
BY DEF ResolveName, Snippet

LEMMA ResolveAliasesType ==
  ASSUME NEW a, DOMAIN a \subseteq Name, a \in [DOMAIN a -> Type],
         NEW list \in Seq(Snippet)
  PROVE  /\ ResolveAliases(a, list) \in Seq(Snippet)
         /\ Len(ResolveAliases(a, list)) = Len(list)
<1> DEFINE new(i) == [list[i] EXCEPT !.name = ResolveName(a, list[i]),
                                     !.types = [j \in DOMAIN list[i].types |->
                                                   ResolveAlias(a, list[i].types[j])]]
<1>1. ASSUME NEW i \in DOMAIN list PROVE new(i) \in Snippet
  <2> DEFINE s == list[i]
             ts == [j \in DOMAIN s.types |-> ResolveAlias(a, s.types[j])]
  <2>1. s \in Snippet
    OBVIOUS
  <2> HIDE DEF s
  <2>2. s.types \in Seq(Type) /\ DOMAIN s.types = 1..Len(s.types) /\ Len(s.types) \in Nat
    BY <2>1 DEF Snippet
  <2>3. ASSUME NEW j \in DOMAIN s.types PROVE ResolveAlias(a, s.types[j]) \in Type
    BY <2>2, ResolveAliasType
  <2>4. ts \in Seq(Type)
    <3>1. ts \in [1..Len(s.types) -> Type]
      BY <2>2, <2>3
    <3> QED
      BY <2>2, <3>1
  <2>5. ResolveName(a, s) \in Name
    BY <2>1, ResolveNameType
  <2> HIDE DEF ts
  <2>6. [s EXCEPT !.name = ResolveName(a, s), !.types = ts] \in Snippet
    BY <2>1, <2>4, <2>5 DEF Snippet
  <2> QED
    BY <2>6 DEF s, ts
<1>2. ResolveAliases(a, list) = [i \in DOMAIN list |-> new(i)]
  BY DEF ResolveAliases
<1> HIDE DEF new
<1>3. ResolveAliases(a, list) \in [1..Len(list) -> Snippet] /\ Len(list) \in Nat
  BY <1>1, <1>2
<1> QED
  BY <1>3

(* The delegates collected for well-formed functions are well formed. *)
LEMMA CollectCallbacksType ==
  ASSUME NEW fs \in Seq(Snippet)
  PROVE  CollectCallbacks(fs) \subseteq Delegate
<1>1. ASSUME NEW args \in Seq(SimpleType)
      PROVE  DelegateName(args) \in Seq([arrays : SUBSET Wrap, base : Base])
  <2>1. ASSUME NEW i \in 1..(Len(args) - 1)
        PROVE  PartName(args[i + 1]) \in [arrays : SUBSET Wrap, base : Base]
    <3>1. args[i + 1] \in SimpleType
      OBVIOUS
    <3> QED
      BY <3>1 DEF PartName, SimpleType
  <2>2. Len(args) \in Nat
    OBVIOUS
  <2>3. CASE args = <<>>
    <3>1. 1..(Len(args) - 1) = 1..0
      BY <2>3
    <3>2. DelegateName(args) \in [1..0 -> [arrays : SUBSET Wrap, base : Base]]
      BY <3>1 DEF DelegateName
    <3> QED
      BY <3>2
  <2>4. CASE args # <<>>
    <3>1. Len(args) - 1 \in Nat
      BY <2>2, <2>4
    <3>2. DelegateName(args) \in [1..(Len(args) - 1) -> [arrays : SUBSET Wrap, base : Base]]
      BY <2>1 DEF DelegateName
    <3> DEFINE n == Len(args) - 1
               parts == [arrays : SUBSET Wrap, base : Base]
    <3>3. n \in Nat /\ DelegateName(args) \in [1..n -> parts]
      BY <3>1, <3>2
    <3> HIDE DEF n, parts
    <3>4. DelegateName(args) \in Seq(parts)
      BY <3>3
    <3> QED
      BY <3>4 DEF parts
  <2> QED
    BY <2>3, <2>4
<1>2. ASSUME NEW u \in CallbackUses(fs) PROVE fs[u[1]].types[u[2]].args \in Seq(SimpleType)
  <2>1. u[1] \in DOMAIN fs /\ u[2] \in DOMAIN fs[u[1]].types
    BY DEF CallbackUses, Callbacks
  <2>2. fs[u[1]] \in Snippet
    BY <2>1
  <2>3. fs[u[1]].types[u[2]] \in Type
    BY <2>1, <2>2 DEF Snippet
  <2> QED
    BY <2>3 DEF Type
<1> DEFINE args(u) == fs[u[1]].types[u[2]].args
           single(u) == \E v \in {v \in CallbackUses(fs) :
                                      DelegateName(args(v)) = DelegateName(args(u))} :
                            Cardinality(Callbacks(fs[v[1]])) = 1
           del(u) == [name |-> DelegateName(args(u)), args |-> args(u), single |-> single(u)]
<1>3. \A d \in CollectCallbacks(fs) : \E u \in CallbackUses(fs) : d = del(u)
  BY DEF CollectCallbacks
<1>4. ASSUME NEW u \in CallbackUses(fs) PROVE del(u) \in Delegate
  <2>1. args(u) \in Seq(SimpleType) /\ single(u) \in BOOLEAN
    BY <1>2
  <2>2. DelegateName(args(u)) \in Seq([arrays : SUBSET Wrap, base : Base])
    BY <1>1, <2>1
  <2> HIDE DEF args, single
  <2> QED
    BY <2>1, <2>2 DEF Delegate
<1> QED
  BY <1>3, <1>4

LEMMA InsertType ==
  ASSUME NEW out, OutputsType(out), NEW cond \in BOOLEAN, NEW file \in File, ConfigTypeOK
  PROVE  OutputsType(Insert(out, cond, file))
<1>1. section[file.section].path \in Path
  BY DEF File, ConfigTypeOK
<1> QED
  BY <1>1 DEF Insert, OutputsType

(* Every file that finalise_output can insert is well formed. *)
LEMMA FileTypes ==
  ASSUME TypeOK, NEW list \in Seq(Snippet)
  PROVE  /\ FunctionsFile(list) \in File
         /\ InterfaceFile(list) \in File
         /\ ConstsFile(list) \in File
         /\ TypesFile(list) \in File
         /\ UtilsFile \in File
<1>1. ASSUME NEW s \in Section, NEW decls \in Seq(Snippet)
      PROVE  Rendering(s, decls) \in File
  <2>1. section[s].class \in Class
    BY DEF TypeOK, ConfigTypeOK
  <2> QED
    BY <2>1 DEF Rendering, File, TypeOK
<1>2. InterfaceIds(list) \subseteq Nat
  <2>1. ASSUME NEW i \in DOMAIN list PROVE list[i].id \in Nat
    <3>1. list[i] \in Snippet
      OBVIOUS
    <3> QED
      BY <3>1 DEF Snippet
  <2> QED
    BY <2>1 DEF InterfaceIds
<1>3. enums \o list \in Seq(Snippet)
  BY DEF TypeOK, GatheredTypeOK
<1>4. <<>> \in Seq(Snippet)
  OBVIOUS
<1>5. FunctionsFile(list) \in File
  <2> DEFINE r == Rendering("functions", list)
  <2>1. r \in File
    BY <1>1 DEF Section
  <2>2. FunctionsFile(list) = [r EXCEPT !.wrapped = InterfaceIds(list),
                                        !.delegates = CollectCallbacks(list)]
    BY DEF FunctionsFile
  <2>3. CollectCallbacks(list) \subseteq Delegate
    BY CollectCallbacksType
  <2> HIDE DEF r
  <2> QED
    BY <1>2, <2>1, <2>2, <2>3 DEF File
<1>6. InterfaceFile(list) \in File
  <2> DEFINE r == Rendering("interface", <<>>)
  <2>1. r \in File
    BY <1>1, <1>4 DEF Section
  <2>2. InterfaceFile(list) = [r EXCEPT !.wrapped = InterfaceIds(list)]
    BY DEF InterfaceFile
  <2> HIDE DEF r
  <2> QED
    BY <1>2, <2>1, <2>2 DEF File
<1>7. ConstsFile(list) \in File
  <2> DEFINE r == Rendering("consts", list)
  <2>1. r \in File
    BY <1>1 DEF Section
  <2>2. ConstsFile(list) = [r EXCEPT !.customs = customConsts]
    BY DEF ConstsFile
  <2>3. customConsts \subseteq Name
    BY DEF TypeOK, GatheredTypeOK
  <2> HIDE DEF r
  <2> QED
    BY <2>1, <2>2, <2>3 DEF File
<1>8. TypesFile(list) \in File /\ UtilsFile \in File
  BY <1>1, <1>3, <1>4 DEF TypesFile, UtilsFile, Section
<1> QED
  BY <1>5, <1>6, <1>7, <1>8

(* The sections that are rendered, and the items in them, are well formed. *)
LEMMA RenderType ==
  ASSUME TypeOK, NEW done, RenderSections(done)
  PROVE  /\ OutputsType(outputs') /\ rendered' \subseteq Nat
         /\ ConfigTypeOK' /\ UNCHANGED <<aliases, nextId>>
         /\ functions' = <<>>
         /\ structs' \in Seq(Snippet) /\ Len(structs') = Len(structs)
         /\ finalised' = finalised + 1
<1> DEFINE cs == ResolveAliases(aliases, consts)
           ss == ResolveAliases(aliases, structs)
           fs == ResolveAliases(aliases, functions)
           o1 == Insert(outputs, fs # <<>>, FunctionsFile(fs))
           o2 == Insert(o1, InterfaceIds(fs) # {}, InterfaceFile(fs))
           o3 == Insert(o2, ConstsRendered /\ "consts" \in done, ConstsFile(cs))
           o4 == Insert(o3, TypesRendered /\ "types" \in done, TypesFile(ss))
           o5 == Insert(o4, "utils" \in enabled \cap done, UtilsFile)
<1>1. /\ cs \in Seq(Snippet) /\ fs \in Seq(Snippet)
      /\ ss \in Seq(Snippet) /\ Len(ss) = Len(structs)
  BY ResolveAliasesType DEF TypeOK, GatheredTypeOK
<1>2. /\ outputs' = o5
      /\ rendered' = rendered \cup UNION {Ids(o5[p].decls) : p \in DOMAIN o5}
      /\ functions' = <<>> /\ structs' = ss
      /\ finalised' = finalised + 1
      /\ UNCHANGED <<config, aliases, nextId>>
  BY DEF RenderSections
<1> HIDE DEF cs, ss, fs
<1>3. ConfigTypeOK /\ OutputsType(outputs)
  BY DEF TypeOK
<1>4. OutputsType(o1)
  BY <1>1, <1>3, FileTypes, InsertType
<1>5. OutputsType(o2)
  <2> HIDE DEF o1
  <2> QED
    BY <1>1, <1>3, <1>4, FileTypes, InsertType
<1>6. OutputsType(o3)
  <2> HIDE DEF o2
  <2>1. (ConstsRendered /\ "consts" \in done) \in BOOLEAN
    OBVIOUS
  <2> QED
    BY <1>1, <1>3, <1>5, <2>1, FileTypes, InsertType
<1>7. OutputsType(o4)
  <2> HIDE DEF o3
  <2>1. (TypesRendered /\ "types" \in done) \in BOOLEAN
    OBVIOUS
  <2> QED
    BY <1>1, <1>3, <1>6, <2>1, FileTypes, InsertType
<1>8. OutputsType(o5)
  <2> HIDE DEF o4
  <2>1. UtilsFile \in File /\ ("utils" \in enabled \cap done) \in BOOLEAN
    BY <1>1, FileTypes
  <2> QED
    BY <1>3, <1>7, <2>1, InsertType
<1> HIDE DEF o5
<1>9. ASSUME NEW p \in DOMAIN o5 PROVE Ids(o5[p].decls) \subseteq Nat
  <2>1. o5[p].decls \in Seq(Snippet)
    BY <1>8 DEF OutputsType, File
  <2>2. ASSUME NEW list \in Seq(Snippet), NEW k \in DOMAIN list PROVE list[k].id \in Nat
    <3>1. list[k] \in Snippet
      OBVIOUS
    <3> QED
      BY <3>1 DEF Snippet
  <2> QED
    BY <2>1, <2>2 DEF Ids
<1>10. rendered' \subseteq Nat
  BY <1>2, <1>9 DEF TypeOK
<1>11. ConfigTypeOK'
  BY <1>2, <1>3 DEF ConfigTypeOK, config
<1> QED
  BY <1>1, <1>2, <1>8, <1>10, <1>11 DEF OutputsType

(* Every way in which finalise_output can end keeps types. *)
LEMMA FinaliseType ==
  ASSUME TypeOK, FinaliseOutput \/ FinaliseLosesConsts \/ FinaliseLosesEnums
  PROVE  TypeOK'
<1>1. PICK done : RenderSections(done)
  BY DEF FinaliseOutput, FinaliseLosesConsts, FinaliseLosesEnums
<1>2. /\ OutputsType(outputs') /\ rendered' \subseteq Nat
      /\ ConfigTypeOK' /\ UNCHANGED <<aliases, nextId>>
      /\ functions' = <<>>
      /\ structs' \in Seq(Snippet) /\ Len(structs') = Len(structs)
      /\ finalised' = finalised + 1
  BY <1>1, RenderType
<1>3. /\ consts' \in Seq(Snippet) /\ enums' \in Seq(Snippet)
      /\ customConsts' \subseteq Name
  <2> DEFINE cs == ResolveAliases(aliases, consts)
  <2>1. cs \in Seq(Snippet)
    BY ResolveAliasesType DEF TypeOK, GatheredTypeOK
  <2> HIDE DEF cs
  <2>2. consts' \in {cs, <<>>}
    BY DEF FinaliseOutput, FinaliseLosesConsts, FinaliseLosesEnums, ConstsKept, cs
  <2>3. enums' \in {enums, <<>>} /\ customConsts' \in {customConsts, {}}
    BY DEF FinaliseOutput, FinaliseLosesConsts, FinaliseLosesEnums, EnumsKept
  <2>4. <<>> \in Seq(Snippet)
    OBVIOUS
  <2>5. enums \in Seq(Snippet) /\ customConsts \subseteq Name
    BY DEF TypeOK, GatheredTypeOK
  <2> QED
    BY <2>1, <2>2, <2>3, <2>4, <2>5
<1>4. \A list \in Seq(Snippet) : Ids(list) \subseteq Nat
  <2> SUFFICES ASSUME NEW list \in Seq(Snippet), NEW k \in DOMAIN list PROVE list[k].id \in Nat
    BY DEF Ids
  <2>1. list[k] \in Snippet
    OBVIOUS
  <2> QED
    BY <2>1 DEF Snippet
<1>5. lost' \subseteq Nat
  BY <1>4 DEF FinaliseOutput, FinaliseLosesConsts, FinaliseLosesEnums, TypeOK, GatheredTypeOK
<1>6. /\ opaqueTypes' \subseteq Name /\ nativeTypes' \subseteq Name
      /\ result' \in {"ok", "err", "panic"} /\ marked' \in 0..Len(structs)
  <2>1. Len(structs) \in Nat
    BY DEF TypeOK, GatheredTypeOK
  <2> QED
    BY <2>1 DEF FinaliseOutput, FinaliseLosesConsts, FinaliseLosesEnums, TypeOK
<1>7. GatheredTypeOK'
  BY <1>2, <1>3 DEF TypeOK, GatheredTypeOK
<1>8. OutputsType(outputs)'
  BY <1>2 DEF OutputsType
<1> QED
  BY <1>2, <1>5, <1>6, <1>7, <1>8 DEF TypeOK

(* No call of the script or of the parser leaves the session ill formed. *)
THEOREM TypeCorrect == Spec => []TypeOK
<1>1. Init => TypeOK
  BY SectionAssumption
     DEF Init, TypeOK, ConfigTypeOK, GatheredTypeOK, OutputsType
<1>2. TypeOK /\ [Next]_vars => TypeOK'
  <2> SUFFICES ASSUME TypeOK, [Next]_vars PROVE TypeOK'
    OBVIOUS
  <2>1. ASSUME Configure PROVE TypeOK'
    <3>1. UNCHANGED <<opaqueTypes, nativeTypes, gathered, outputs, result, history>>
            => TypeOK' \/ ~ConfigTypeOK'
      BY DEF TypeOK, GatheredTypeOK, OutputsType, gathered, history
    <3>2. ASSUME NEW n \in FilterName, Filter(n) PROVE TypeOK'
      BY <3>1, <3>2, NamesAssumption DEF Filter, ConfigTypeOK, TypeOK
    <3>3. ASSUME NEW m \in {"blacklist", "whitelist"}, ResetFilter(m) PROVE TypeOK'
      BY <3>1, <3>3 DEF ResetFilter, ConfigTypeOK, TypeOK
    <3>4. ASSUME NEW n \in BlacklistName, BlacklistWrapperFunction(n) PROVE TypeOK'
      BY <3>1, <3>4, NamesAssumption DEF BlacklistWrapperFunction, ConfigTypeOK, TypeOK
    <3>5. ASSUME ResetWrapperFunctionBlacklist PROVE TypeOK'
      BY <3>1, <3>5 DEF ResetWrapperFunctionBlacklist, ConfigTypeOK, TypeOK
    <3>6. ASSUME NEW s \in Toggle, NEW on \in BOOLEAN, SetEnabled(s, on) PROVE TypeOK'
      BY <3>1, <3>6, NamesAssumption DEF SetEnabled, ConfigTypeOK, TypeOK
    <3>7. ASSUME NEW c \in SectionChoice, SetSection(c) PROVE TypeOK'
      <4>1. c \in [section : Section, path : Path, class : Class]
        BY SectionAssumption
      <4>2. section' \in [Section -> [path : Path, class : Class]]
        BY <3>7, <4>1 DEF SetSection, ConfigTypeOK, TypeOK
      <4> QED
        BY <3>1, <3>7, <4>2 DEF SetSection, ConfigTypeOK, TypeOK
    <3>8. ASSUME NEW n \in LibName, SetLibName(n) PROVE TypeOK'
      BY <3>1, <3>8, SectionAssumption DEF SetLibName, ConfigTypeOK, TypeOK
    <3>9. ASSUME NEW n \in OpaqueName, AddOpaqueType(n) PROVE TypeOK'
      BY <3>9, NamesAssumption
         DEF AddOpaqueType, TypeOK, ConfigTypeOK, GatheredTypeOK, OutputsType,
             config, gathered, history
    <3>10. ASSUME NEW n \in CustomName, AddConst(n) PROVE TypeOK'
      BY <3>10, NamesAssumption
         DEF AddConst, TypeOK, ConfigTypeOK, GatheredTypeOK, OutputsType, config, history
    <3> QED
      BY <2>1, <3>2, <3>3, <3>4, <3>5, <3>6, <3>7, <3>8, <3>9, <3>10 DEF Configure
  <2>2. ASSUME NEW item \in Crate PROVE
           (\/ ParseDropped(item) \/ ParseTy(item) \/ ParseConst(item)
            \/ ParseEnum(item) \/ ParseStruct(item) \/ ParseFn(item)) => TypeOK'
    <3>1. item \in Item /\ nextId \in Nat
      BY CrateAssumption DEF TypeOK
    <3>2. Snip(item) \in Snippet
      BY <3>1 DEF Snip, Item, Snippet
    <3> USE DEF TypeOK, ConfigTypeOK, GatheredTypeOK, OutputsType, config
    <3>3. CASE ParseDropped(item)
      BY <3>3 DEF ParseDropped, gathered, history
    <3>4. CASE ParseTy(item)
      <4>1. UNCHANGED <<nextId, rendered, lost, marked, finalised, consts, enums, structs>>
        BY <3>4 DEF ParseTy, history
      <4>2. /\ DOMAIN aliases' \subseteq Name
            /\ aliases' \in [DOMAIN aliases' -> Type]
        <5>1. item.name \in Name /\ item.types[1] \in Type
          <6>1. item.types \in Seq(Type) /\ item.types # <<>>
            BY <3>1, <3>4, AliasAssumption DEF Item, ParseTy, Accepts
          <6>2. item.types[1] \in Type
            BY <6>1
          <6> QED
            BY <3>1, <6>2 DEF Item
        <5> QED
          BY <3>4, <5>1 DEF ParseTy
      <4> QED
        BY <3>4, <4>1, <4>2 DEF ParseTy, Accepts
    <3>5. CASE ParseConst(item)
      BY <3>1, <3>2, <3>5 DEF ParseConst, Accepts, Number
    <3>6. CASE ParseEnum(item)
      BY <3>1, <3>2, <3>6 DEF ParseEnum, Accepts, Number
    <3>7. CASE ParseStruct(item)
      <4>1. structs' \in Seq(Snippet) /\ Len(structs') = Len(structs) + 1
        BY <3>2, <3>7 DEF ParseStruct
      <4>2. nativeTypes' \subseteq Name
        BY <3>7 DEF ParseStruct, ResolveNative
      <4>3. marked' \in 0..Len(structs')
        BY <3>7, <4>1 DEF ParseStruct, Number
      <4> QED
        BY <3>1, <3>7, <4>1, <4>2, <4>3 DEF ParseStruct, Accepts, Number
    <3>8. CASE ParseFn(item)
      BY <3>1, <3>2, <3>8 DEF ParseFn, Accepts, Number
    <3> QED
      BY <3>3, <3>4, <3>5, <3>6, <3>7, <3>8
  <2>3. ASSUME FinalisePanics PROVE TypeOK'
    <3>1. /\ consts' \in Seq(Snippet) /\ functions' \in Seq(Snippet)
          /\ structs' \in Seq(Snippet) /\ Len(structs') = Len(structs)
      BY <2>3, ResolveAliasesType DEF FinalisePanics, TypeOK, GatheredTypeOK
    <3> QED
      BY <2>3, <3>1
         DEF FinalisePanics, TypeOK, ConfigTypeOK, GatheredTypeOK, OutputsType, config
  <2>4. ASSUME FreshOutputs PROVE TypeOK'
    BY <2>4 DEF FreshOutputs, TypeOK, ConfigTypeOK, GatheredTypeOK, OutputsType,
                config, gathered, history
  <2>5. ASSUME UNCHANGED vars PROVE TypeOK'
    BY <2>5 DEF vars, TypeOK, ConfigTypeOK, GatheredTypeOK, OutputsType,
                config, gathered, history
  <2> QED
    BY <2>1, <2>2, <2>3, <2>4, <2>5, FinaliseType DEF Next, Parse
<1> QED
  BY <1>1, <1>2, PTL DEF Spec

(* Marking again after one more struct gives what marking everything from       *)
(* nothing gives.                                                               *)
LEMMA MarkingResumes ==
  ASSUME NEW ss \in Seq(Snippet), NEW s \in Snippet,
         NEW N \in SUBSET Name, N = {} \/ N = ResolveNative({}, ss)
  PROVE  ResolveNative(N, Append(ss, s)) = ResolveNative({}, Append(ss, s))
<1> DEFINE all == Append(ss, s)
<1>1. ASSUME NEW M \in SUBSET Name, Closed(M, all) PROVE N \subseteq M
  <2>1. Closed(M, ss)
    <3> SUFFICES ASSUME NEW i \in DOMAIN ss, NeedsNative(M, ss[i]) PROVE ss[i].name \in M
      BY DEF Closed
    <3>1. i \in DOMAIN all /\ all[i] = ss[i]
      OBVIOUS
    <3> HIDE DEF all
    <3> QED
      BY <1>1, <3>1 DEF Closed
  <2>2. ResolveNative({}, ss) \subseteq M
    BY <2>1 DEF ResolveNative
  <2> QED
    BY <2>2
<1> HIDE DEF all
<1>2. ResolveNative(N, all) = ResolveNative({}, all)
  BY <1>1 DEF ResolveNative
<1> QED
  BY <1>2 DEF all

(* The marking kept while parsing is never stale, however calls of the parser,  *)
(* the setters and finalise_output are interleaved.                             *)
THEOREM NativeMarked == Spec => []NativeIsLeast
<1>1. Init => NativeIsLeast
  BY DEF Init, NativeIsLeast
<1>2. TypeOK /\ NativeIsLeast /\ [Next]_vars => NativeIsLeast'
  <2> SUFFICES ASSUME TypeOK, NativeIsLeast, [Next]_vars PROVE NativeIsLeast'
    OBVIOUS
  <2>1. ASSUME UNCHANGED <<nativeTypes, structs, marked>>, Alive \/ ~Alive'
        PROVE  NativeIsLeast'
    BY <2>1 DEF NativeIsLeast
  <2>2. ASSUME Configure PROVE Alive /\ UNCHANGED <<nativeTypes, structs, marked>>
    BY <2>2 DEF Configure, Filter, ResetFilter, BlacklistWrapperFunction,
                ResetWrapperFunctionBlacklist, SetEnabled, SetSection, SetLibName,
                AddOpaqueType, AddConst, gathered, history
  <2>3. ASSUME NEW item \in Crate,
               \/ ParseDropped(item) \/ ParseTy(item) \/ ParseConst(item)
               \/ ParseEnum(item) \/ ParseFn(item)
        PROVE  Alive /\ UNCHANGED <<nativeTypes, structs, marked>>
    BY <2>3 DEF Accepts, ParseDropped, ParseTy, ParseConst, ParseEnum, ParseFn, Number,
                gathered, history
  <2>4. ASSUME NEW item \in Crate, ParseStruct(item) PROVE NativeIsLeast'
    <3>1. /\ structs \in Seq(Snippet) /\ nativeTypes \subseteq Name
          /\ marked \in 0..Len(structs)
      BY DEF TypeOK, GatheredTypeOK
    <3>2. Snip(item) \in Snippet
      BY CrateAssumption DEF Snip, Item, Snippet, TypeOK
    <3>3. /\ structs' = Append(structs, Snip(item)) /\ marked' = marked
          /\ nativeTypes' = ResolveNative(nativeTypes, structs')
      BY <2>4 DEF ParseStruct, Number
    <3>4. nativeTypes = {} \/ nativeTypes = ResolveNative({}, structs)
      BY <2>4 DEF NativeIsLeast, ParseStruct, Accepts
    <3>5. nativeTypes' = ResolveNative({}, structs')
      BY <3>1, <3>2, <3>3, <3>4, MarkingResumes
    <3>6. Len(structs') > marked'
      BY <3>1, <3>2, <3>3
    <3> QED
      BY <3>5, <3>6 DEF NativeIsLeast
  <2>5. ASSUME FinaliseOutput PROVE NativeIsLeast'
    <3>1. nativeTypes' = {} /\ marked' = Len(structs) /\ Len(structs') = Len(structs)
      BY <2>5, ResolveAliasesType DEF FinaliseOutput, RenderSections, TypeOK, GatheredTypeOK
    <3> QED
      BY <3>1 DEF NativeIsLeast, TypeOK, GatheredTypeOK
  <2>6. ASSUME FreshOutputs PROVE Alive /\ UNCHANGED <<nativeTypes, structs, marked>>
    BY <2>6 DEF FreshOutputs, gathered, history
  <2>7. ASSUME UNCHANGED vars
        PROVE  (Alive \/ ~Alive') /\ UNCHANGED <<nativeTypes, structs, marked>>
    BY <2>7 DEF vars, gathered, history, Alive
  <2>8. ASSUME FinalisePanics \/ FinaliseLosesConsts \/ FinaliseLosesEnums PROVE NativeIsLeast'
    BY <2>8 DEF FinalisePanics, FinaliseLosesConsts, FinaliseLosesEnums, NativeIsLeast, Alive
  <2> QED
    BY <2>1, <2>2, <2>3, <2>4, <2>5, <2>6, <2>7, <2>8 DEF Next, Parse
<1> QED
  BY <1>1, <1>2, TypeCorrect, PTL DEF Spec
-----------------------------------------------------------------------------
(* The session keeps the ledger of a back end.                                   *)

(* The items of lists. *)
LEMMA IdsAppend ==
  ASSUME NEW list \in Seq(Snippet), NEW s \in Snippet
  PROVE  Ids(Append(list, s)) = Ids(list) \cup {s.id}
<1>1. /\ DOMAIN Append(list, s) = DOMAIN list \cup {Len(list) + 1}
      /\ \A i \in DOMAIN list : Append(list, s)[i] = list[i]
      /\ Append(list, s)[Len(list) + 1] = s
  OBVIOUS
<1> QED
  BY <1>1 DEF Ids

LEMMA IdsConcat ==
  ASSUME NEW a \in Seq(Snippet), NEW b \in Seq(Snippet)
  PROVE  Ids(a \o b) = Ids(a) \cup Ids(b)
<1>1. \A i \in DOMAIN a : i \in DOMAIN (a \o b) /\ (a \o b)[i] = a[i]
  OBVIOUS
<1>2. \A i \in DOMAIN b : Len(a) + i \in DOMAIN (a \o b) /\ (a \o b)[Len(a) + i] = b[i]
  OBVIOUS
<1>3. ASSUME NEW i \in DOMAIN (a \o b), i \notin DOMAIN a
      PROVE  i - Len(a) \in DOMAIN b /\ (a \o b)[i] = b[i - Len(a)]
  <2>1. /\ Len(a) \in Nat /\ DOMAIN a = 1..Len(a) /\ Len(b) \in Nat /\ DOMAIN b = 1..Len(b)
        /\ DOMAIN (a \o b) = 1..(Len(a) + Len(b))
    OBVIOUS
  <2>2. i \in Nat /\ Len(a) < i /\ i <= Len(a) + Len(b)
    BY <1>3, <2>1
  <2> QED
    BY <2>1, <2>2
<1>4. Ids(a) \cup Ids(b) \subseteq Ids(a \o b)
  BY <1>1, <1>2 DEF Ids
<1>5. ASSUME NEW i \in DOMAIN (a \o b) PROVE (a \o b)[i].id \in Ids(a) \cup Ids(b)
  <2>1. CASE i \in DOMAIN a
    BY <1>1, <2>1 DEF Ids
  <2>2. CASE i \notin DOMAIN a
    BY <1>3, <2>2 DEF Ids
  <2> QED
    BY <2>1, <2>2
<1>6. Ids(a \o b) \subseteq Ids(a) \cup Ids(b)
  BY <1>5 DEF Ids
<1> QED
  BY <1>4, <1>6

(* Resolving aliases keeps the items, their numbers and their kinds. *)
LEMMA ResolvedNames ==
  ASSUME NEW a, NEW list \in Seq(Snippet)
  PROVE  /\ DOMAIN ResolveAliases(a, list) = DOMAIN list
         /\ \A i \in DOMAIN list : /\ ResolveAliases(a, list)[i].id = list[i].id
                                   /\ ResolveAliases(a, list)[i].kind = list[i].kind
                                   /\ ResolveAliases(a, list)[i].name = ResolveName(a, list[i])
<1> DEFINE name(i) == ResolveName(a, list[i])
           types(i) == [j \in DOMAIN list[i].types |-> ResolveAlias(a, list[i].types[j])]
           new(i) == [list[i] EXCEPT !.name = name(i), !.types = types(i)]
<1>1. ResolveAliases(a, list) = [i \in DOMAIN list |-> new(i)]
  BY DEF ResolveAliases
<1>2. ASSUME NEW i \in DOMAIN list
      PROVE  new(i).id = list[i].id /\ new(i).kind = list[i].kind /\ new(i).name = name(i)
  <2>1. list[i] \in Snippet
    OBVIOUS
  <2> HIDE DEF name, types
  <2> QED
    BY <2>1 DEF Snippet
<1> HIDE DEF new
<1> QED
  BY <1>1, <1>2

(* Of their types, the aliases at the head are replaced. *)
LEMMA ResolvedTypes ==
  ASSUME NEW a, NEW list \in Seq(Snippet), NEW i \in DOMAIN list
  PROVE  ResolveAliases(a, list)[i].types =
           [j \in DOMAIN list[i].types |-> ResolveAlias(a, list[i].types[j])]
<1> DEFINE name == ResolveName(a, list[i])
           types == [j \in DOMAIN list[i].types |-> ResolveAlias(a, list[i].types[j])]
<1>1. ResolveAliases(a, list)[i] = [list[i] EXCEPT !.name = name, !.types = types]
  BY DEF ResolveAliases
<1>2. list[i] \in Snippet
  OBVIOUS
<1> HIDE DEF name, types
<1>3. [list[i] EXCEPT !.name = name, !.types = types].types = types
  BY <1>2 DEF Snippet
<1> QED
  BY <1>1, <1>3 DEF types

LEMMA IdsResolved ==
  ASSUME NEW a, NEW list \in Seq(Snippet)
  PROVE  Ids(ResolveAliases(a, list)) = Ids(list)
<1>1. /\ DOMAIN ResolveAliases(a, list) = DOMAIN list
      /\ \A i \in DOMAIN list : ResolveAliases(a, list)[i].id = list[i].id
  BY ResolvedNames
<1> QED
  BY <1>1 DEF Ids

LEMMA IdsEmpty == Ids(<<>>) = {}
  BY DEF Ids

-----------------------------------------------------------------------------
(* What an insertion does to the files. *)
Inserted(out, file) ==
    LET path == section[file.section].path
    IN  [p \in DOMAIN out \cup {path} |-> IF p = path THEN file ELSE out[p]]

Shows(o) == UNION {Ids(o[p].decls) : p \in DOMAIN o}

LEMMA InsertShows ==
  ASSUME NEW out, NEW file, file.section \in Section
  PROVE  LET q == section[file.section].path
             new == Inserted(out, file)
         IN  /\ q \in DOMAIN new /\ new[q] = file
             /\ Shows(new) \subseteq Shows(out) \cup Ids(file.decls)
             /\ \A p \in DOMAIN out : p # q => p \in DOMAIN new /\ new[p] = out[p]
<1> DEFINE q == section[file.section].path
           new == [p \in DOMAIN out \cup {q} |-> IF p = q THEN file ELSE out[p]]
<1>1. Inserted(out, file) = new
  BY DEF Inserted
<1> HIDE DEF q
<1>2. /\ DOMAIN new = DOMAIN out \cup {q}
      /\ new[q] = file /\ \A p \in DOMAIN out : p # q => new[p] = out[p]
  OBVIOUS
<1> HIDE DEF new
<1>3. Shows(new) \subseteq Shows(out) \cup Ids(file.decls)
  BY <1>2 DEF Shows
<1> QED
  BY <1>1, <1>2, <1>3 DEF q

(* The same, of a map and a path that have names. *)
LEMMA InsertedAt ==
  ASSUME NEW out, NEW file, file.section \in Section,
         NEW q, q = section[file.section].path, NEW new, new = Inserted(out, file)
  PROVE  /\ q \in DOMAIN new /\ new[q] = file
         /\ Shows(new) \subseteq Shows(out) \cup Ids(file.decls)
         /\ \A p \in DOMAIN out : p # q => p \in DOMAIN new /\ new[p] = out[p]
  BY InsertShows

LEMMA Sections ==
  ASSUME NEW list
  PROVE  /\ FunctionsFile(list).section = "functions" /\ FunctionsFile(list).decls = list
         /\ InterfaceFile(list).section = "interface" /\ InterfaceFile(list).decls = <<>>
         /\ ConstsFile(list).section = "consts" /\ ConstsFile(list).decls = list
         /\ TypesFile(list).section = "types" /\ TypesFile(list).decls = enums \o list
         /\ UtilsFile.section = "utils" /\ UtilsFile.decls = <<>>
  BY DEF FunctionsFile, InterfaceFile, ConstsFile, TypesFile, UtilsFile, Rendering

-----------------------------------------------------------------------------
PathsInv == \A s \in Section : section[s].path \in PathsOf(s)

(* Items have a number each, and one list holds it. *)
NumberInv ==
    /\ nextId > 0
    /\ Ids(consts) \cup Ids(enums) \cup Ids(functions) \cup Ids(structs) \subseteq 1..(nextId - 1)
    /\ Ids(consts) \cap Ids(enums) = {}
    /\ Ids(consts) \cap Ids(functions) = {}
    /\ Ids(enums) \cap Ids(functions) = {}

(* What waits in the ledger. *)
LEMMA WaitingIs ==
  /\ Ledger!Waiting = Ids(consts) \cup Ids(enums) \cup Ids(functions)
  /\ Ledger!Waiting' = Ids(consts') \cup Ids(enums') \cup Ids(functions')
<1>1. /\ Pending["consts"] = Ids(consts) /\ Pending["enums"] = Ids(enums)
      /\ Pending["functions"] = Ids(functions)
  BY DEF Pending
<1>2. /\ Pending'["consts"] = Ids(consts') /\ Pending'["enums"] = Ids(enums')
      /\ Pending'["functions"] = Ids(functions')
  BY DEF Pending
<1> QED
  BY <1>1, <1>2 DEF Ledger!Waiting

(* The sections that are rendered are inserted under different paths, so that each *)
(* of them is there in the end.                                                    *)
LEMMA RenderShows ==
  ASSUME TypeOK, PathsInv, NEW done, RenderSections(done)
  PROVE  LET C == IF ConstsRendered /\ "consts" \in done THEN Ids(consts) ELSE {}
             E == IF TypesRendered /\ "types" \in done THEN Ids(enums) ELSE {}
         IN  /\ Ids(functions) \cup C \cup E \subseteq Displayed'
             /\ Displayed' \subseteq Displayed \cup Ids(functions) \cup C \cup E \cup Ids(structs)
             /\ rendered' = rendered \cup Displayed'
             /\ Ids(functions') = {} /\ Ids(structs') = Ids(structs) /\ nextId' = nextId
             /\ Alive
<1> DEFINE cs == ResolveAliases(aliases, consts)
           ss == ResolveAliases(aliases, structs)
           fs == ResolveAliases(aliases, functions)
           o1 == Insert(outputs, fs # <<>>, FunctionsFile(fs))
           o2 == Insert(o1, InterfaceIds(fs) # {}, InterfaceFile(fs))
           o3 == Insert(o2, ConstsRendered /\ "consts" \in done, ConstsFile(cs))
           o4 == Insert(o3, TypesRendered /\ "types" \in done, TypesFile(ss))
           o5 == Insert(o4, "utils" \in enabled \cap done, UtilsFile)
           path(s) == section[s].path
           doConsts == ConstsRendered /\ "consts" \in done
           doTypes == TypesRendered /\ "types" \in done
           doUtils == "utils" \in enabled \cap done
<1>1. /\ outputs' = o5 /\ rendered' = rendered \cup Shows(o5)
      /\ functions' = <<>> /\ structs' = ss /\ nextId' = nextId /\ Alive
  BY DEF RenderSections, Shows
<1>2. /\ consts \in Seq(Snippet) /\ enums \in Seq(Snippet) /\ functions \in Seq(Snippet)
      /\ ss \in Seq(Snippet)
      /\ Ids(cs) = Ids(consts) /\ Ids(ss) = Ids(structs) /\ Ids(fs) = Ids(functions)
  BY IdsResolved, ResolveAliasesType DEF TypeOK, GatheredTypeOK
<1> DEFINE C == IF ConstsRendered /\ "consts" \in done THEN Ids(consts) ELSE {}
           E == IF TypesRendered /\ "types" \in done THEN Ids(enums) ELSE {}
<1>3. Ids(functions') = {} /\ Ids(structs') = Ids(structs)
  BY <1>1, <1>2, IdsEmpty
<1>4. Ids(enums \o ss) = Ids(enums) \cup Ids(structs)
  BY <1>2, IdsConcat
<1>5. \A s, t \in Section : s # t => path(s) # path(t)
  BY PathAssumption DEF PathsInv
<1>6. {"functions", "interface", "consts", "types", "utils"} \subseteq Section
  BY DEF Section
<1> HIDE DEF cs, ss, fs
<1>7. /\ fs # <<>> => path("functions") \in DOMAIN o1 /\ o1[path("functions")].decls = fs
      /\ Shows(o1) \subseteq Shows(outputs) \cup Ids(functions)
  <2> DEFINE file == FunctionsFile(fs)
  <2>1. file.section = "functions" /\ file.decls = fs
    BY Sections
  <2> HIDE DEF file
  <2>2. IF fs # <<>> THEN o1 = Inserted(outputs, file) ELSE o1 = outputs
    BY DEF Insert, Inserted, file
  <2> HIDE DEF o1
  <2> QED
    BY <1>2, <1>6, <2>1, <2>2, InsertShows
<1>8. /\ fs # <<>> => path("functions") \in DOMAIN o2 /\ o2[path("functions")].decls = fs
      /\ Shows(o2) \subseteq Shows(outputs) \cup Ids(functions)
  <2> HIDE DEF o1
  <2> DEFINE file == InterfaceFile(fs)
  <2>1. file.section = "interface" /\ Ids(file.decls) = {}
    BY Sections, IdsEmpty
  <2> HIDE DEF file
  <2>2. IF InterfaceIds(fs) # {} THEN o2 = Inserted(o1, file) ELSE o2 = o1
    BY DEF Insert, Inserted, file
  <2> HIDE DEF o2
  <2> QED
    BY <1>5, <1>6, <1>7, <2>1, <2>2, InsertShows
<1>9. /\ fs # <<>> => path("functions") \in DOMAIN o3 /\ o3[path("functions")].decls = fs
      /\ doConsts => path("consts") \in DOMAIN o3 /\ o3[path("consts")].decls = cs
      /\ Shows(o3) \subseteq Shows(outputs) \cup Ids(functions) \cup C
  <2> HIDE DEF o2
  <2> DEFINE file == ConstsFile(cs)
  <2>1. file.section = "consts" /\ file.decls = cs
    BY Sections
  <2> HIDE DEF file
  <2>2. IF doConsts THEN o3 = Inserted(o2, file) ELSE o3 = o2
    BY DEF Insert, Inserted, file
  <2> HIDE DEF o3
  <2> QED
    BY <1>2, <1>5, <1>6, <1>8, <2>1, <2>2, InsertShows
<1>10. /\ fs # <<>> => path("functions") \in DOMAIN o4 /\ o4[path("functions")].decls = fs
       /\ doConsts => path("consts") \in DOMAIN o4 /\ o4[path("consts")].decls = cs
       /\ doTypes => path("types") \in DOMAIN o4 /\ o4[path("types")].decls = enums \o ss
       /\ Shows(o4) \subseteq Shows(outputs) \cup Ids(functions) \cup C \cup E \cup Ids(structs)
  <2> HIDE DEF o3
  <2> DEFINE file == TypesFile(ss)
  <2>1. file.section = "types" /\ file.decls = enums \o ss
    BY Sections
  <2> HIDE DEF file
  <2>2. IF doTypes THEN o4 = Inserted(o3, file) ELSE o4 = o3
    BY DEF Insert, Inserted, file
  <2> HIDE DEF o4
  <2>3. CASE doTypes
    <3>1. file.section \in Section
      BY <1>6, <2>1
    <3>2. path("types") = section[file.section].path /\ o4 = Inserted(o3, file)
      BY <2>1, <2>2, <2>3
    <3>3. /\ path("types") \in DOMAIN o4 /\ o4[path("types")] = file
          /\ Shows(o4) \subseteq Shows(o3) \cup Ids(file.decls)
          /\ \A p \in DOMAIN o3 : p # path("types") => p \in DOMAIN o4 /\ o4[p] = o3[p]
      BY <3>1, <3>2, InsertedAt
    <3>4. Shows(o4) \subseteq Shows(o3) \cup Ids(enums) \cup Ids(structs)
      BY <1>4, <2>1, <3>3
    <3>5. path("types") \in DOMAIN o4 /\ o4[path("types")] = file
      BY <3>3
    <3>6. \A p \in DOMAIN o3 : p # path("types") => p \in DOMAIN o4 /\ o4[p] = o3[p]
      BY <3>3
    <3> QED
      BY <1>5, <1>6, <1>9, <2>1, <2>3, <3>4, <3>5, <3>6
  <2>4. CASE ~doTypes
    BY <1>9, <2>2, <2>4
  <2> QED
    BY <2>3, <2>4
<1>11. /\ fs # <<>> => path("functions") \in DOMAIN o5 /\ o5[path("functions")].decls = fs
       /\ doConsts => path("consts") \in DOMAIN o5 /\ o5[path("consts")].decls = cs
       /\ doTypes => path("types") \in DOMAIN o5 /\ o5[path("types")].decls = enums \o ss
       /\ Shows(o5) \subseteq Shows(outputs) \cup Ids(functions) \cup C \cup E \cup Ids(structs)
  <2> HIDE DEF o4
  <2>1. UtilsFile.section = "utils" /\ Ids(UtilsFile.decls) = {}
    BY Sections, IdsEmpty
  <2>2. IF doUtils THEN o5 = Inserted(o4, UtilsFile) ELSE o5 = o4
    BY DEF Insert, Inserted
  <2> HIDE DEF o5
  <2>3. CASE doUtils
    <3> DEFINE file == UtilsFile
    <3>1. file.section \in Section /\ o5 = Inserted(o4, file) /\ path("utils") = section[file.section].path
      BY <1>6, <2>1, <2>2, <2>3
    <3> HIDE DEF file
    <3>2. /\ Shows(o5) \subseteq Shows(o4) \cup Ids(file.decls)
          /\ \A p \in DOMAIN o4 : p # path("utils") => p \in DOMAIN o5 /\ o5[p] = o4[p]
      BY <3>1, InsertedAt
    <3>3. Ids(file.decls) = {}
      BY <2>1 DEF file
    <3>4. path("functions") # path("utils") /\ path("consts") # path("utils") /\ path("types") # path("utils")
      BY <1>5, <1>6
    <3> QED
      BY <1>10, <3>2, <3>3, <3>4
  <2>4. CASE ~doUtils
    BY <1>10, <2>2, <2>4
  <2> QED
    BY <2>3, <2>4
<1> HIDE DEF o5
<1>12. Ids(functions) \cup C \cup E \subseteq Shows(o5)
  <2>1. Ids(functions) \subseteq Shows(o5)
    BY <1>2, <1>11, IdsEmpty DEF Shows
  <2>2. C \subseteq Shows(o5)
    BY <1>2, <1>11 DEF Shows
  <2>3. E \subseteq Shows(o5)
    BY <1>4, <1>11 DEF Shows
  <2> QED
    BY <2>1, <2>2, <2>3
<1>13. Displayed' = Shows(o5) /\ Displayed = Shows(outputs)
  BY <1>1 DEF Displayed, Shows
<1> QED
  BY <1>1, <1>3, <1>11, <1>12, <1>13

(* finalise_output as a step of the ledger. *)
LEMMA FinaliseShows ==
  ASSUME TypeOK, PathsInv, NumberInv, FinaliseOutput
  PROVE  Ledger!Show /\ NumberInv'
<1> DEFINE C == IF ConstsRendered THEN Ids(consts) ELSE {}
           E == IF TypesRendered THEN Ids(enums) ELSE {}
<1>1. /\ Ids(functions) \cup C \cup E \subseteq Displayed'
      /\ Displayed' \subseteq Displayed \cup Ids(functions) \cup C \cup E \cup Ids(structs)
      /\ rendered' = rendered \cup Displayed'
      /\ Ids(functions') = {} /\ Ids(structs') = Ids(structs) /\ nextId' = nextId
      /\ Alive
  BY RenderShows DEF FinaliseOutput
<1>2. Alive' /\ lost' = lost
  BY DEF FinaliseOutput, Alive
<1>3. Ids(consts') = Ids(consts) \ C /\ Ids(enums') = Ids(enums) \ E
  BY IdsResolved, IdsEmpty DEF FinaliseOutput, ConstsKept, EnumsKept, TypeOK, GatheredTypeOK
<1>4. C \subseteq Ids(consts) /\ E \subseteq Ids(enums)
  OBVIOUS
<1> HIDE DEF C, E
<1>5. Ledger!Waiting \ Ledger!Waiting' = Ids(functions) \cup C \cup E
  BY <1>1, <1>3, <1>4, WaitingIs DEF NumberInv
<1>6. Ledger!Waiting' \subseteq Ledger!Waiting
  BY <1>1, <1>3, WaitingIs
<1>7. Ledger!Show
  BY <1>1, <1>2, <1>5, <1>6 DEF Ledger!Show, Ledger!Release, Ledger!Gone
<1>8. NumberInv'
  BY <1>1, <1>3 DEF NumberInv
<1> QED
  BY <1>7, <1>8

(* A panic that comes after the functions: the batch that was drained is not in the *)
(* files, neither in the new ones nor, because it was waiting, in those that were   *)
(* there before.                                                                    *)
LEMMA PanicBreaks ==
  ASSUME TypeOK, PathsInv, NumberInv, Ledger!Accounted,
         FinaliseLosesConsts \/ FinaliseLosesEnums
  PROVE  Ledger!Break /\ NumberInv'
<1>1. Ledger!Waiting = Ids(consts) \cup Ids(enums) \cup Ids(functions)
  BY WaitingIs
<1>2. /\ (Ids(consts) \cup Ids(enums)) \cap Displayed = {}
      /\ (Ids(consts) \cup Ids(enums)) \cap Ids(structs) = {}
      /\ (Ids(consts) \cup Ids(enums)) \cap Ids(functions) = {}
      /\ Ids(consts) \cap Ids(enums) = {}
      /\ Alive => lost = {}
  BY <1>1 DEF Ledger!Accounted, NumberInv
<1>3. ASSUME NEW C \in SUBSET Ids(consts), NEW b \in {"consts", "enums"},
             Ids(consts') \cup Ids(enums') = (Ids(consts) \cup Ids(enums)) \ (C \cup Pending[b]),
             Ids(consts') \subseteq Ids(consts), Ids(enums') \subseteq Ids(enums),
             b = "consts" => C = {},
             Ids(functions) \cup C \subseteq Displayed',
             Displayed' \subseteq Displayed \cup Ids(functions) \cup C \cup Ids(structs),
             rendered' = rendered \cup Displayed',
             Ids(functions') = {}, Ids(structs') = Ids(structs), nextId' = nextId,
             Alive, ~Alive', lost' = lost \cup Pending[b]
      PROVE  Ledger!Break /\ NumberInv'
  <2> DEFINE P == Pending[b]
  <2>1. P \subseteq Ids(consts) \cup Ids(enums) /\ P \cap C = {}
    BY <1>2, <1>3 DEF Pending
  <2>2. lost' = P
    BY <1>2, <1>3
  <2> HIDE DEF P
  <2>3. Ledger!Waiting' = (Ids(consts) \cup Ids(enums)) \ (C \cup P)
    BY <1>3, WaitingIs DEF P
  <2>4. Ledger!Waiting \ Ledger!Waiting' = Ids(functions) \cup C \cup P
    BY <1>1, <1>2, <1>3, <2>1, <2>3
  <2>5. lost' = (Ledger!Waiting \ Ledger!Waiting') \ Displayed'
    BY <1>2, <1>3, <2>1, <2>2, <2>4
  <2>6. lost' \subseteq Pending[b] /\ b \in {"consts", "enums", "functions"}
    BY <2>2 DEF P
  <2>7. Ledger!Release
    BY <1>1, <1>3, <2>3, <2>4 DEF Ledger!Release, Ledger!Gone
  <2>8. Ledger!Break
    BY <1>3, <2>5, <2>6, <2>7 DEF Ledger!Break, Ledger!Gone
  <2>9. NumberInv'
    BY <1>3 DEF NumberInv
  <2> QED
    BY <2>8, <2>9
<1>4. Pending["consts"] = Ids(consts) /\ Pending["enums"] = Ids(enums)
  BY DEF Pending
<1>5. CASE FinaliseLosesConsts
  <2>1. /\ Ids(functions) \subseteq Displayed'
        /\ Displayed' \subseteq Displayed \cup Ids(functions) \cup Ids(structs)
        /\ rendered' = rendered \cup Displayed'
        /\ Ids(functions') = {} /\ Ids(structs') = Ids(structs) /\ nextId' = nextId
        /\ Alive
    BY <1>5, RenderShows DEF FinaliseLosesConsts
  <2>2. Ids(consts') = {} /\ enums' = enums /\ lost' = lost \cup Ids(consts) /\ ~Alive'
    BY <1>5, IdsEmpty DEF FinaliseLosesConsts, Alive
  <2> DEFINE none == {}
  <2>3. none \in SUBSET Ids(consts)
    OBVIOUS
  <2>4. Ids(consts') \cup Ids(enums') = (Ids(consts) \cup Ids(enums)) \ (none \cup Pending["consts"])
    BY <1>2, <1>4, <2>2
  <2> QED
    BY <1>3, <1>4, <2>1, <2>2, <2>3, <2>4
<1>6. CASE FinaliseLosesEnums
  <2> DEFINE C == IF ConstsRendered THEN Ids(consts) ELSE {}
  <2>1. /\ Ids(functions) \cup C \subseteq Displayed'
        /\ Displayed' \subseteq Displayed \cup Ids(functions) \cup C \cup Ids(structs)
        /\ rendered' = rendered \cup Displayed'
        /\ Ids(functions') = {} /\ Ids(structs') = Ids(structs) /\ nextId' = nextId
        /\ Alive
    BY <1>6, RenderShows DEF FinaliseLosesEnums
  <2>2. Ids(consts') = Ids(consts) \ C
    BY <1>6, IdsResolved, IdsEmpty DEF FinaliseLosesEnums, ConstsKept, TypeOK, GatheredTypeOK
  <2>3. Ids(enums') = {} /\ lost' = lost \cup Ids(enums) /\ ~Alive'
    BY <1>6, IdsEmpty DEF FinaliseLosesEnums, Alive
  <2>4. C \in SUBSET Ids(consts)
    OBVIOUS
  <2> HIDE DEF C
  <2>5. Ids(consts') \cup Ids(enums') = (Ids(consts) \cup Ids(enums)) \ (C \cup Pending["enums"])
    BY <1>2, <1>4, <2>2, <2>3, <2>4
  <2> QED
    BY <1>3, <1>4, <2>1, <2>2, <2>3, <2>4, <2>5
<1> QED
  BY <1>5, <1>6

(* A new item goes to the end of one list, under a number of its own. *)
LEMMA AcceptStep ==
  ASSUME TypeOK, NumberInv, NEW item \in Crate,
         ParseConst(item) \/ ParseEnum(item) \/ ParseStruct(item) \/ ParseFn(item)
  PROVE  Ledger!Accept /\ NumberInv'
<1>1. /\ nextId' = nextId + 1 /\ nextId \in Nat /\ UNCHANGED <<rendered, lost, outputs>>
      /\ Alive /\ Alive'
  BY DEF ParseConst, ParseEnum, ParseStruct, ParseFn, Number, TypeOK, Accepts, Alive
<1>2. Snip(item) \in Snippet /\ Snip(item).id = nextId
  BY <1>1, CrateAssumption DEF Snip, Item, Snippet
<1>3. /\ consts \in Seq(Snippet) /\ enums \in Seq(Snippet)
      /\ structs \in Seq(Snippet) /\ functions \in Seq(Snippet)
  BY DEF TypeOK, GatheredTypeOK
<1>4. Displayed' = Displayed
  BY <1>1 DEF Displayed
<1>5. \/ /\ Ids(consts') = Ids(consts) \cup {nextId}
         /\ UNCHANGED <<enums, functions, structs>>
      \/ /\ Ids(enums') = Ids(enums) \cup {nextId}
         /\ UNCHANGED <<consts, functions, structs>>
      \/ /\ Ids(functions') = Ids(functions) \cup {nextId}
         /\ UNCHANGED <<consts, enums, structs>>
      \/ /\ Ids(structs') = Ids(structs) \cup {nextId}
         /\ UNCHANGED <<consts, enums, functions>>
  <2>1. CASE ParseConst(item)
    BY <1>2, <1>3, <2>1, IdsAppend DEF ParseConst
  <2>2. CASE ParseEnum(item)
    BY <1>2, <1>3, <2>2, IdsAppend DEF ParseEnum
  <2>3. CASE ParseStruct(item)
    BY <1>2, <1>3, <2>3, IdsAppend DEF ParseStruct
  <2>4. CASE ParseFn(item)
    BY <1>2, <1>3, <2>4, IdsAppend DEF ParseFn
  <2> QED
    BY <2>1, <2>2, <2>3, <2>4
<1>6. \/ \E b \in {"consts", "enums", "functions"} :
            Pending' = [Pending EXCEPT ![b] = @ \cup {nextId}] /\ Ids(structs') = Ids(structs)
      \/ Pending' = Pending /\ Ids(structs') = Ids(structs) \cup {nextId}
  <2>1. CASE Ids(consts') = Ids(consts) \cup {nextId} /\ UNCHANGED <<enums, functions, structs>>
    <3>1. Pending' = [Pending EXCEPT !["consts"] = @ \cup {nextId}]
      BY <2>1 DEF Pending
    <3> QED
      BY <2>1, <3>1
  <2>2. CASE Ids(enums') = Ids(enums) \cup {nextId} /\ UNCHANGED <<consts, functions, structs>>
    <3>1. Pending' = [Pending EXCEPT !["enums"] = @ \cup {nextId}]
      BY <2>2 DEF Pending
    <3> QED
      BY <2>2, <3>1
  <2>3. CASE Ids(functions') = Ids(functions) \cup {nextId} /\ UNCHANGED <<consts, enums, structs>>
    <3>1. Pending' = [Pending EXCEPT !["functions"] = @ \cup {nextId}]
      BY <2>3 DEF Pending
    <3> QED
      BY <2>3, <3>1
  <2>4. CASE Ids(structs') = Ids(structs) \cup {nextId} /\ UNCHANGED <<consts, enums, functions>>
    BY <2>4 DEF Pending
  <2> QED
    BY <1>5, <2>1, <2>2, <2>3, <2>4
<1>7. Ledger!Accept
  BY <1>1, <1>4, <1>6 DEF Ledger!Accept
<1>8. /\ nextId \notin Ids(consts) \cup Ids(enums) \cup Ids(functions) \cup Ids(structs)
      /\ 1..(nextId' - 1) = 1..(nextId - 1) \cup {nextId}
  BY <1>1 DEF NumberInv
<1>9. NumberInv'
  BY <1>1, <1>5, <1>8 DEF NumberInv
<1> QED
  BY <1>7, <1>9

(* The inductive invariant: each section has one of the paths it may have, each     *)
(* number is held by one list, and the ledger adds up.                              *)
LedgerInv == PathsInv /\ NumberInv /\ Ledger!Accounted

(* Every step of a ledger that adds up leaves one that adds up. *)
LEMMA AccountedStep ==
  ASSUME TypeOK, NumberInv, Ledger!Accounted, Ledger!Next \/ UNCHANGED Ledger!vars
  PROVE  Ledger!Accounted'
<1> USE DEF Ledger!Accounted
<1>1. CASE Ledger!Accept
  <2>1. nextId \in Nat /\ nextId > 0 /\ nextId' = nextId + 1
    BY <1>1 DEF Ledger!Accept, TypeOK, NumberInv
  <2>2. 1..(nextId' - 1) = 1..(nextId - 1) \cup {nextId} /\ nextId \notin 1..(nextId - 1)
    BY <2>1
  <2>3. /\ UNCHANGED <<Displayed, rendered, lost>> /\ Alive' = Alive
        /\ \/ /\ \E b \in {"consts", "enums", "functions"} :
                    Pending' = [Pending EXCEPT ![b] = @ \cup {nextId}]
              /\ Ids(structs') = Ids(structs)
           \/ Pending' = Pending /\ Ids(structs') = Ids(structs) \cup {nextId}
    BY <1>1 DEF Ledger!Accept
  <2>4. \/ Ledger!Waiting' = Ledger!Waiting \cup {nextId} /\ Ids(structs') = Ids(structs)
        \/ Ledger!Waiting' = Ledger!Waiting /\ Ids(structs') = Ids(structs) \cup {nextId}
    <3>1. DOMAIN Pending = {"consts", "enums", "functions"}
      BY DEF Pending
    <3>2. ASSUME NEW b \in {"consts", "enums", "functions"},
                 Pending' = [Pending EXCEPT ![b] = @ \cup {nextId}]
          PROVE  Ledger!Waiting' = Ledger!Waiting \cup {nextId}
      <4>1. /\ Pending'[b] = Pending[b] \cup {nextId}
            /\ \A c \in {"consts", "enums", "functions"} : c # b => Pending'[c] = Pending[c]
        BY <3>1, <3>2
      <4> QED
        BY <4>1 DEF Ledger!Waiting
    <3>3. Pending' = Pending => Ledger!Waiting' = Ledger!Waiting
      BY DEF Ledger!Waiting
    <3> QED
      BY <2>3, <3>2, <3>3
  <2> QED
    BY <2>2, <2>3, <2>4
<1>2. CASE Ledger!Show
  BY <1>2 DEF Ledger!Show, Ledger!Release, Ledger!Gone
<1>3. CASE Ledger!Break
  BY <1>3 DEF Ledger!Break, Ledger!Release, Ledger!Gone
<1>4. CASE Ledger!Fresh
  <2>1. Ledger!Waiting' = Ledger!Waiting
    BY <1>4 DEF Ledger!Fresh, Ledger!Waiting
  <2> QED
    BY <1>4, <2>1 DEF Ledger!Fresh
<1>5. CASE UNCHANGED Ledger!vars
  <2>1. Ledger!Waiting' = Ledger!Waiting
    BY <1>5 DEF Ledger!vars, Ledger!Waiting
  <2> QED
    BY <1>5, <2>1 DEF Ledger!vars
<1> QED
  BY <1>1, <1>2, <1>3, <1>4, <1>5 DEF Ledger!Next

LEMMA LedgerStep ==
  ASSUME TypeOK, LedgerInv, [Next]_vars
  PROVE  /\ Ledger!Next \/ UNCHANGED Ledger!vars
         /\ PathsInv' /\ NumberInv'
<1> USE DEF LedgerInv
<1>1. CASE FinaliseOutput
  <2>1. section' = section
    BY <1>1 DEF FinaliseOutput, RenderSections, config
  <2> QED
    BY <1>1, <2>1, FinaliseShows DEF Ledger!Next, PathsInv
<1>2. CASE FinaliseLosesConsts \/ FinaliseLosesEnums
  <2>1. section' = section
    BY <1>2 DEF FinaliseLosesConsts, FinaliseLosesEnums, RenderSections, config
  <2> QED
    BY <1>2, <2>1, PanicBreaks DEF Ledger!Next, PathsInv
<1>3. ASSUME NEW item \in Crate,
             ParseConst(item) \/ ParseEnum(item) \/ ParseStruct(item) \/ ParseFn(item)
      PROVE  (Ledger!Next \/ UNCHANGED Ledger!vars) /\ PathsInv' /\ NumberInv'
  <2>1. section' = section
    BY <1>3 DEF ParseConst, ParseEnum, ParseStruct, ParseFn, config
  <2> QED
    BY <1>3, <2>1, AcceptStep DEF Ledger!Next, PathsInv
<1>4. CASE FreshOutputs
  <2>1. /\ UNCHANGED <<section, consts, enums, structs, functions, nextId, rendered, lost, result>>
        /\ outputs' = <<>> /\ Alive
    BY <1>4 DEF FreshOutputs, config, gathered, history
  <2>2. Displayed' = {}
    BY <2>1 DEF Displayed
  <2>3. Pending' = Pending /\ Alive'
    BY <2>1 DEF Pending, Alive
  <2> QED
    BY <2>1, <2>2, <2>3 DEF Ledger!Next, Ledger!Fresh, PathsInv, NumberInv
<1>5. CASE FinalisePanics
  <2>1. UNCHANGED <<section, enums, nextId, rendered, lost, outputs>> /\ Alive /\ ~Alive'
    BY <1>5 DEF FinalisePanics, config, Alive
  <2>2. /\ Ids(consts') = Ids(consts) /\ Ids(functions') = Ids(functions)
        /\ Ids(structs') = Ids(structs)
    BY <1>5, IdsResolved DEF FinalisePanics, TypeOK, GatheredTypeOK
  <2>3. Ledger!Waiting' = Ledger!Waiting /\ Displayed' = Displayed
    BY <2>1, <2>2, WaitingIs DEF Displayed
  <2>4. Displayed \subseteq rendered /\ lost = {}
    BY <2>1 DEF Ledger!Accounted
  <2>5. Ledger!Release
    BY <2>1, <2>2, <2>3, <2>4 DEF Ledger!Release
  <2>6. Ledger!Break
    BY <2>1, <2>3, <2>4, <2>5 DEF Ledger!Break, Ledger!Gone
  <2> QED
    BY <2>1, <2>2, <2>6 DEF Ledger!Next, PathsInv, NumberInv
<1>6. ASSUME NEW c \in SectionChoice, SetSection(c)
      PROVE  UNCHANGED Ledger!vars /\ PathsInv' /\ NumberInv'
  <2>1. UNCHANGED <<consts, enums, structs, functions, nextId, rendered, lost, outputs, result>>
    BY <1>6 DEF SetSection, gathered, history
  <2>2. PathsInv'
    <3>1. section \in [Section -> [path : Path, class : Class]]
      BY DEF TypeOK, ConfigTypeOK
    <3>2. ASSUME NEW s \in Section PROVE section'[s].path \in PathsOf(s)
      BY <1>6, <3>1 DEF SetSection, PathsInv, PathsOf
    <3> QED
      BY <3>2 DEF PathsInv
  <2>3. Pending' = Pending /\ Displayed' = Displayed /\ Alive' = Alive
    BY <2>1 DEF Pending, Displayed, Alive
  <2> QED
    BY <2>1, <2>2, <2>3 DEF Ledger!vars, NumberInv
<1>7. ASSUME UNCHANGED <<section, consts, enums, structs, functions, nextId, rendered, lost, outputs>>,
             Alive' = Alive
      PROVE  UNCHANGED Ledger!vars /\ PathsInv' /\ NumberInv'
  <2>1. Pending' = Pending /\ Displayed' = Displayed
    BY <1>7 DEF Pending, Displayed
  <2> QED
    BY <1>7, <2>1 DEF Ledger!vars, PathsInv, NumberInv
<1>8. ASSUME \/ \E n \in FilterName : Filter(n)
             \/ \E m \in {"blacklist", "whitelist"} : ResetFilter(m)
             \/ \E n \in BlacklistName : BlacklistWrapperFunction(n)
             \/ ResetWrapperFunctionBlacklist
             \/ \E s \in Toggle, on \in BOOLEAN : SetEnabled(s, on)
             \/ \E n \in LibName : SetLibName(n)
             \/ \E n \in OpaqueName : AddOpaqueType(n)
             \/ \E n \in CustomName : AddConst(n)
             \/ \E item \in Crate : ParseDropped(item) \/ ParseTy(item)
             \/ UNCHANGED vars
      PROVE  /\ UNCHANGED <<section, consts, enums, structs, functions, nextId, rendered, lost, outputs>>
             /\ Alive' = Alive
  <2>1. UNCHANGED <<section, consts, enums, structs, functions, nextId, rendered, lost, outputs>>
    BY <1>8 DEF Filter, ResetFilter, BlacklistWrapperFunction, ResetWrapperFunctionBlacklist,
                SetEnabled, SetLibName, AddOpaqueType, AddConst, ParseDropped, ParseTy, vars,
                config, gathered, history
  <2>2. Alive' = Alive
    BY <1>8 DEF Filter, ResetFilter, BlacklistWrapperFunction, ResetWrapperFunctionBlacklist,
                SetEnabled, SetLibName, AddOpaqueType, AddConst, ParseDropped, ParseTy, Accepts,
                vars, Alive
  <2> QED
    BY <2>1, <2>2
<1> QED
  BY <1>1, <1>2, <1>3, <1>4, <1>5, <1>6, <1>7, <1>8 DEF Next, Configure, Parse

LEMMA LedgerInit == Init => Ledger!Init /\ LedgerInv
<1> SUFFICES ASSUME Init PROVE Ledger!Init /\ LedgerInv
  OBVIOUS
<1>1. /\ Pending = [b \in {"consts", "enums", "functions"} |-> {}]
      /\ Ids(structs) = {} /\ Displayed = {} /\ Alive
  <2>1. /\ Ids(consts) = {} /\ Ids(enums) = {} /\ Ids(functions) = {}
        /\ Ids(structs) = {}
    BY IdsEmpty DEF Init
  <2>2. Displayed = {} /\ Alive
    BY DEF Init, Displayed, Alive
  <2>3. Pending = [b \in {"consts", "enums", "functions"} |-> {}]
    BY <2>1 DEF Pending
  <2> QED
    BY <2>1, <2>2, <2>3
<1>2. Ledger!Waiting = {}
  BY <1>1 DEF Ledger!Waiting
<1>3. PathsInv
  BY DEF Init, PathsInv, PathsOf
<1>4. NumberInv
  BY IdsEmpty DEF Init, NumberInv
<1> QED
  BY <1>1, <1>2, <1>3, <1>4 DEF Init, Ledger!Init, LedgerInv, Ledger!Accounted

LEMMA LedgerInvariant == Spec => [](TypeOK /\ LedgerInv)
<1>1. Init => LedgerInv
  BY LedgerInit
<1>2. TypeOK /\ LedgerInv /\ [Next]_vars => LedgerInv'
  BY LedgerStep, AccountedStep DEF LedgerInv
<1> QED
  BY <1>1, <1>2, TypeCorrect, PTL DEF Spec

(* LangCSharp implements the ledger of a back end, for every crate and for every build *)
(* script that gives no two sections the same path: whatever leaves the session is in  *)
(* the files it leaves for, what has been shown is not shown again, and a panic costs  *)
(* what the section being rendered had drained and nothing else.                       *)
THEOREM LedgerKept == Spec => KeepsLedger
<1>1. TypeOK /\ LedgerInv /\ [Next]_vars => [Ledger!Next]_(Ledger!vars)
  BY LedgerStep
<1> QED
  BY <1>1, LedgerInit, LedgerInvariant, PTL DEF Spec, KeepsLedger, Ledger!Spec

(* No order of parsing, disabling sections, finalising and starting over makes an      *)
(* accepted item disappear before it has been in the files, unless the session ends    *)
(* with a panic.                                                                       *)
THEOREM NothingIsLost == Spec => []NothingLost
<1>1. LedgerInv => NothingLost
  BY DEF LedgerInv, NothingLost
<1> QED
  BY <1>1, LedgerInvariant, PTL

-----------------------------------------------------------------------------
(* What finalise_output leaves in the files.                                     *)
(* Each file is one of the sections just rendered or was there before, and no section *)
(* that is rendered takes the place of another one.                                   *)
LEMMA FilesInserted ==
  ASSUME TypeOK, PathsInv, NEW done, RenderSections(done)
  PROVE  LET fs == ResolveAliases(aliases, functions)
             cs == ResolveAliases(aliases, consts)
             ss == ResolveAliases(aliases, structs)
             path(s) == section[s].path
         IN  /\ DOMAIN outputs \subseteq DOMAIN outputs'
             /\ fs # <<>> => path("functions") \in DOMAIN outputs'
                             /\ outputs'[path("functions")] = FunctionsFile(fs)
             /\ InterfaceIds(fs) # {} => path("interface") \in DOMAIN outputs'
                                         /\ outputs'[path("interface")] = InterfaceFile(fs)
             /\ TypesRendered /\ "types" \in done => path("types") \in DOMAIN outputs'
                                 /\ outputs'[path("types")] = TypesFile(ss)
             /\ \A p \in DOMAIN outputs' :
                  \/ p = path("functions") /\ fs # <<>> /\ outputs'[p] = FunctionsFile(fs)
                  \/ p = path("interface") /\ InterfaceIds(fs) # {} /\ outputs'[p] = InterfaceFile(fs)
                  \/ p = path("consts") /\ outputs'[p] = ConstsFile(cs)
                  \/ p = path("types") /\ "types" \in done /\ outputs'[p] = TypesFile(ss)
                  \/ p = path("utils") /\ outputs'[p] = UtilsFile
                  \/ p \in DOMAIN outputs /\ outputs'[p] = outputs[p]
<1> DEFINE cs == ResolveAliases(aliases, consts)
           ss == ResolveAliases(aliases, structs)
           fs == ResolveAliases(aliases, functions)
           o1 == Insert(outputs, fs # <<>>, FunctionsFile(fs))
           o2 == Insert(o1, InterfaceIds(fs) # {}, InterfaceFile(fs))
           o3 == Insert(o2, ConstsRendered /\ "consts" \in done, ConstsFile(cs))
           o4 == Insert(o3, TypesRendered /\ "types" \in done, TypesFile(ss))
           o5 == Insert(o4, "utils" \in enabled \cap done, UtilsFile)
           path(s) == section[s].path
           doConsts == ConstsRendered /\ "consts" \in done
           doTypes == TypesRendered /\ "types" \in done
           doUtils == "utils" \in enabled \cap done
<1>1. outputs' = o5
  BY DEF RenderSections
<1>2. \A s, t \in Section : s # t => path(s) # path(t)
  BY PathAssumption DEF PathsInv
<1>3. /\ path("functions") \notin {path("interface"), path("consts"), path("types"), path("utils")}
      /\ path("interface") \notin {path("consts"), path("types"), path("utils")}
      /\ path("types") # path("utils")
  <2>1. {"functions", "interface", "consts", "types", "utils"} = Section
    BY DEF Section
  <2> QED
    BY <1>2, <2>1
<1>4. /\ FunctionsFile(fs).section = "functions" /\ InterfaceFile(fs).section = "interface"
      /\ ConstsFile(cs).section = "consts" /\ TypesFile(ss).section = "types"
      /\ UtilsFile.section = "utils"
  BY Sections
<1> HIDE DEF cs, ss, fs
<1>5. /\ DOMAIN outputs \subseteq DOMAIN o1
      /\ fs # <<>> => path("functions") \in DOMAIN o1 /\ o1[path("functions")] = FunctionsFile(fs)
      /\ \A p \in DOMAIN o1 : \/ fs # <<>> /\ p = path("functions")
                              \/ p \in DOMAIN outputs /\ o1[p] = outputs[p]
  <2> DEFINE file == FunctionsFile(fs)
  <2>1. file.section = "functions"
    BY <1>4
  <2>2. IF fs # <<>> THEN o1 = Inserted(outputs, file) ELSE o1 = outputs
    BY DEF Insert, Inserted, file
  <2> HIDE DEF file, o1
  <2> DEFINE q == path("functions")
  <2>3. q = section[file.section].path
    BY <2>1
  <2> HIDE DEF q
  <2>4. CASE fs # <<>>
    <3>1. /\ DOMAIN o1 = DOMAIN outputs \cup {q} /\ o1[q] = file
          /\ \A p \in DOMAIN outputs \ {q} : o1[p] = outputs[p]
      BY <2>2, <2>3, <2>4 DEF Inserted
    <3> QED
      BY <2>4, <3>1 DEF file, q
  <2>5. CASE ~(fs # <<>>)
    BY <2>2, <2>5
  <2> QED
    BY <2>4, <2>5
<1> HIDE DEF o1
<1>6. /\ DOMAIN o1 \subseteq DOMAIN o2
      /\ InterfaceIds(fs) # {} => path("interface") \in DOMAIN o2 /\ o2[path("interface")] = InterfaceFile(fs)
      /\ \A p \in DOMAIN o2 : \/ InterfaceIds(fs) # {} /\ p = path("interface")
                              \/ p \in DOMAIN o1 /\ o2[p] = o1[p]
  <2> DEFINE file == InterfaceFile(fs)
  <2>1. file.section = "interface"
    BY <1>4
  <2>2. IF InterfaceIds(fs) # {} THEN o2 = Inserted(o1, file) ELSE o2 = o1
    BY DEF Insert, Inserted, file
  <2> HIDE DEF file, o2
  <2> DEFINE q == path("interface")
  <2>3. q = section[file.section].path
    BY <2>1
  <2> HIDE DEF q
  <2>4. CASE InterfaceIds(fs) # {}
    <3>1. /\ DOMAIN o2 = DOMAIN o1 \cup {q} /\ o2[q] = file
          /\ \A p \in DOMAIN o1 \ {q} : o2[p] = o1[p]
      BY <2>2, <2>3, <2>4 DEF Inserted
    <3> QED
      BY <2>4, <3>1 DEF file, q
  <2>5. CASE ~(InterfaceIds(fs) # {})
    BY <2>2, <2>5
  <2> QED
    BY <2>4, <2>5
<1> HIDE DEF o2
<1>7. /\ DOMAIN o2 \subseteq DOMAIN o3
      /\ doConsts => path("consts") \in DOMAIN o3 /\ o3[path("consts")] = ConstsFile(cs)
      /\ \A p \in DOMAIN o3 : \/ doConsts /\ p = path("consts")
                              \/ p \in DOMAIN o2 /\ o3[p] = o2[p]
  <2> DEFINE file == ConstsFile(cs)
  <2>1. file.section = "consts"
    BY <1>4
  <2>2. IF doConsts THEN o3 = Inserted(o2, file) ELSE o3 = o2
    BY DEF Insert, Inserted, file
  <2> HIDE DEF file, o3
  <2> DEFINE q == path("consts")
  <2>3. q = section[file.section].path
    BY <2>1
  <2> HIDE DEF q
  <2>4. CASE doConsts
    <3>1. /\ DOMAIN o3 = DOMAIN o2 \cup {q} /\ o3[q] = file
          /\ \A p \in DOMAIN o2 \ {q} : o3[p] = o2[p]
      BY <2>2, <2>3, <2>4 DEF Inserted
    <3> QED
      BY <2>4, <3>1 DEF file, q
  <2>5. CASE ~(doConsts)
    BY <2>2, <2>5
  <2> QED
    BY <2>4, <2>5
<1> HIDE DEF o3
<1>8. /\ DOMAIN o3 \subseteq DOMAIN o4
      /\ doTypes => path("types") \in DOMAIN o4 /\ o4[path("types")] = TypesFile(ss)
      /\ \A p \in DOMAIN o4 : \/ doTypes /\ p = path("types")
                              \/ p \in DOMAIN o3 /\ o4[p] = o3[p]
  <2> DEFINE file == TypesFile(ss)
  <2>1. file.section = "types"
    BY <1>4
  <2>2. IF doTypes THEN o4 = Inserted(o3, file) ELSE o4 = o3
    BY DEF Insert, Inserted, file
  <2> HIDE DEF file, o4
  <2> DEFINE q == path("types")
  <2>3. q = section[file.section].path
    BY <2>1
  <2> HIDE DEF q
  <2>4. CASE doTypes
    <3>1. /\ DOMAIN o4 = DOMAIN o3 \cup {q} /\ o4[q] = file
          /\ \A p \in DOMAIN o3 \ {q} : o4[p] = o3[p]
      BY <2>2, <2>3, <2>4 DEF Inserted
    <3> QED
      BY <2>4, <3>1 DEF file, q
  <2>5. CASE ~(doTypes)
    BY <2>2, <2>5
  <2> QED
    BY <2>4, <2>5
<1> HIDE DEF o4
<1>9. /\ DOMAIN o4 \subseteq DOMAIN o5
      /\ doUtils => path("utils") \in DOMAIN o5 /\ o5[path("utils")] = UtilsFile
      /\ \A p \in DOMAIN o5 : \/ doUtils /\ p = path("utils")
                              \/ p \in DOMAIN o4 /\ o5[p] = o4[p]
  <2> DEFINE file == UtilsFile
  <2>1. file.section = "utils"
    BY <1>4
  <2>2. IF doUtils THEN o5 = Inserted(o4, file) ELSE o5 = o4
    BY DEF Insert, Inserted, file
  <2> HIDE DEF file, o5
  <2> DEFINE q == path("utils")
  <2>3. q = section[file.section].path
    BY <2>1
  <2> HIDE DEF q
  <2>4. CASE doUtils
    <3>1. /\ DOMAIN o5 = DOMAIN o4 \cup {q} /\ o5[q] = file
          /\ \A p \in DOMAIN o4 \ {q} : o5[p] = o4[p]
      BY <2>2, <2>3, <2>4 DEF Inserted
    <3> QED
      BY <2>4, <3>1 DEF file, q
  <2>5. CASE ~(doUtils)
    BY <2>2, <2>5
  <2> QED
    BY <2>4, <2>5
<1> HIDE DEF o5, path
<1>10. ASSUME NEW p \in DOMAIN o5
       PROVE  \/ p = path("functions") /\ fs # <<>> /\ o5[p] = FunctionsFile(fs)
              \/ p = path("interface") /\ InterfaceIds(fs) # {} /\ o5[p] = InterfaceFile(fs)
              \/ p = path("consts") /\ o5[p] = ConstsFile(cs)
              \/ p = path("types") /\ doTypes /\ o5[p] = TypesFile(ss)
              \/ p = path("utils") /\ o5[p] = UtilsFile
              \/ p \in DOMAIN outputs /\ o5[p] = outputs[p]
  BY <1>3, <1>5, <1>6, <1>7, <1>8, <1>9
<1>11. fs # <<>> => path("functions") \in DOMAIN o5 /\ o5[path("functions")] = FunctionsFile(fs)
  BY <1>3, <1>5, <1>6, <1>7, <1>8, <1>9
<1>12. InterfaceIds(fs) # {} => path("interface") \in DOMAIN o5 /\ o5[path("interface")] = InterfaceFile(fs)
  BY <1>3, <1>6, <1>7, <1>8, <1>9
<1>13. doTypes => path("types") \in DOMAIN o5 /\ o5[path("types")] = TypesFile(ss)
  BY <1>3, <1>8, <1>9
<1>14. DOMAIN outputs \subseteq DOMAIN o5
  BY <1>5, <1>6, <1>7, <1>8, <1>9
<1> QED
  BY <1>1, <1>10, <1>11, <1>12, <1>13, <1>14 DEF cs, ss, fs, path

(* The same for the files of one section. *)
LEMMA FilesOfSections ==
  ASSUME TypeOK, PathsInv, NEW done, RenderSections(done), NEW p \in DOMAIN outputs',
         ~(p \in DOMAIN outputs /\ outputs'[p] = outputs[p])
  PROVE  LET fs == ResolveAliases(aliases, functions)
             ss == ResolveAliases(aliases, structs)
         IN  /\ p = section[outputs'[p].section].path
             /\ outputs'[p].section = "functions" => fs # <<>> /\ outputs'[p] = FunctionsFile(fs)
             /\ outputs'[p].section = "interface" =>
                  InterfaceIds(fs) # {} /\ outputs'[p] = InterfaceFile(fs)
             /\ outputs'[p].section = "types" => "types" \in done /\ outputs'[p] = TypesFile(ss)
             /\ outputs'[p].section = "consts" =>
                  outputs'[p] = ConstsFile(ResolveAliases(aliases, consts))
             /\ outputs'[p].section = "utils" => outputs'[p] = UtilsFile
             /\ outputs'[p].section \in Section
<1> DEFINE cs == ResolveAliases(aliases, consts)
           ss == ResolveAliases(aliases, structs)
           fs == ResolveAliases(aliases, functions)
<1>1. \/ p = section["functions"].path /\ fs # <<>> /\ outputs'[p] = FunctionsFile(fs)
      \/ /\ p = section["interface"].path
         /\ InterfaceIds(fs) # {} /\ outputs'[p] = InterfaceFile(fs)
      \/ p = section["consts"].path /\ outputs'[p] = ConstsFile(cs)
      \/ p = section["types"].path /\ "types" \in done /\ outputs'[p] = TypesFile(ss)
      \/ p = section["utils"].path /\ outputs'[p] = UtilsFile
  BY FilesInserted
<1>2. /\ FunctionsFile(fs).section = "functions" /\ InterfaceFile(fs).section = "interface"
      /\ ConstsFile(cs).section = "consts" /\ TypesFile(ss).section = "types"
      /\ UtilsFile.section = "utils"
  BY Sections
<1> HIDE DEF cs, ss, fs
<1>3. /\ p = section[outputs'[p].section].path /\ outputs'[p].section \in Section
      /\ outputs'[p].section = "functions" => fs # <<>> /\ outputs'[p] = FunctionsFile(fs)
      /\ outputs'[p].section = "interface" =>
           InterfaceIds(fs) # {} /\ outputs'[p] = InterfaceFile(fs)
      /\ outputs'[p].section = "types" => "types" \in done /\ outputs'[p] = TypesFile(ss)
      /\ outputs'[p].section = "consts" => outputs'[p] = ConstsFile(cs)
      /\ outputs'[p].section = "utils" => outputs'[p] = UtilsFile
  BY <1>1, <1>2 DEF Section
<1> QED
  BY <1>3 DEF fs, ss, cs

(* Only finalise_output and a fresh start touch the files. *)
LEMMA FilesUntouched ==
  ASSUME [Next]_vars, ~\E done : RenderSections(done)
  PROVE  outputs' = outputs \/ outputs' = <<>>
BY DEF Next, Configure, Parse, Filter, ResetFilter, BlacklistWrapperFunction,
       ResetWrapperFunctionBlacklist, SetEnabled, SetSection, SetLibName, AddOpaqueType, AddConst,
       ParseDropped, ParseTy, ParseConst, ParseEnum, ParseStruct, ParseFn, FinaliseOutput,
       FinalisePanics, FinaliseLosesConsts, FinaliseLosesEnums, FreshOutputs, vars, gathered, history

-----------------------------------------------------------------------------
(* The callbacks of the functions file.                                          *)

(* The first use of a delegate name. *)
LEMMA LeastNat ==
  ASSUME NEW T, T \subseteq Nat, T # {}
  PROVE  \E m \in T : \A n \in T : ~(n < m)
<1>1. PICK m \in T : \A n \in T : <<n, m>> \notin OpToRel(<, Nat)
  BY NatLessThanWellFounded, WFMin
<1> QED
  BY <1>1 DEF OpToRel

LEMMA FirstUse ==
  ASSUME NEW T, T \subseteq Nat \X Nat, T # {}
  PROVE  \E u \in T : \A v \in T : ~(v[1] < u[1] \/ (v[1] = u[1] /\ v[2] < u[2]))
<1> DEFINE I == {u[1] : u \in T}
<1>1. PICK i \in I : \A n \in I : ~(n < i)
  <2>1. I \subseteq Nat /\ I # {}
    OBVIOUS
  <2> HIDE DEF I
  <2> QED
    BY <2>1, LeastNat
<1> DEFINE J == {u[2] : u \in {v \in T : v[1] = i}}
<1>2. PICK j \in J : \A n \in J : ~(n < j)
  <2>1. J \subseteq Nat /\ J # {}
    BY <1>1
  <2> HIDE DEF J
  <2> QED
    BY <2>1, LeastNat
<1>3. PICK u \in T : u[1] = i /\ u[2] = j
  BY <1>2
<1>4. ASSUME NEW v \in T PROVE ~(v[1] < u[1] \/ (v[1] = u[1] /\ v[2] < u[2]))
  BY <1>1, <1>2, <1>3
<1> QED
  BY <1>4

(* Each callback of a list of functions has a delegate of its name; it is single as *)
(* soon as one function has no other callback.                                      *)
LEMMA DelegatesCollected ==
  ASSUME NEW fs \in Seq(Snippet), NEW i \in DOMAIN fs, NEW j \in Callbacks(fs[i])
  PROVE  \E d \in CollectCallbacks(fs) :
           /\ d.name = DelegateName(fs[i].types[j].args)
           /\ Cardinality(Callbacks(fs[i])) = 1 => d.single
<1> DEFINE uses == CallbackUses(fs)
           args(u) == fs[u[1]].types[u[2]].args
           before(u, v) == u[1] < v[1] \/ (u[1] = v[1] /\ u[2] < v[2])
           named(u) == {v \in uses : DelegateName(args(v)) = DelegateName(args(u))}
           only(u) == Cardinality(Callbacks(fs[u[1]])) = 1
           first == {u \in uses : ~\E v \in named(u) : before(v, u)}
           delegate(u) == [name |-> DelegateName(args(u)), args |-> args(u),
                           single |-> \E v \in named(u) : only(v)]
<1>1. CollectCallbacks(fs) = {delegate(u) : u \in first}
  BY DEF CollectCallbacks
<1>2. uses \subseteq Nat \X Nat
  <2>1. ASSUME NEW a \in DOMAIN fs PROVE a \in Nat /\ fs[a].types \in Seq(Type)
    <3>1. fs[a] \in Snippet /\ a \in Nat
      OBVIOUS
    <3> QED
      BY <3>1 DEF Snippet
  <2>2. \A a \in DOMAIN fs : \A b \in Callbacks(fs[a]) : b \in Nat
    BY <2>1 DEF Callbacks
  <2> QED
    BY <2>1, <2>2 DEF CallbackUses
<1>3. PICK w : w = <<i, j>> /\ w \in uses /\ w[1] = i /\ w[2] = j
  <2>1. <<i, j>> \in {<<i, b>> : b \in Callbacks(fs[i])}
    OBVIOUS
  <2>2. <<i, j>> \in uses
    BY <2>1 DEF CallbackUses
  <2> QED
    BY <2>2
<1>4. w \in named(w) /\ named(w) \subseteq Nat \X Nat
  BY <1>2, <1>3
<1>5. PICK u \in named(w) : \A v \in named(w) : ~before(v, u)
  BY <1>4, FirstUse
<1>6. DelegateName(args(u)) = DelegateName(args(w)) /\ u \in uses
  BY <1>5
<1>7. named(u) = named(w)
  BY <1>6
<1>8. u \in first
  BY <1>5, <1>6, <1>7
<1>9. delegate(u).name = DelegateName(args(w)) /\ (only(w) => delegate(u).single)
  BY <1>4, <1>6, <1>7
<1> QED
  BY <1>1, <1>3, <1>8, <1>9

-----------------------------------------------------------------------------
(* A file whose delegates are those of its functions, where each wrapped function   *)
(* has at most one callback.                                                        *)
DelegatesFit(f) ==
    /\ f.delegates = CollectCallbacks(f.decls)
    /\ \A i \in DOMAIN f.decls :
         f.decls[i].id \in f.wrapped => Cardinality(Callbacks(f.decls[i])) <= 1

LEMMA DelegatesOfFiles ==
  DelegateInv <=> \A p \in DOMAIN outputs :
                    outputs[p].section = "functions" => DelegatesFit(outputs[p])
BY DEF DelegateInv, DelegatesFit, Files

LEMMA UniqueStep ==
  ASSUME TypeOK, NumberInv, UniqueInv, [Next]_vars
  PROVE  UniqueInv'
<1>1. functions \in Seq(Snippet)
  BY DEF TypeOK, GatheredTypeOK
<1>2. CASE functions' = functions
  BY <1>2 DEF UniqueInv
<1>3. CASE functions' = <<>>
  BY <1>3 DEF UniqueInv
<1>4. CASE functions' = ResolveAliases(aliases, functions)
  <2> DEFINE fs == ResolveAliases(aliases, functions)
  <2>1. DOMAIN fs = DOMAIN functions /\ \A i \in DOMAIN functions : fs[i].id = functions[i].id
    BY <1>1, ResolvedNames
  <2> HIDE DEF fs
  <2>2. functions' = fs
    BY <1>4 DEF fs
  <2> QED
    BY <2>1, <2>2 DEF UniqueInv
<1>5. ASSUME NEW item \in Crate, ParseFn(item) PROVE UniqueInv'
  <2> DEFINE s == Snip(item)
  <2>1. functions' = Append(functions, s) /\ s.id = nextId
    BY <1>5 DEF ParseFn, Snip
  <2>2. nextId \in Nat /\ Ids(functions) \subseteq 1..(nextId - 1)
    BY DEF TypeOK, NumberInv
  <2>3. nextId \notin Ids(functions)
    BY <2>2
  <2> HIDE DEF s
  <2>4. /\ DOMAIN functions' = DOMAIN functions \cup {Len(functions) + 1}
        /\ \A i \in DOMAIN functions : functions'[i] = functions[i]
        /\ functions'[Len(functions) + 1] = s
    BY <1>1, <2>1
  <2>5. \A i \in DOMAIN functions : functions[i].id # s.id
    BY <2>1, <2>3 DEF Ids
  <2> QED
    BY <2>4, <2>5 DEF UniqueInv
<1>6. \/ functions' \in {functions, <<>>, ResolveAliases(aliases, functions)}
      \/ \E item \in Crate : ParseFn(item)
  BY DEF Next, Configure, Parse, Filter, ResetFilter, BlacklistWrapperFunction,
         ResetWrapperFunctionBlacklist, SetEnabled, SetSection, SetLibName, AddOpaqueType, AddConst,
         ParseDropped, ParseTy, ParseConst, ParseEnum, ParseStruct, FinaliseOutput, FinalisePanics,
         FinaliseLosesConsts, FinaliseLosesEnums, RenderSections, FreshOutputs, vars, gathered
<1> QED
  BY <1>2, <1>3, <1>4, <1>5, <1>6

LEMMA DelegateStep ==
  ASSUME TypeOK, LedgerInv, UniqueInv, DelegateInv, [Next]_vars
  PROVE  DelegateInv'
<1>1. CASE \E done : RenderSections(done)
  <2> PICK done : RenderSections(done)
    BY <1>1
  <2> DEFINE fs == ResolveAliases(aliases, functions)
             file == FunctionsFile(fs)
  <2>1. functions \in Seq(Snippet)
    BY DEF TypeOK, GatheredTypeOK
  <2>2. \A i, j \in DOMAIN fs : fs[i].id = fs[j].id => i = j
    <3>1. DOMAIN fs = DOMAIN functions /\ \A i \in DOMAIN functions : fs[i].id = functions[i].id
      BY <2>1, ResolvedNames
    <3> HIDE DEF fs
    <3> QED
      BY <3>1 DEF UniqueInv
  <2>3. ASSUME NEW p \in DOMAIN outputs', outputs'[p].section = "functions"
        PROVE  outputs'[p] = file \/ (p \in DOMAIN outputs /\ outputs'[p] = outputs[p])
    BY <1>1, <2>3, FilesOfSections DEF LedgerInv
  <2> HIDE DEF fs
  <2>4. /\ file.decls = fs /\ file.wrapped = InterfaceIds(fs)
        /\ file.delegates = CollectCallbacks(fs)
    BY DEF FunctionsFile, Rendering
  <2> HIDE DEF file
  <2>5. ASSUME NEW i \in DOMAIN fs, fs[i].id \in InterfaceIds(fs)
        PROVE  Cardinality(Callbacks(fs[i])) <= 1
    <3>1. PICK k \in DOMAIN fs : fs[k].id = fs[i].id /\ IsInterfaceFunction(fs[k])
      BY <2>5 DEF InterfaceIds
    <3> QED
      BY <2>2, <3>1 DEF IsInterfaceFunction
  <2>6. DelegatesFit(file)
    BY <2>4, <2>5 DEF DelegatesFit
  <2>7. ASSUME NEW p \in DOMAIN outputs', outputs'[p].section = "functions"
        PROVE  DelegatesFit(outputs'[p])
    BY <2>3, <2>6, <2>7, DelegatesOfFiles
  <2> QED
    BY <2>7 DEF DelegateInv, DelegatesFit, Files
<1>2. CASE ~\E done : RenderSections(done)
  <2>1. outputs' = outputs \/ outputs' = <<>>
    BY <1>2, FilesUntouched
  <2> QED
    BY <2>1 DEF DelegateInv, Files
<1> QED
  BY <1>1, <1>2

(* Whatever the crate holds and however often the session is finalised, a wrapper    *)
(* never passes a static method that the functions file does not define: the         *)
(* delegates are collected over all the functions rendered together, and whether one *)
(* is single is decided by any of them (collect_callbacks).                          *)
THEOREM CallbacksAreDefined == Spec => []CallbacksDefined
<1>1. Init => UniqueInv /\ DelegateInv
  BY DEF Init, UniqueInv, DelegateInv, Files
<1>2. TypeOK /\ LedgerInv /\ UniqueInv /\ DelegateInv /\ [Next]_vars => UniqueInv' /\ DelegateInv'
  BY UniqueStep, DelegateStep DEF LedgerInv
<1>3. TypeOK /\ DelegateInv => CallbacksDefined
  <2> SUFFICES ASSUME TypeOK, DelegateInv,
                      NEW p \in DOMAIN outputs, outputs[p].section = "functions",
                      NEW i \in DOMAIN outputs[p].decls, NEW j \in Callbacks(outputs[p].decls[i])
               PROVE  \E d \in outputs[p].delegates :
                        /\ d.name = DelegateName(outputs[p].decls[i].types[j].args)
                        /\ outputs[p].decls[i].id \in outputs[p].wrapped => d.single
    BY DEF CallbacksDefined, Files
  <2>1. PICK f : f = outputs[p]
    OBVIOUS
  <2>2. f \in File /\ DelegatesFit(f)
    BY <2>1, DelegatesOfFiles DEF TypeOK, OutputsType
  <2>3. f.decls \in Seq(Snippet)
    BY <2>2 DEF File
  <2>4. i \in DOMAIN f.decls /\ j \in Callbacks(f.decls[i])
    BY <2>1
  <2>5. PICK d \in CollectCallbacks(f.decls) :
           /\ d.name = DelegateName(f.decls[i].types[j].args)
           /\ Cardinality(Callbacks(f.decls[i])) = 1 => d.single
    BY <2>3, <2>4, DelegatesCollected
  <2>6. ASSUME f.decls[i].id \in f.wrapped PROVE Cardinality(Callbacks(f.decls[i])) = 1
    <3> DEFINE C == Callbacks(f.decls[i])
    <3>1. Cardinality(C) <= 1
      BY <2>2, <2>4, <2>6 DEF DelegatesFit
    <3>2. IsFiniteSet(C)
      <4>1. f.decls[i] \in Snippet
        BY <2>3, <2>4
      <4>2. f.decls[i].types \in Seq(Type)
        BY <4>1 DEF Snippet
      <4> DEFINE n == Len(f.decls[i].types)
      <4>3. C \subseteq 1..n
        BY <4>2 DEF Callbacks
      <4>4. n \in Int /\ 1 \in Int
        BY <4>2
      <4> HIDE DEF C, n
      <4>5. IsFiniteSet(1..n)
        BY <4>4, FS_Interval
      <4> QED
        BY <4>3, <4>5, FS_Subset
    <3>3. C # {}
      BY <2>4
    <3> HIDE DEF C
    <3>4. Cardinality(C) \in Nat /\ Cardinality(C) # 0
      BY <3>2, <3>3, FS_CardinalityType, FS_EmptySet
    <3>5. Cardinality(C) = 1
      BY <3>1, <3>4
    <3> QED
      BY <3>5 DEF C
  <2> QED
    BY <2>1, <2>2, <2>5, <2>6 DEF DelegatesFit
<1> QED
  BY <1>1, <1>2, <1>3, LedgerInvariant, PTL DEF Spec

-----------------------------------------------------------------------------
(* Where the interface of the class is: a file of the functions with wrappers has    *)
(* beside it, under the interface's path, the interface that declares the same ones. *)
InterfaceInv ==
    \A p \in DOMAIN outputs :
        outputs[p].section = "functions" /\ outputs[p].wrapped # {} =>
            /\ DefaultSection["interface"].path \in DOMAIN outputs
            /\ outputs[DefaultSection["interface"].path].section = "interface"
            /\ outputs[DefaultSection["interface"].path].wrapped = outputs[p].wrapped

(* The script leaves the functions and the interface where LangCSharp::new puts them. *)
ClassStaysPut ==
    \A c \in SectionChoice :
        c.section \in {"functions", "interface"} => c.path = DefaultSection[c.section].path

LEMMA ClassPath ==
  ASSUME ClassStaysPut, NEW s \in {"functions", "interface"}
  PROVE  PathsOf(s) = {DefaultSection[s].path}
BY DEF PathsOf, ClassStaysPut

LEMMA SectionStep ==
  ASSUME TypeOK, LedgerInv, SectionInv, [Next]_vars
  PROVE  SectionInv'
<1>1. CASE \E done : RenderSections(done)
  <2> PICK done : RenderSections(done)
    BY <1>1
  <2>1. ASSUME NEW p \in DOMAIN outputs' PROVE p \in PathsOf(outputs'[p].section)
    <3>1. CASE p \in DOMAIN outputs /\ outputs'[p] = outputs[p]
      BY <3>1 DEF SectionInv
    <3>2. CASE ~(p \in DOMAIN outputs /\ outputs'[p] = outputs[p])
      <4>1. p = section[outputs'[p].section].path /\ outputs'[p].section \in Section
        BY <1>1, <3>2, FilesOfSections DEF LedgerInv
      <4> QED
        BY <4>1 DEF LedgerInv, PathsInv
    <3> QED
      BY <3>1, <3>2
  <2> QED
    BY <2>1 DEF SectionInv
<1>2. CASE ~\E done : RenderSections(done)
  <2>1. outputs' = outputs \/ outputs' = <<>>
    BY <1>2, FilesUntouched
  <2> QED
    BY <2>1 DEF SectionInv
<1> QED
  BY <1>1, <1>2

LEMMA InterfaceStep ==
  ASSUME ClassStaysPut, TypeOK, LedgerInv, SectionInv, InterfaceInv, [Next]_vars
  PROVE  InterfaceInv'
<1>1. CASE \E done : RenderSections(done)
  <2> PICK done : RenderSections(done)
    BY <1>1
  <2> DEFINE fs == ResolveAliases(aliases, functions)
             ids == InterfaceIds(fs)
             q == DefaultSection["interface"].path
             r == DefaultSection["functions"].path
  <2>1. PathsOf("functions") = {r} /\ PathsOf("interface") = {q}
    BY ClassPath
  <2>2. section["functions"].path = r /\ section["interface"].path = q
    BY <2>1 DEF LedgerInv, PathsInv, Section
  <2>3. /\ FunctionsFile(fs).wrapped = ids
        /\ InterfaceFile(fs).section = "interface" /\ InterfaceFile(fs).wrapped = ids
    BY DEF FunctionsFile, InterfaceFile, Rendering
  <2>4. /\ DOMAIN outputs \subseteq DOMAIN outputs'
        /\ ids # {} => q \in DOMAIN outputs' /\ outputs'[q] = InterfaceFile(fs)
        /\ fs # <<>> => r \in DOMAIN outputs' /\ outputs'[r] = FunctionsFile(fs)
    BY <1>1, <2>2, FilesInserted DEF LedgerInv
  <2>5. fs = <<>> => ids = {}
    BY DEF InterfaceIds
  <2> HIDE DEF fs, ids
  <2>6. ASSUME NEW p \in DOMAIN outputs', outputs'[p].section = "functions", outputs'[p].wrapped # {}
        PROVE  q \in DOMAIN outputs' /\ outputs'[q].section = "interface"
               /\ outputs'[q].wrapped = outputs'[p].wrapped
    <3>1. CASE fs # <<>>
      <4>1. p \in PathsOf("functions")
        BY <1>1, <2>6, SectionStep DEF SectionInv
      <4>2. p = r
        BY <2>1, <4>1
      <4> QED
        BY <2>3, <2>4, <2>6, <3>1, <4>2
    <3>2. CASE fs = <<>>
      <4>1. ASSUME NEW x \in DOMAIN outputs', outputs'[x].section \in {"functions", "interface"}
            PROVE  x \in DOMAIN outputs /\ outputs'[x] = outputs[x]
        <5>1. ASSUME ~(x \in DOMAIN outputs /\ outputs'[x] = outputs[x]) PROVE FALSE
          <6>1. /\ outputs'[x].section = "functions" => fs # <<>>
                /\ outputs'[x].section = "interface" => ids # {}
            BY <1>1, <5>1, FilesOfSections DEF LedgerInv, fs, ids
          <6> QED
            BY <2>5, <3>2, <4>1, <6>1
        <5> QED
          BY <5>1
      <4>2. p \in DOMAIN outputs /\ outputs'[p] = outputs[p]
        BY <2>6, <4>1
      <4>3. /\ q \in DOMAIN outputs /\ outputs[q].section = "interface"
            /\ outputs[q].wrapped = outputs[p].wrapped
        BY <2>6, <4>2 DEF InterfaceInv
      <4>4. q \in DOMAIN outputs'
        BY <2>4, <4>3
      <4>5. outputs'[q].section = "interface"
        <5>1. q \in PathsOf(outputs'[q].section)
          BY <1>1, <4>4, SectionStep DEF SectionInv
        <5>2. outputs'[q].section \in Section
          <6>1. CASE outputs'[q] = outputs[q]
            BY <4>3, <6>1 DEF Section
          <6>2. CASE outputs'[q] # outputs[q]
            BY <1>1, <4>4, <6>2, FilesOfSections DEF LedgerInv
          <6> QED
            BY <6>1, <6>2
        <5> QED
          BY <2>1, <5>1, <5>2, PathAssumption DEF Section
      <4> QED
        BY <4>1, <4>2, <4>3, <4>4, <4>5
    <3> QED
      BY <3>1, <3>2
  <2> QED
    BY <2>6 DEF InterfaceInv
<1>2. CASE ~\E done : RenderSections(done)
  <2>1. outputs' = outputs \/ outputs' = <<>>
    BY <1>2, FilesUntouched
  <2> QED
    BY <2>1 DEF InterfaceInv
<1> QED
  BY <1>1, <1>2

(* As long as the script leaves the functions and the interface at their paths, a     *)
(* later build into the same files, one in which nothing is wrapped any more included, *)
(* never leaves a class beside an interface with other functions: finalise_output       *)
(* inserts the two under the same condition.                                            *)
THEOREM InterfaceMatches ==
  ASSUME ClassStaysPut
  PROVE  Spec => []InterfaceMatchesClass
<1>1. Init => SectionInv /\ InterfaceInv
  BY DEF Init, SectionInv, InterfaceInv
<1>2. /\ TypeOK /\ LedgerInv /\ SectionInv /\ InterfaceInv /\ [Next]_vars
      => SectionInv' /\ InterfaceInv'
  BY SectionStep, InterfaceStep
<1>3. InterfaceInv => InterfaceMatchesClass
  BY DEF InterfaceInv, InterfaceMatchesClass, Files
<1> QED
  BY <1>1, <1>2, <1>3, LedgerInvariant, PTL DEF Spec

-----------------------------------------------------------------------------
(* The native marking and what is rendered under it.                                 *)

(* resolve_native_types ends with a closed set of names of structs. *)
LEMMA NativeClosed ==
  ASSUME NEW ss \in Seq(Snippet)
  PROVE  /\ Closed(ResolveNative({}, ss), ss)
         /\ \A n \in ResolveNative({}, ss) : \E k \in DOMAIN ss : ss[k].name = n
<1> DEFINE R == ResolveNative({}, ss)
           names == {ss[k].name : k \in DOMAIN ss}
<1>1. ASSUME NEW i \in DOMAIN ss PROVE ss[i].name \in Name
  <2>1. ss[i] \in Snippet
    OBVIOUS
  <2> QED
    BY <2>1 DEF Snippet
<1>2. ASSUME NEW n PROVE n \in R <=> n \in Name /\ \A M \in SUBSET Name : Closed(M, ss) => n \in M
  BY DEF ResolveNative
<1> HIDE DEF R
<1>3. Closed(R, ss)
  <2> SUFFICES ASSUME NEW i \in DOMAIN ss, NeedsNative(R, ss[i]) PROVE ss[i].name \in R
    BY DEF Closed
  <2>1. ASSUME NEW M \in SUBSET Name, Closed(M, ss) PROVE ss[i].name \in M
    <3>1. R \subseteq M
      BY <1>2, <2>1
    <3>2. NeedsNative(M, ss[i])
      BY <3>1 DEF NeedsNative, IsNativeType
    <3> QED
      BY <2>1, <3>2 DEF Closed
  <2> QED
    BY <1>1, <1>2, <2>1
<1>4. R \subseteq names
  <2>1. names \in SUBSET Name /\ Closed(names, ss)
    BY <1>1 DEF Closed
  <2> HIDE DEF names
  <2> QED
    BY <1>2, <2>1
<1> QED
  BY <1>3, <1>4 DEF R

LEMMA OriginStep ==
  ASSUME TypeOK, OriginInv, [Next]_vars
  PROVE  OriginInv'
<1>1. /\ enums \in Seq(Snippet) /\ structs \in Seq(Snippet) /\ finalised \in Nat
      /\ nextId \in Nat
  BY DEF TypeOK, GatheredTypeOK
<1>2. CASE UNCHANGED <<structs, enums, aliases, outputs, marked, finalised>>
  BY <1>2 DEF OriginInv
<1>3. ASSUME NEW item \in Crate, ParseTy(item) PROVE OriginInv'
  <2>1. UNCHANGED <<structs, enums, outputs, marked, finalised>>
    BY <1>3 DEF ParseTy, history
  <2>2. /\ DOMAIN aliases' = DOMAIN aliases \cup {item.name}
        /\ aliases'[item.name] = item.types[1]
        /\ \A a \in DOMAIN aliases : a # item.name => aliases'[a] = aliases[a]
    BY <1>3 DEF ParseTy
  <2>3. item.kind = "type"
    BY <1>3 DEF ParseTy, Accepts
  <2> QED
    BY <2>1, <2>2, <2>3 DEF OriginInv
<1>4. ASSUME NEW item \in Crate, ParseEnum(item) PROVE OriginInv'
  <2> DEFINE s == Snip(item)
  <2>1. UNCHANGED <<structs, aliases, outputs, marked, finalised>>
    BY <1>4 DEF ParseEnum, Number
  <2>2. enums' = Append(enums, s) /\ s.kind = "enum" /\ s.types = <<>>
    BY <1>4, EnumAssumption DEF ParseEnum, Accepts, Snip
  <2> HIDE DEF s
  <2>3. \A i \in DOMAIN enums' : enums'[i] = s \/ (i \in DOMAIN enums /\ enums'[i] = enums[i])
    BY <1>1, <2>2
  <2>4. \A i \in DOMAIN enums' : enums'[i].kind = "enum" /\ enums'[i].types = <<>>
    BY <2>2, <2>3 DEF OriginInv
  <2> QED
    BY <2>1, <2>4 DEF OriginInv
<1>5. ASSUME NEW item \in Crate, ParseStruct(item) PROVE OriginInv'
  <2> DEFINE s == Snip(item)
  <2>1. UNCHANGED <<enums, aliases, outputs, marked, finalised>>
    BY <1>5 DEF ParseStruct, Number
  <2>2. structs' = Append(structs, s) /\ s.kind = "struct" /\ s.name = item.name /\ item.kind = "struct"
    BY <1>5 DEF ParseStruct, Accepts, Snip
  <2> HIDE DEF s
  <2>3. \A i \in DOMAIN structs' : structs'[i] = s \/ (i \in DOMAIN structs /\ structs'[i] = structs[i])
    BY <1>1, <2>2
  <2>4. finalised = 0 => \A i \in DOMAIN structs' :
          structs'[i].kind = "struct" /\ \E x \in Crate :
             x.kind = "struct" /\ x.name = structs'[i].name
    BY <2>2, <2>3 DEF OriginInv
  <2> QED
    BY <2>1, <2>4 DEF OriginInv
<1>6. CASE FinaliseOutput \/ FinalisePanics \/ FinaliseLosesConsts \/ FinaliseLosesEnums
  <2>1. finalised' # 0 /\ aliases' = aliases
    BY <1>1, <1>6
       DEF FinaliseOutput, FinalisePanics, FinaliseLosesConsts, FinaliseLosesEnums, RenderSections
  <2>2. enums' = enums \/ enums' = <<>>
    BY <1>6
       DEF FinaliseOutput, FinalisePanics, FinaliseLosesConsts, FinaliseLosesEnums, EnumsKept
  <2> QED
    BY <2>1, <2>2 DEF OriginInv
<1>7. CASE FreshOutputs
  BY <1>7 DEF FreshOutputs, gathered, history, OriginInv
<1>8. \/ UNCHANGED <<structs, enums, aliases, outputs, marked, finalised>>
      \/ \E item \in Crate : ParseTy(item) \/ ParseEnum(item) \/ ParseStruct(item)
      \/ FinaliseOutput \/ FinalisePanics \/ FinaliseLosesConsts \/ FinaliseLosesEnums
      \/ FreshOutputs
  BY DEF Next, Configure, Parse, Filter, ResetFilter, BlacklistWrapperFunction,
         ResetWrapperFunctionBlacklist, SetEnabled, SetSection, SetLibName, AddOpaqueType, AddConst,
         ParseDropped, ParseConst, ParseFn, Number, vars, gathered, history
<1> QED
  BY <1>2, <1>3, <1>4, <1>5, <1>6, <1>7, <1>8

LEMMA OriginInvariant == Spec => []OriginInv
<1>1. Init => OriginInv
  BY DEF Init, OriginInv
<1>2. TypeOK /\ OriginInv /\ [Next]_vars => OriginInv'
  BY OriginStep
<1> QED
  BY <1>1, <1>2, TypeCorrect, PTL DEF Spec

(* No struct of the crate has the name of an alias ... *)
NoStructRenamed ==
    \A a, s \in Crate : a.kind = "type" /\ s.kind = "struct" => a.name # s.name
(* ... and no alias stands for a struct or for a dynamic array. *)
NoStructAliased ==
    \A a \in Crate : a.kind = "type" =>
        /\ Outermost(a.types[1]) # "dyn"
        /\ \A s \in Crate : s.kind = "struct" => a.types[1].base # s.name

(* At the first finalise_output the structs bear their own names, and the marking is   *)
(* closed and made of them.                                                            *)
LEMMA FirstBuild ==
  ASSUME TypeOK, NativeIsLeast, OriginInv, Alive, finalised = 0
  PROVE  /\ outputs = <<>>
         /\ Closed(nativeTypes, structs)
         /\ \A n \in nativeTypes : \E k \in DOMAIN structs : structs[k].name = n
<1>1. structs \in Seq(Snippet) /\ marked = 0 /\ outputs = <<>>
  BY DEF TypeOK, GatheredTypeOK, OriginInv
<1>2. CASE Len(structs) > 0
  BY <1>1, <1>2, NativeClosed DEF NativeIsLeast
<1>3. CASE ~(Len(structs) > 0)
  <2>1. nativeTypes = {} /\ DOMAIN structs = {}
    BY <1>1, <1>3 DEF NativeIsLeast
  <2> QED
    BY <1>1, <2>1 DEF Closed
<1> QED
  BY <1>1, <1>2, <1>3

(* The structs of the types file are those parsed, under their own names. *)
LEMMA StructsRendered ==
  ASSUME NoStructRenamed, TypeOK, OriginInv, finalised = 0
  PROVE  LET ss == ResolveAliases(aliases, structs)
             decls == TypesFile(ss).decls
         IN  /\ \A k \in DOMAIN structs :
                  /\ Len(enums) + k \in DOMAIN decls /\ decls[Len(enums) + k] = ss[k]
                  /\ ss[k].kind = "struct" /\ ss[k].name = structs[k].name
             /\ \A i \in DOMAIN decls : decls[i].kind = "struct" =>
                  \E k \in DOMAIN structs : i = Len(enums) + k
<1> DEFINE ss == ResolveAliases(aliases, structs)
           decls == TypesFile(ss).decls
<1>1. structs \in Seq(Snippet) /\ enums \in Seq(Snippet) /\ ss \in Seq(Snippet)
  BY ResolveAliasesType DEF TypeOK, GatheredTypeOK
<1>2. decls = enums \o ss
  BY Sections
<1>3. DOMAIN ss = DOMAIN structs
  BY <1>1, ResolvedNames
<1>4. ASSUME NEW k \in DOMAIN structs
      PROVE  ss[k].kind = "struct" /\ ss[k].name = structs[k].name
  <2>1. ss[k].kind = structs[k].kind /\ ss[k].name = ResolveName(aliases, structs[k])
    BY <1>1, ResolvedNames
  <2>2. PICK item \in Crate : item.kind = "struct" /\ item.name = structs[k].name
    BY DEF OriginInv
  <2>3. structs[k].name \notin DOMAIN aliases
    BY <2>2 DEF NoStructRenamed, OriginInv
  <2>4. structs[k].kind = "struct"
    BY DEF OriginInv
  <2>5. ResolveName(aliases, structs[k]) = structs[k].name
    BY <2>3 DEF ResolveName
  <2> HIDE DEF ss
  <2> QED
    BY <2>1, <2>4, <2>5
<1> HIDE DEF ss
<1>5. ASSUME NEW k \in DOMAIN structs
      PROVE  Len(enums) + k \in DOMAIN decls /\ decls[Len(enums) + k] = ss[k]
  BY <1>1, <1>2, <1>3
<1>6. ASSUME NEW i \in DOMAIN decls, decls[i].kind = "struct"
      PROVE  \E k \in DOMAIN structs : i = Len(enums) + k
  <2>1. /\ Len(enums) \in Nat /\ DOMAIN enums = 1..Len(enums)
        /\ Len(ss) \in Nat /\ DOMAIN ss = 1..Len(ss) /\ i \in 1..(Len(enums) + Len(ss))
    BY <1>1, <1>2
  <2>2. i \notin DOMAIN enums
    <3>1. ASSUME i \in DOMAIN enums PROVE decls[i] = enums[i]
      BY <1>1, <1>2, <3>1
    <3> QED
      BY <1>6, <3>1 DEF OriginInv
  <2>3. i - Len(enums) \in DOMAIN ss /\ i = Len(enums) + (i - Len(enums))
    BY <2>1, <2>2
  <2> QED
    BY <1>3, <2>3
<1> QED
  BY <1>4, <1>5, <1>6 DEF ss

(* A script that leaves the types section alone. *)
LEMMA TypesStayEnabled ==
  ASSUME "types" \notin Toggle
  PROVE  Spec => []("types" \in enabled)
<1>1. Init => "types" \in enabled
  BY DEF Init
<1>2. "types" \in enabled /\ [Next]_vars => ("types" \in enabled)'
  BY DEF Next, Configure, Parse, Filter, ResetFilter, BlacklistWrapperFunction,
         ResetWrapperFunctionBlacklist, SetEnabled, SetSection, SetLibName, AddOpaqueType, AddConst,
         ParseDropped, ParseTy, ParseConst, ParseEnum, ParseStruct, ParseFn, FinaliseOutput,
         FinalisePanics, FinaliseLosesConsts, FinaliseLosesEnums, RenderSections, FreshOutputs, vars, config
<1> QED
  BY <1>1, <1>2, PTL DEF Spec

LEMMA FinalisedGrows ==
  ASSUME TypeOK, [Next]_vars
  PROVE  finalised \in Nat /\ finalised' \in Nat /\ finalised <= finalised'
<1>1. finalised \in Nat
  BY DEF TypeOK
<1>2. finalised' = finalised \/ finalised' = finalised + 1
  BY DEF Next, Configure, Parse, Filter, ResetFilter, BlacklistWrapperFunction,
         ResetWrapperFunctionBlacklist, SetEnabled, SetSection, SetLibName, AddOpaqueType, AddConst,
         ParseDropped, ParseTy, ParseConst, ParseEnum, ParseStruct, ParseFn, Number, FinaliseOutput,
         FinalisePanics, FinaliseLosesConsts, FinaliseLosesEnums, RenderSections, FreshOutputs,
         vars, history
<1> HIDE DEF vars
<1>3. ASSUME NEW n \in Nat, NEW m, m = n \/ m = n + 1 PROVE m \in Nat /\ n <= m
  BY <1>3
<1> QED
  BY ONLY <1>1, <1>2, <1>3

LEMMA NativeNamesStep ==
  ASSUME NoStructRenamed, "types" \in enabled, TypeOK, LedgerInv, NativeIsLeast, OriginInv,
         finalised <= 1 => NativeNamesDefined, [Next]_vars, finalised' <= 1
  PROVE  NativeNamesDefined'
<1>1. CASE FinaliseOutput
  <2> PICK done : RenderSections(done) /\ "types" \in done
    BY <1>1 DEF FinaliseOutput
  <2> DEFINE fs == ResolveAliases(aliases, functions)
             ss == ResolveAliases(aliases, structs)
             g == TypesFile(ss)
             q == section["types"].path
  <2>1. Alive /\ finalised = 0
    BY DEF RenderSections, TypeOK
  <2>2. /\ outputs = <<>>
        /\ \A n \in nativeTypes : \E k \in DOMAIN structs : structs[k].name = n
    BY <2>1, FirstBuild
  <2>3. ASSUME NEW p \in DOMAIN outputs', outputs'[p].section = "functions"
        PROVE  outputs'[p] = FunctionsFile(fs)
    BY <1>1, <2>2, <2>3, FilesOfSections DEF LedgerInv
  <2>4. FunctionsFile(fs).native = nativeTypes /\ g.native = nativeTypes /\ g.section = "types"
    BY DEF FunctionsFile, TypesFile, Rendering
  <2>5. structs # <<>> => q \in DOMAIN outputs' /\ outputs'[q] = g
    BY <1>1, FilesInserted DEF LedgerInv, TypesRendered
  <2>6. \A k \in DOMAIN structs :
           /\ Len(enums) + k \in DOMAIN g.decls
           /\ g.decls[Len(enums) + k].kind = "struct"
           /\ g.decls[Len(enums) + k].name = structs[k].name
    BY <2>1, StructsRendered
  <2> HIDE DEF fs, ss, g, q
  <2>7. ASSUME NEW p \in DOMAIN outputs', outputs'[p].section = "functions",
               NEW i \in DOMAIN outputs'[p].decls, NEW j \in DOMAIN outputs'[p].decls[i].types,
               IsNativeType(outputs'[p].native, outputs'[p].decls[i].types[j])
        PROVE  \E r \in DOMAIN outputs' :
                 /\ outputs'[r].section = "types"
                 /\ \E k \in DOMAIN outputs'[r].decls :
                      /\ outputs'[r].decls[k].kind = "struct"
                      /\ outputs'[r].decls[k].name = outputs'[p].decls[i].types[j].base
                      /\ outputs'[r].decls[k].name \in outputs'[r].native
    <3> DEFINE b == outputs'[p].decls[i].types[j].base
    <3>1. b \in nativeTypes
      BY <2>3, <2>4, <2>7 DEF IsNativeType
    <3> HIDE DEF b
    <3>2. PICK k \in DOMAIN structs : structs[k].name = b
      BY <2>2, <3>1
    <3>3. q \in DOMAIN outputs' /\ outputs'[q] = g
      BY <2>5, <3>2
    <3>4. PICK n \in DOMAIN g.decls : g.decls[n].kind = "struct" /\ g.decls[n].name = b
      BY <2>6, <3>2
    <3> QED
      BY <2>4, <3>1, <3>3, <3>4 DEF b
  <2> QED
    BY <2>7 DEF NativeNamesDefined, Files
<1>2. CASE FinaliseLosesConsts \/ FinaliseLosesEnums
  <2>1. ~Alive'
    BY <1>2 DEF FinaliseLosesConsts, FinaliseLosesEnums, Alive
  <2> QED
    BY <2>1 DEF NativeNamesDefined
<1>3. CASE ~(FinaliseOutput \/ FinaliseLosesConsts \/ FinaliseLosesEnums)
  <2>1. outputs' = outputs \/ outputs' = <<>>
    BY <1>3
       DEF Next, Configure, Parse, Filter, ResetFilter, BlacklistWrapperFunction,
           ResetWrapperFunctionBlacklist, SetEnabled, SetSection, SetLibName, AddOpaqueType,
           AddConst, ParseDropped, ParseTy, ParseConst, ParseEnum, ParseStruct, ParseFn,
           FinalisePanics, FreshOutputs, vars, gathered, history
  <2>2. Alive' => Alive
    BY <1>3
       DEF Next, Configure, Parse, Filter, ResetFilter, BlacklistWrapperFunction,
           ResetWrapperFunctionBlacklist, SetEnabled, SetSection, SetLibName, AddOpaqueType,
           AddConst, ParseDropped, ParseTy, ParseConst, ParseEnum, ParseStruct, ParseFn, Accepts,
           FinalisePanics, FreshOutputs, vars, Alive
  <2>3. finalised \in Nat /\ finalised' \in Nat /\ finalised <= finalised'
    BY FinalisedGrows
  <2>4. finalised <= 1
    BY <2>3
  <2> QED
    BY <2>1, <2>2, <2>4 DEF NativeNamesDefined, Files
<1> QED
  BY <1>1, <1>2, <1>3

(* The first files of a session, for every crate in which no struct shares its name      *)
(* with an alias and every script that leaves the types section on: when a wrapper       *)
(* converts with XNative, the types file beside it renders X with its native twin.        *)
THEOREM NativeNamesAreDefined ==
  ASSUME NoStructRenamed, "types" \notin Toggle
  PROVE  Spec => [](finalised <= 1 => NativeNamesDefined)
<1>1. Init => (finalised <= 1 => NativeNamesDefined)
  BY DEF Init, NativeNamesDefined, Files
<1>2. /\ "types" \in enabled /\ TypeOK /\ LedgerInv /\ NativeIsLeast /\ OriginInv
      /\ (finalised <= 1 => NativeNamesDefined) /\ [Next]_vars
      => (finalised <= 1 => NativeNamesDefined)'
  BY NativeNamesStep
<1> QED
  BY <1>1, <1>2, TypesStayEnabled, LedgerInvariant, NativeMarked, OriginInvariant, PTL DEF Spec

(* Resolving an alias makes no field of a struct dynamic or native. *)
LEMMA ResolvingKeepsLayout ==
  ASSUME NoStructAliased, TypeOK, OriginInv, NEW N,
         \A n \in N : \E s \in Crate : s.kind = "struct" /\ s.name = n,
         NEW t \in Type,
         IsDynamicArray(ResolveAlias(aliases, t)) \/ IsNativeType(N, ResolveAlias(aliases, t))
  PROVE  IsDynamicArray(t) \/ IsNativeType(N, t)
<1>1. CASE t.base \in DOMAIN aliases
  <2> DEFINE e == LookupAlias(aliases, t.base)
  <2>1. \E m \in DOMAIN aliases : e = aliases[m]
    BY <1>1 DEF LookupAlias
  <2>2. PICK a \in Crate : a.kind = "type" /\ a.types[1] = e
    BY <2>1 DEF OriginInv
  <2>3. e \in Type
    BY <1>1, LookupAliasType DEF TypeOK, GatheredTypeOK
  <2> DEFINE r == ResolveAlias(aliases, t)
  <2>4. r.wraps = t.wraps \o e.wraps /\ r.base = e.base
    BY <1>1 DEF ResolveAlias
  <2> HIDE DEF e, r
  <2>5. e.base \notin N /\ Outermost(e) # "dyn"
    BY <2>2 DEF NoStructAliased
  <2>6. ~IsNativeType(N, r)
    BY <2>4, <2>5 DEF IsNativeType
  <2>7. IsDynamicArray(r)
    BY <2>6 DEF r
  <2>8. t.wraps \in Seq(Wrap) /\ e.wraps \in Seq(Wrap)
    BY <2>3 DEF Type
  <2>9. CASE t.wraps = <<>>
    <3>1. r.wraps = e.wraps
      BY <2>4, <2>8, <2>9
    <3> QED
      BY <2>5, <2>7, <3>1 DEF IsDynamicArray, Outermost
  <2>10. CASE t.wraps # <<>>
    <3>1. ASSUME NEW u \in Seq(Wrap), NEW v \in Seq(Wrap), u # <<>>
          PROVE  u \o v # <<>> /\ (u \o v)[1] = u[1]
      <4>1. Len(u) >= 1 /\ Len(u \o v) = Len(u) + Len(v)
        BY <3>1
      <4> QED
        BY <4>1
    <3>2. t.wraps \o e.wraps # <<>> /\ (t.wraps \o e.wraps)[1] = t.wraps[1]
      BY <2>8, <2>10, <3>1
    <3>3. r.wraps # <<>> /\ r.wraps[1] = t.wraps[1]
      BY <2>4, <3>2
    <3> QED
      BY <2>7, <2>10, <3>3 DEF IsDynamicArray, Outermost
  <2> QED
    BY <2>9, <2>10
<1>2. CASE t.base \notin DOMAIN aliases
  <2> DEFINE r == ResolveAlias(aliases, t)
  <2>1. r.wraps = t.wraps /\ r.base = t.base
    BY <1>2 DEF ResolveAlias, Type
  <2> HIDE DEF r
  <2>2. IsDynamicArray(r) \/ IsNativeType(N, r)
    BY DEF r
  <2> QED
    BY <2>1, <2>2 DEF IsDynamicArray, IsNativeType, Outermost
<1> QED
  BY <1>1, <1>2

LEMMA LayoutStep ==
  ASSUME NoStructRenamed, NoStructAliased, TypeOK, LedgerInv, NativeIsLeast, OriginInv,
         finalised <= 1 => LayoutAgrees, [Next]_vars, finalised' <= 1
  PROVE  LayoutAgrees'
<1>1. CASE \E done : RenderSections(done)
  <2> PICK done : RenderSections(done)
    BY <1>1
  <2> DEFINE ss == ResolveAliases(aliases, structs)
             g == TypesFile(ss)
  <2>1. Alive /\ finalised = 0
    BY DEF RenderSections, TypeOK
  <2>2. /\ outputs = <<>> /\ Closed(nativeTypes, structs)
        /\ \A n \in nativeTypes : \E k \in DOMAIN structs : structs[k].name = n
    BY <2>1, FirstBuild
  <2>3. ASSUME NEW p \in DOMAIN outputs', outputs'[p].section = "types"
        PROVE  outputs'[p] = g
    BY <1>1, <2>2, <2>3, FilesOfSections DEF LedgerInv
  <2>4. g.native = nativeTypes
    BY DEF TypesFile, Rendering
  <2>5. /\ \A k \in DOMAIN structs :
             /\ g.decls[Len(enums) + k] = ss[k]
             /\ ss[k].name = structs[k].name
        /\ \A i \in DOMAIN g.decls : g.decls[i].kind = "struct" =>
             \E k \in DOMAIN structs : i = Len(enums) + k
    BY <2>1, StructsRendered
  <2>6. \A n \in nativeTypes : \E s \in Crate : s.kind = "struct" /\ s.name = n
    BY <2>1, <2>2 DEF OriginInv
  <2>7. ASSUME NEW k \in DOMAIN structs, NeedsNative(nativeTypes, ss[k])
        PROVE  ss[k].name \in nativeTypes
    <3>1. structs \in Seq(Snippet)
      BY DEF TypeOK, GatheredTypeOK
    <3>2. structs[k] \in Snippet
      BY <3>1
    <3>3. structs[k].types \in Seq(Type)
      BY <3>2 DEF Snippet
    <3>4. ss[k].types = [j \in DOMAIN structs[k].types |-> ResolveAlias(aliases, structs[k].types[j])]
      BY <3>1, ResolvedTypes
    <3> HIDE DEF ss
    <3>5. PICK j \in DOMAIN ss[k].types :
             IsDynamicArray(ss[k].types[j]) \/ IsNativeType(nativeTypes, ss[k].types[j])
      BY <2>7 DEF NeedsNative
    <3>6. PICK t : t = structs[k].types[j]
      OBVIOUS
    <3>7. j \in DOMAIN structs[k].types /\ t \in Type /\ ss[k].types[j] = ResolveAlias(aliases, t)
      BY <3>3, <3>4, <3>5, <3>6
    <3>8. IsDynamicArray(ResolveAlias(aliases, t)) \/ IsNativeType(nativeTypes, ResolveAlias(aliases, t))
      BY <3>5, <3>7
    <3>9. IsDynamicArray(t) \/ IsNativeType(nativeTypes, t)
      BY <2>6, <3>7, <3>8, ResolvingKeepsLayout
    <3>10. NeedsNative(nativeTypes, structs[k])
      BY <3>6, <3>7, <3>9 DEF NeedsNative
    <3> QED
      BY <2>2, <2>5, <3>10 DEF Closed
  <2> HIDE DEF ss, g
  <2>8. ASSUME NEW p \in DOMAIN outputs', outputs'[p].section = "types",
               NEW i \in DOMAIN outputs'[p].decls, outputs'[p].decls[i].kind = "struct",
               NeedsNative(outputs'[p].native, outputs'[p].decls[i])
        PROVE  outputs'[p].decls[i].name \in outputs'[p].native
    <3>1. outputs'[p] = g
      BY <2>3, <2>8
    <3>2. PICK k \in DOMAIN structs : i = Len(enums) + k
      BY <2>5, <2>8, <3>1
    <3>3. g.decls[i] = ss[k]
      BY <2>5, <3>2
    <3> QED
      BY <2>4, <2>7, <2>8, <3>1, <3>3
  <2> QED
    BY <2>8 DEF LayoutAgrees, Files
<1>2. CASE ~\E done : RenderSections(done)
  <2>1. outputs' = outputs \/ outputs' = <<>>
    BY <1>2, FilesUntouched
  <2>2. finalised \in Nat /\ finalised' \in Nat /\ finalised <= finalised'
    BY FinalisedGrows
  <2>3. finalised <= 1
    BY <2>2
  <2> QED
    BY <2>1, <2>3 DEF LayoutAgrees, Files
<1> QED
  BY <1>1, <1>2

(* What the comment of resolve_native_types asks for (src/src/csharp/mod.rs:263) holds   *)
(* of the first files of a session, in whatever order the items come: a struct that is    *)
(* rendered without a native twin has no dynamic array and no native field.  It is one    *)
(* direction, for crates in which no alias stands for a struct, native or not, or for a   *)
(* dynamic array, and no struct has the name of an alias.  With an alias of a native      *)
(* struct it does not hold: the marking looks at the fields before the aliases are        *)
(* resolved, the rendering after.                                                         *)
THEOREM LayoutIsAgreed ==
  ASSUME NoStructRenamed, NoStructAliased
  PROVE  Spec => [](finalised <= 1 => LayoutAgrees)
<1>1. Init => (finalised <= 1 => LayoutAgrees)
  BY DEF Init, LayoutAgrees, Files
<1>2. /\ TypeOK /\ LedgerInv /\ NativeIsLeast /\ OriginInv
      /\ (finalised <= 1 => LayoutAgrees) /\ [Next]_vars
      => (finalised <= 1 => LayoutAgrees)'
  BY LayoutStep
<1> QED
  BY <1>1, <1>2, LedgerInvariant, NativeMarked, OriginInvariant, PTL DEF Spec

-----------------------------------------------------------------------------
(* Aliases in what is rendered.                                                      *)

(* No alias leads back to itself: rustc refuses such a crate, and lookup_alias would *)
(* recurse on it for ever.                                                           *)
AliasesEnd ==
    \A S \in SUBSET Name : S # {} =>
        \E n \in S : \A a \in Crate : a.kind = "type" /\ a.name = n =>
            ~(a.types[1].wraps = <<>> /\ a.types[1].base \in S)
(* No alias stands for a function pointer that takes another alias. *)
NoAliasInside ==
    \A a, b \in Crate : a.kind = "type" /\ b.kind = "type" =>
        \A k \in DOMAIN a.types[1].args : a.types[1].args[k].base # b.name

(* lookup_alias stops at an alias of something else than an alias. *)
LEMMA LookupEnds ==
  ASSUME AliasesEnd, TypeOK, OriginInv, NEW n \in DOMAIN aliases
  PROVE  \E m \in DOMAIN aliases : LookupAlias(aliases, n) = aliases[m] /\ ~Plain(aliases, m)
<1> DEFINE C == Chain(aliases, n)
           ends == {m \in C \cap DOMAIN aliases : ~Plain(aliases, m)}
           S == C \cap DOMAIN aliases
<1>1. DOMAIN aliases \subseteq Name
  BY DEF TypeOK, GatheredTypeOK
<1>2. n \in C
  BY <1>1 DEF Chain
<1>3. ASSUME NEW m \in C, Plain(aliases, m) PROVE aliases[m].base \in C
  BY <1>1, <1>3 DEF Chain, Plain
<1>4. ends # {}
  <2> SUFFICES ASSUME ends = {} PROVE FALSE
    OBVIOUS
  <2> HIDE DEF C
  <2>1. \A m \in S : Plain(aliases, m)
    OBVIOUS
  <2>2. \A m \in S : aliases[m].wraps = <<>> /\ aliases[m].base \in S
    BY <1>3, <2>1 DEF Plain
  <2>3. S \in SUBSET Name /\ S # {}
    BY <1>1, <1>2
  <2> HIDE DEF S
  <2>4. PICK m \in S : \A a \in Crate : a.kind = "type" /\ a.name = m =>
                          ~(a.types[1].wraps = <<>> /\ a.types[1].base \in S)
    BY <2>3 DEF AliasesEnd
  <2>5. m \in DOMAIN aliases
    BY DEF S
  <2>6. PICK a \in Crate : a.kind = "type" /\ a.name = m /\ a.types[1] = aliases[m]
    BY <2>5 DEF OriginInv
  <2> QED
    BY <2>2, <2>4, <2>6
<1>5. (CHOOSE m \in ends : TRUE) \in ends
  BY <1>4
<1>6. LookupAlias(aliases, n) = aliases[CHOOSE m \in ends : TRUE]
  BY <1>4 DEF LookupAlias
<1> HIDE DEF C
<1> QED
  BY <1>5, <1>6

(* A type whose names are no aliases but hidden ones. *)
Free(t) ==
    /\ t.base \in DOMAIN aliases => HiddenAlias(t.base)
    /\ \A k \in DOMAIN t.args : t.args[k].base \in DOMAIN aliases => HiddenAlias(t.args[k].base)

LEMMA LookupFree ==
  ASSUME AliasesEnd, NoAliasInside, TypeOK, OriginInv, NEW n \in DOMAIN aliases
  PROVE  Free(LookupAlias(aliases, n))
<1>1. PICK m \in DOMAIN aliases : LookupAlias(aliases, n) = aliases[m] /\ ~Plain(aliases, m)
  BY LookupEnds
<1>2. aliases[m].base \in DOMAIN aliases => HiddenAlias(aliases[m].base)
  BY <1>1 DEF Plain, HiddenAlias
<1>3. PICK a \in Crate : a.kind = "type" /\ a.types[1] = aliases[m]
  BY DEF OriginInv
<1>4. ASSUME NEW k \in DOMAIN aliases[m].args PROVE aliases[m].args[k].base \notin DOMAIN aliases
  BY <1>3 DEF NoAliasInside, OriginInv
<1> QED
  BY <1>1, <1>2, <1>4 DEF Free

LEMMA ResolvedFree ==
  ASSUME AliasesEnd, NoAliasInside, TypeOK, OriginInv, NEW t \in Type
  PROVE  Free(ResolveAlias(aliases, t))
<1> DEFINE r == ResolveAlias(aliases, t)
<1>1. CASE t.base \in DOMAIN aliases
  <2> DEFINE e == LookupAlias(aliases, t.base)
  <2>1. r.base = e.base /\ r.args = e.args
    BY <1>1 DEF ResolveAlias
  <2>2. Free(e)
    BY <1>1, LookupFree
  <2> HIDE DEF r, e
  <2>3. Free(r)
    BY <2>1, <2>2 DEF Free
  <2> QED
    BY <2>3 DEF r
<1>2. CASE t.base \notin DOMAIN aliases
  <2>1. r.base = t.base /\ r.args = [i \in DOMAIN t.args |-> ResolveArg(aliases, t.args[i])]
    BY <1>2 DEF ResolveAlias, Type
  <2> HIDE DEF r
  <2>2. ASSUME NEW k \in DOMAIN t.args, r.args[k].base \in DOMAIN aliases
        PROVE  HiddenAlias(r.args[k].base)
    <3> DEFINE x == t.args[k]
               e == LookupAlias(aliases, x.base)
    <3>1. r.args[k] = ResolveArg(aliases, x)
      BY <2>1
    <3>2. CASE x.base \in DOMAIN aliases
      <4>1. r.args[k].base = e.base
        BY <3>1, <3>2 DEF ResolveArg
      <4>2. Free(e)
        BY <3>2, LookupFree
      <4> QED
        BY <2>2, <4>1, <4>2 DEF Free
    <3>3. CASE x.base \notin DOMAIN aliases
      BY <2>2, <3>1, <3>3 DEF ResolveArg
    <3> QED
      BY <3>2, <3>3
  <2>3. Free(r)
    BY <1>2, <2>1, <2>2 DEF Free
  <2> QED
    BY <2>3 DEF r
<1> QED
  BY <1>1, <1>2

(* What resolve_aliases leaves behind. *)
LEMMA ListFree ==
  ASSUME AliasesEnd, NoAliasInside, TypeOK, OriginInv, NEW list \in Seq(Snippet)
  PROVE  \A i \in DOMAIN ResolveAliases(aliases, list) :
           \A j \in DOMAIN ResolveAliases(aliases, list)[i].types :
             Free(ResolveAliases(aliases, list)[i].types[j])
<1> DEFINE new == ResolveAliases(aliases, list)
<1>1. ASSUME NEW i \in DOMAIN new, NEW j \in DOMAIN new[i].types PROVE Free(new[i].types[j])
  <2>1. i \in DOMAIN list
    BY ResolvedNames
  <2>2. new[i].types = [k \in DOMAIN list[i].types |-> ResolveAlias(aliases, list[i].types[k])]
    BY <2>1, ResolvedTypes
  <2> HIDE DEF new
  <2>3. list[i] \in Snippet
    BY <2>1
  <2>4. list[i].types \in Seq(Type)
    BY <2>3 DEF Snippet
  <2>5. j \in DOMAIN list[i].types /\ new[i].types[j] = ResolveAlias(aliases, list[i].types[j])
    BY <2>2
  <2>6. list[i].types[j] \in Type
    BY <2>4, <2>5
  <2>7. Free(ResolveAlias(aliases, list[i].types[j]))
    BY <2>6, ResolvedFree
  <2> QED
    BY <2>5, <2>7
<1> QED
  BY <1>1

LEMMA FilesFree ==
  ASSUME AliasesEnd, NoAliasInside, TypeOK, LedgerInv, OriginInv,
         NEW done, RenderSections(done),
         NEW p \in DOMAIN outputs', ~(p \in DOMAIN outputs /\ outputs'[p] = outputs[p])
  PROVE  AliasFree(outputs'[p])
<1> DEFINE cs == ResolveAliases(aliases, consts)
           ss == ResolveAliases(aliases, structs)
           fs == ResolveAliases(aliases, functions)
           listFree(list) == \A i \in DOMAIN list : \A j \in DOMAIN list[i].types :
                               Free(list[i].types[j])
<1>1. /\ consts \in Seq(Snippet) /\ structs \in Seq(Snippet) /\ functions \in Seq(Snippet)
      /\ enums \in Seq(Snippet) /\ ss \in Seq(Snippet)
  BY ResolveAliasesType DEF TypeOK, GatheredTypeOK
<1>2. listFree(cs) /\ listFree(ss) /\ listFree(fs)
  BY <1>1, ListFree
<1>3. /\ outputs'[p].section = "functions" => outputs'[p] = FunctionsFile(fs)
      /\ outputs'[p].section = "interface" => outputs'[p] = InterfaceFile(fs)
      /\ outputs'[p].section = "types" => outputs'[p] = TypesFile(ss)
      /\ outputs'[p].section = "consts" => outputs'[p] = ConstsFile(cs)
      /\ outputs'[p].section = "utils" => outputs'[p] = UtilsFile
      /\ outputs'[p].section \in Section
  BY FilesOfSections DEF LedgerInv
<1>4. /\ FunctionsFile(fs).decls = fs /\ InterfaceFile(fs).decls = <<>>
      /\ ConstsFile(cs).decls = cs /\ TypesFile(ss).decls = enums \o ss
      /\ UtilsFile.decls = <<>>
  BY Sections
<1> HIDE DEF cs, ss, fs
<1>5. listFree(enums \o ss)
  <2>1. ASSUME NEW i \in DOMAIN (enums \o ss)
        PROVE  \/ i \in DOMAIN enums /\ (enums \o ss)[i] = enums[i]
               \/ \E k \in DOMAIN ss : (enums \o ss)[i] = ss[k]
    <3>1. /\ Len(enums) \in Nat /\ DOMAIN enums = 1..Len(enums)
          /\ Len(ss) \in Nat /\ DOMAIN ss = 1..Len(ss) /\ i \in 1..(Len(enums) + Len(ss))
      BY <1>1
    <3>2. CASE i \in DOMAIN enums
      BY <1>1, <3>2
    <3>3. CASE i \notin DOMAIN enums
      <4>1. i - Len(enums) \in DOMAIN ss /\ (enums \o ss)[i] = ss[i - Len(enums)]
        BY <1>1, <3>1, <3>3
      <4> QED
        BY <4>1
    <3> QED
      BY <3>2, <3>3
  <2>2. \A i \in DOMAIN enums : enums[i].types = <<>>
    BY DEF OriginInv
  <2> QED
    BY <1>2, <2>1, <2>2
<1>6. listFree(<<>>)
  OBVIOUS
<1>7. listFree(outputs'[p].decls)
  <2> HIDE DEF listFree
  <2> QED
    BY <1>2, <1>3, <1>4, <1>5, <1>6 DEF Section
<1> QED
  BY <1>7 DEF AliasFree, Free

(* Wherever the aliases stand in the source and however often the session is finalised,  *)
(* finalise_output renders no alias name, except one behind a pointer or an array in the *)
(* definition of another alias; and it rewrites no file otherwise.                       *)
THEOREM AliasesAreResolved ==
  ASSUME AliasesEnd, NoAliasInside
  PROVE  Spec => NoAliasRendered
<1>1. /\ TypeOK /\ LedgerInv /\ OriginInv /\ [Next]_vars
      => [\A p \in DOMAIN outputs' :
            p \notin DOMAIN outputs \/ outputs'[p] # outputs[p] => AliasFree(outputs'[p])]_vars
  <2> SUFFICES ASSUME TypeOK, LedgerInv, OriginInv, [Next]_vars,
                      NEW p \in DOMAIN outputs',
                      ~(p \in DOMAIN outputs /\ outputs'[p] = outputs[p])
               PROVE  AliasFree(outputs'[p])
    OBVIOUS
  <2>1. CASE \E done : RenderSections(done)
    BY <2>1, FilesFree
  <2>2. CASE ~\E done : RenderSections(done)
    BY <2>2, FilesUntouched
  <2> QED
    BY <2>1, <2>2
<1> QED
  BY <1>1, LedgerInvariant, OriginInvariant, PTL DEF Spec, NoAliasRendered
-----------------------------------------------------------------------------
(* resolve_native_types: the loop, and that it computes what the step takes.       *)

(* The marking is well typed, forced, and clean behind the scan position. *)
THEOREM MarkingInv == MarkSpec => []MarkInv
<1>1. MarkInit => MarkInv
  <2> SUFFICES ASSUME MarkInit PROVE MarkInv
    OBVIOUS
  <2>1. PICK in \in MarkInputs : given = in.given /\ native = in.native /\ start = in.native
    BY DEF MarkInit
  <2>2. MarkTypeOK
    BY <2>1, MarkInputsAssumption DEF MarkInit, MarkTypeOK
  <2> QED
    BY <2>1, <2>2 DEF MarkInit, MarkInv, Forced, PassClean
<1>2. MarkInv /\ [MarkNext]_markVars => MarkInv'
  <2> SUFFICES ASSUME MarkInv, [MarkNext]_markVars PROVE MarkInv'
    OBVIOUS
  <2> USE DEF MarkInv
  <2>1. CASE StartPass
    <3>1. MarkTypeOK' /\ (start \subseteq native)'
      <4>1. run' \in BOOLEAN /\ pc' \in {"test", "scan", "done"}
        BY <2>1 DEF StartPass
      <4> QED
        BY <2>1, <4>1 DEF StartPass, MarkTypeOK
    <3>2. Forced'
      BY <2>1 DEF StartPass, Forced, ClosedMarking, ClosedUnder
    <3>3. PassClean'
      BY <2>1 DEF StartPass, PassClean
    <3> QED
      BY <3>1, <3>2, <3>3
  <2>2. CASE Return
    <3>1. MarkTypeOK' /\ (start \subseteq native)'
      BY <2>2 DEF Return, MarkTypeOK
    <3>2. Forced'
      BY <2>2 DEF Return, Forced, ClosedMarking, ClosedUnder
    <3>3. PassClean'
      BY <2>2 DEF Return, PassClean, ClosedMarking, ClosedUnder
    <3> QED
      BY <3>1, <3>2, <3>3
  <2>3. CASE Mark
    <3>1. at \in DOMAIN given /\ given[at] \in MarkStruct
      BY <2>3 DEF Mark, MarkTypeOK
    <3>2. MarkTypeOK'
      BY <2>3, <3>1 DEF Mark, MarkTypeOK, MarkStruct
    <3>3. Forced'
      <4> SUFFICES ASSUME NEW M \in SUBSET StructName, start \subseteq M, ClosedMarking(M)
                   PROVE  given[at].name \in M
        BY <2>3 DEF Mark, Forced, ClosedMarking, ClosedUnder
      <4>1. native \subseteq M
        BY DEF Forced
      <4>2. given[at].dynamic \/ given[at].refs \cap M # {}
        BY <2>3, <4>1 DEF Mark, MustMark
      <4> QED
        BY <3>1, <4>2 DEF ClosedMarking, ClosedUnder
    <3> QED
      BY <2>3, <3>2, <3>3 DEF Mark, PassClean
  <2>4. CASE Skip
    <3>1. at \in DOMAIN given /\ ClosedUnder(native, given[at])
      BY <2>4 DEF Skip, MarkTypeOK, MustMark, ClosedUnder
    <3>2. MarkTypeOK'
      BY <2>4 DEF Skip, MarkTypeOK
    <3>3. Forced'
      BY <2>4 DEF Skip, Forced, ClosedMarking, ClosedUnder
    <3>4. PassClean'
      <4> SUFFICES ASSUME ~run, NEW k \in 1..Len(given), k < at + 1
                   PROVE  ClosedUnder(native, given[k])
        BY <2>4 DEF Skip, PassClean, ClosedUnder, MarkTypeOK
      <4>1. k < at \/ k = at
        BY DEF MarkTypeOK
      <4> QED
        BY <2>4, <3>1, <4>1 DEF Skip, PassClean
    <3> QED
      BY <2>4, <3>2, <3>3, <3>4 DEF Skip
  <2>5. CASE EndPass
    <3>1. MarkTypeOK' /\ Forced'
      BY <2>5 DEF EndPass, MarkTypeOK, Forced, ClosedMarking, ClosedUnder
    <3>2. ~run => ClosedMarking(native)
      BY <2>5 DEF EndPass, PassClean, ClosedMarking, MarkTypeOK
    <3>3. PassClean'
      BY <2>5, <3>2 DEF EndPass, PassClean, ClosedMarking, ClosedUnder
    <3> QED
      BY <2>5, <3>1, <3>3 DEF EndPass
  <2>6. CASE UNCHANGED markVars
    <3>1. MarkTypeOK' /\ (start \subseteq native)'
      BY <2>6 DEF markVars, MarkTypeOK
    <3>2. Forced'
      BY <2>6 DEF markVars, Forced, ClosedMarking, ClosedUnder
    <3>3. PassClean'
      BY <2>6 DEF markVars, PassClean, ClosedMarking, ClosedUnder
    <3> QED
      BY <3>1, <3>2, <3>3
  <2> QED
    BY <2>1, <2>2, <2>3, <2>4, <2>5, <2>6 DEF MarkNext
<1> QED
  BY <1>1, <1>2, PTL DEF MarkSpec

(* For every crate: when resolve_native_types returns, exactly the structs that *)
(* must have a native twin are marked.                                           *)
THEOREM MarkingCorrect == MarkSpec => []ResultIsLeast
<1>1. MarkInv => ResultIsLeast
  <2> SUFFICES ASSUME MarkInv, pc = "done" PROVE native = Least
    BY DEF ResultIsLeast
  <2>1. native \in SUBSET StructName /\ start \subseteq native /\ ClosedMarking(native)
    BY DEF MarkInv, MarkTypeOK, PassClean
  <2>2. native \subseteq Least
    BY <2>1 DEF MarkInv, Forced, Least
  <2>3. Least \subseteq native
    BY <2>1 DEF Least
  <2> QED
    BY <2>2, <2>3
<1> QED
  BY <1>1, MarkingInv, PTL


(* What the loop looks at in a list of structs.                                    *)
Twin(s) ==
    [name |-> s.name,
     dynamic |-> \E j \in DOMAIN s.types : IsDynamicArray(s.types[j]),
     refs |-> {n \in Name : \E j \in DOMAIN s.types : IsNativeType({n}, s.types[j])}]
Twins(ss) == [k \in DOMAIN ss |-> Twin(ss[k])]

LEMMA TwinNeeds ==
  ASSUME NEW M \in SUBSET Name, NEW s
  PROVE  NeedsNative(M, s) <=> Twin(s).dynamic \/ Twin(s).refs \cap M # {}
<1>1. NeedsNative(M, s) <=>
        \/ \E j \in DOMAIN s.types : IsDynamicArray(s.types[j])
        \/ \E j \in DOMAIN s.types : IsNativeType(M, s.types[j])
  BY DEF NeedsNative
<1>2. ASSUME NEW j \in DOMAIN s.types
      PROVE  IsNativeType(M, s.types[j])
               <=> \E n \in Name : n \in M /\ IsNativeType({n}, s.types[j])
  BY DEF IsNativeType
<1>3. Twin(s).dynamic <=> \E j \in DOMAIN s.types : IsDynamicArray(s.types[j])
  BY DEF Twin
<1>4. \A n : n \in Twin(s).refs <=>
        n \in Name /\ \E j \in DOMAIN s.types : IsNativeType({n}, s.types[j])
  BY DEF Twin
<1> QED
  BY <1>1, <1>2, <1>3, <1>4

(* CSharpGen!ParseStruct takes the marking in one step: when the structs the loop  *)
(* is given are those of the session, the loop returns that marking.               *)
THEOREM LoopResolvesNative ==
  ASSUME StructName = Name, NEW ss \in Seq(Snippet)
  PROVE  MarkSpec => [](pc = "done" /\ given = Twins(ss) => native = ResolveNative(start, ss))
<1>1. ASSUME ResultIsLeast, pc = "done", given = Twins(ss)
      PROVE  native = ResolveNative(start, ss)
  <2>1. ASSUME NEW M \in SUBSET Name PROVE ClosedMarking(M) <=> Closed(M, ss)
    <3>1. DOMAIN given = DOMAIN ss /\ \A k \in DOMAIN ss : given[k] = Twin(ss[k])
      BY <1>1 DEF Twins
    <3>2. ASSUME NEW k \in DOMAIN ss
          PROVE  ClosedUnder(M, given[k]) <=> (NeedsNative(M, ss[k]) => ss[k].name \in M)
      <4>1. given[k] = Twin(ss[k]) /\ Twin(ss[k]).name = ss[k].name
        BY <3>1 DEF Twin
      <4>2. NeedsNative(M, ss[k]) <=> Twin(ss[k]).dynamic \/ Twin(ss[k]).refs \cap M # {}
        BY TwinNeeds
      <4> QED
        BY <4>1, <4>2 DEF ClosedUnder
    <3> QED
      BY <3>1, <3>2 DEF ClosedMarking, Closed
  <2>2. Least = {n \in Name : \A M \in SUBSET Name : start \subseteq M /\ ClosedMarking(M) => n \in M}
    BY <1>1 DEF Least
  <2> QED
    BY <1>1, <2>1, <2>2 DEF ResultIsLeast, ResolveNative
<1>2. ResultIsLeast => (pc = "done" /\ given = Twins(ss) => native = ResolveNative(start, ss))
  BY <1>1
<1> QED
  BY <1>2, MarkingCorrect, PTL
================================================================================
