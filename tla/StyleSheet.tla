------------------------------ MODULE StyleSheet ------------------------------
(***************************************************************************)
(* StyleConfig: the style sheet, a list of rules for each kind of style,   *)
(* is turned into tables of what is left to be decided for a type at a     *)
(* magnification, and into the types that have to be loaded at all.        *)
(*                                                                         *)
(* A rule has its kind and its slot, the types and the magnifications it   *)
(* is for, its criteria, which are the features that an object must have   *)
(* and the scale, and the attributes it sets.  Of an attribute 0 is what   *)
(* makes nothing visible: no colour, no width, no name, no symbol.         *)
(***************************************************************************)
EXTENDS Integers, Sequences, SequencesExt, FiniteSets

CONSTANTS StyledTypes,          (* the types, numbers                          *)
          NodeTypes, WayTypes, AreaTypes, (* those that nodes, ways, areas have *)
          NoMaxLevel,           (* numeric_limits<size_t>::max()               *)
          NoSize                (* no size condition                           *)

ASSUME StyleSheetAssumption ==
  /\ StyledTypes \subseteq Nat \ {0}
  /\ UNION {NodeTypes, WayTypes, AreaTypes} \subseteq StyledTypes
  /\ NoMaxLevel \in Nat

NodeKinds == {"nodeText", "nodeIcon"}
WayKinds  == {"wayLine", "wayPathText", "wayPathSymbol", "wayPathShield"}
AreaKinds == {"areaFill", "areaText", "areaIcon"}

------------------------------------------------------------------------------
(* Styles                                                                   *)

\* What a style without attributes is: texts are black, all else is missing.
LineDefaults   == [displayWidth |-> 0, width |-> 0, lineColor |-> 0]
FillDefaults   == [fillColor |-> 0, pattern |-> 0, borderWidth |-> 0, borderColor |-> 0]
TextDefaults   == [label |-> 0, textColor |-> 1]
ShieldDefaults == [label |-> 0, textColor |-> 1, shieldSpace |-> 3]
IconDefaults   == [symbol |-> 0, iconName |-> 0]
SymbolDefaults == [symbol |-> 0, symbolSpace |-> 15]

Defaults(kind) ==
  CASE kind = "wayLine"                                 -> LineDefaults
    [] kind = "areaFill"                                -> FillDefaults
    [] kind \in {"nodeText", "areaText", "wayPathText"} -> TextDefaults
    [] kind = "wayPathShield"                           -> ShieldDefaults
    [] kind \in {"nodeIcon", "areaIcon"}                -> IconDefaults
    [] kind = "wayPathSymbol"                           -> SymbolDefaults

LineVisible(s)   == (s.displayWidth > 0 \/ s.width > 0) /\ s.lineColor > 0
FillVisible(s)   == s.fillColor > 0 \/ (s.borderWidth > 0 /\ s.borderColor > 0) \/ s.pattern > 0
TextVisible(s)   == s.label > 0 /\ s.textColor > 0
IconVisible(s)   == s.iconName > 0 \/ s.symbol > 0
SymbolVisible(s) == s.symbol > 0

IsVisible(kind, style) ==
  CASE kind = "wayLine"                       -> LineVisible(style)
    [] kind = "areaFill"                      -> FillVisible(style)
    [] kind \in {"nodeText", "areaText", "wayPathText", "wayPathShield"} -> TextVisible(style)
    [] kind \in {"nodeIcon", "areaIcon"}      -> IconVisible(style)
    [] kind = "wayPathSymbol"                 -> SymbolVisible(style)

\* CopyAttributes(): those that are set.
CopyAttributes(style, other, attributes) ==
  [a \in DOMAIN style |-> IF a \in attributes THEN other[a] ELSE style[a]]

\* The style of a rule, and of it what the rule sets.
StyleOf(rule) == CopyAttributes(Defaults(rule.kind), rule.attributes, DOMAIN rule.attributes)

------------------------------------------------------------------------------
(* Criteria                                                                 *)

\* SizeCondition::Evaluate(): both the bounds from below, but only one of those from
\* above, and a bound that is not set counts as kept.
SizeFits(size, scale) ==
  /\ size.minMM # NoMaxLevel => scale.mm >= size.minMM
  /\ size.minPx # NoMaxLevel => scale.px >= size.minPx
  /\ \/ size.maxMM # NoMaxLevel => scale.mm < size.maxMM
     \/ size.maxPx # NoMaxLevel => scale.px < size.maxPx

\* Bridge, tunnel and oneway are asked for, or do not matter.
Matches(criteria, features, scale) ==
  /\ criteria.features \subseteq features
  /\ criteria.size # NoSize => SizeFits(criteria.size, scale)

------------------------------------------------------------------------------
(* Postprocess()                                                            *)

RulesOf(sheet, kinds) == SelectSeq(sheet.rules, LAMBDA r : r.kind \in kinds)

\* GetMaxLevelInConditionals()
MaxLevelInRules(rules) ==
  Max({0} \union {rules[i].min + 1 : i \in DOMAIN rules}
          \union {rules[i].max + 1 : i \in {j \in DOMAIN rules : rules[j].max # NoMaxLevel}})

AppliesAt(rule, type, level) ==
  type \in rule.types /\ rule.min <= level /\ (rule.max # NoMaxLevel => level <= rule.max)

\* Mutant: all of the same criteria become one, in the place of the first.
MergeAll(kind, selectors) ==
  LET add(merged, selector) ==
        LET same == {i \in DOMAIN merged : merged[i].criteria = selector.criteria}
        IN  IF same = {} THEN Append(merged, selector)
            ELSE [merged EXCEPT ![Min(same)] =
                    [@ EXCEPT !.attributes = @ \union selector.attributes,
                              !.style = CopyAttributes(@, selector.style, selector.attributes)]]
  IN  FoldLeft(add, <<>>, selectors)

\* SortInConditionals(): two in a row with the same criteria become one.
MergeSelectors(kind, selectors) ==
  LET add(merged, selector) ==
        IF merged = <<>> \/ Last(merged).criteria # selector.criteria THEN Append(merged, selector)
        ELSE [merged EXCEPT ![Len(merged)] =
                [@ EXCEPT !.attributes = @ \union selector.attributes,
                          !.style = CopyAttributes(@, selector.style, selector.attributes)]]
  IN  FoldLeft(add, <<>>, selectors)

\* The selectors of a type at a level; a single invisible one says nothing.
Selectors(rules, kind, slot, type, level) ==
  LET applying == SelectSeq(rules, LAMBDA r : /\ r.kind = kind /\ r.slot = slot
                                              /\ AppliesAt(r, type, level))
      merged   == MergeSelectors(kind, [i \in DOMAIN applying |->
                    [criteria   |-> applying[i].criteria,
                     attributes |-> DOMAIN applying[i].attributes,
                     style      |-> StyleOf(applying[i])]])
  IN  IF Len(merged) = 1 /\ ~IsVisible(kind, merged[1].style) THEN <<>> ELSE merged

\* The tables have a level more than there are magnifications in the rules.
SelectorTable(rules, maxLevel) ==
  [k \in {<<rules[i].kind, rules[i].slot>> : i \in DOMAIN rules} |->
     [type \in StyledTypes |->
        [level \in 0..maxLevel |-> Selectors(rules, k[1], k[2], type, level)]]]

\* CalculateUsedTypes(): those with a rule at the level; a type that no node or no
\* area can have counts as type 0.
UsedTypes(rules, kinds, canBe, level) ==
  {IF t \in canBe THEN t ELSE 0 :
     t \in {u \in StyledTypes : \E i \in DOMAIN rules : rules[i].kind \in kinds
                                                        /\ AppliesAt(rules[i], u, level)}}

PostprocessNodes(sheet) ==
  LET rules    == RulesOf(sheet, NodeKinds)
      maxLevel == MaxLevelInRules(rules)
  IN  [selectors |-> SelectorTable(rules, maxLevel),
       types |-> [l \in 1..maxLevel |-> UsedTypes(rules, NodeKinds, NodeTypes, l - 1)]]

\* The types of ways go by their priority, each for itself: those with selectors at the
\* level.  A type behind the last that has a priority is not there at all.
PostprocessWays(sheet) ==
  LET rules    == RulesOf(sheet, WayKinds)
      maxLevel == MaxLevelInRules(rules)
      table    == SelectorTable(rules, maxLevel)
      known    == {t \in WayTypes : \E u \in DOMAIN sheet.wayPrio : t <= u}
      prio(t)  == IF t \in DOMAIN sheet.wayPrio THEN sheet.wayPrio[t] ELSE NoMaxLevel
      order    == SetToSortSeq(known, LAMBDA t, u : prio(t) < prio(u) \/ (prio(t) = prio(u) /\ t < u))
      used(level) == SelectSeq(order, LAMBDA t : \E k \in DOMAIN table : table[k][t][level] # <<>>)
  IN  [selectors |-> table,
       types |-> [l \in 1..maxLevel |-> LET types == used(l - 1)
                                        IN  [i \in DOMAIN types |-> {types[i]}]]]

PostprocessAreas(sheet) ==
  LET rules    == RulesOf(sheet, AreaKinds)
      maxLevel == MaxLevelInRules(rules)
  IN  [selectors |-> SelectorTable(rules, maxLevel),
       types |-> [l \in 1..maxLevel |-> UsedTypes(rules, AreaKinds, AreaTypes, l - 1)]]

Postprocess(sheet) ==
  [nodes |-> PostprocessNodes(sheet), ways |-> PostprocessWays(sheet),
   areas |-> PostprocessAreas(sheet)]

------------------------------------------------------------------------------
(* Lookups                                                                  *)

\* Get...TypesWithMaxMag(): beyond the last level, what that one has.
TypesAt(tables, level, none) ==
  IF tables.types = <<>> THEN none ELSE tables.types[Min({level + 1, Len(tables.types)})]

GetNodeTypesWithMaxMag(style, level)      == TypesAt(style.nodes, level, {})
GetWayTypesByPrioWithMaxMag(style, level) == TypesAt(style.ways, level, <<>>)
GetAreaTypesWithMaxMag(style, level)      == TypesAt(style.areas, level, {})

\* GetFeatureStyle(): the first selector that matches, and on top of it the others.
\* Only what has been put together is looked at whether it can be seen.
GetFeatureStyle(kind, selectors, level, features, scale) ==
  LET here     == selectors[Min({level, Max(DOMAIN selectors)})]
      matching == SelectSeq(here, LAMBDA s : Matches(s.criteria, features, scale))
      composed == FoldLeft(LAMBDA style, s : CopyAttributes(style, s.style, s.attributes),
                           matching[1].style, Tail(matching))
  IN  CASE matching = <<>> -> <<>>
        [] Len(matching) = 1 -> <<matching[1].style>>
        [] Len(matching) > 1 -> IF IsVisible(kind, composed) THEN <<composed>> ELSE <<>>

\* The styles of an object: of every kind and slot.
StylesOf(tables, type, level, features, scale) ==
  {[kind |-> k[1], slot |-> k[2],
    style |-> GetFeatureStyle(k[1], tables.selectors[k][type], level, features, scale)] :
      k \in DOMAIN tables.selectors}

==============================================================================
