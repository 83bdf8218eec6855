--------------------------- MODULE MessageRendering ---------------------------
(***************************************************************************)
(* One message, from its translations to what a call shows: the contract   *)
(* inferred from them (packages/compiler/src/parser.ts), its compilation   *)
(* (compile.ts), the emitted call site (emit.ts) and its rendering by each *)
(* backend (packages/runtime/src: runtime.ts, precompiled.ts, rich.ts,     *)
(* backend.ts, representations.ts).                                        *)
(*                                                                         *)
(* Abstractions: a translation is the syntax tree of its ICU message; date *)
(* stands for date and time; a formatted number, date or value is a token  *)
(* that names what was formatted, how and in which locale.  Escaping, the  *)
(* limits on the size of values and the identity of builds are left out.   *)
(***************************************************************************)
EXTENDS Integers, FiniteSets, Sequences, SequencesExt, TLC

VARIABLES
  written,   \* the translations of a message and the formatters of its catalog
  compiled,  \* the runtime message, its call site's arguments, or "refused"
  rendered   \* a call and what came of it

messaged == <<written, compiled, rendered>>

Locales == <<"en", "ja">>  \* the first one is the source locale
LocaleSet == ToSet(Locales)

----------------------------------------------------------------------------
(* ICU messages                                                            *)

LiteralText(text) == [is |-> "literal", text |-> text]
Hash == [is |-> "hash"]    \* a # as it is written
Pound == [is |-> "pound"]  \* a # that shows the number of its plural
Argument(name) == [is |-> "argument", name |-> name]
Number(name, style) == [is |-> "number", name |-> name, style |-> style]
Date(name, style) == [is |-> "date", name |-> name, style |-> style]

SelectOn(name, options) == [is |-> "select", name |-> name, options |-> options]

Plural(name, type, offset, options) ==
  [is |-> "plural", name |-> name, pluralType |-> type, offset |-> offset,
   options |-> options]

Tag(name, children) == [is |-> "tag", name |-> name, children |-> children]

Branching == {"select", "plural"}
Structural == Branching \cup {"tag"}
Styled == {"number", "date"}
NamedNodes == Branching \cup Styled \cup {"argument"}

\* Intl.PluralRules: the categories of a locale, and that of a number.
Categories(locale, type) ==
  IF locale = "ja" THEN {"other"}
  ELSE IF type = "ordinal" THEN {"one", "two", "few", "other"}
  ELSE {"one", "other"}

Category(locale, type, number) ==
  LET size == IF number < 0 THEN -number ELSE number IN
  IF size = 1 /\ "one" \in Categories(locale, type) THEN "one"
  ELSE IF size = 2 /\ "two" \in Categories(locale, type) THEN "two" ELSE "other"

----------------------------------------------------------------------------
(* Values and their schemas                                                *)

\* A JSON value is a pair of its type and its content.
Str(text) == <<"string", text>>
Num(number) == <<"number", number>>
List(items) == <<"array", items>>
Obj(fields) == <<"object", fields>>
Undefined == <<"undefined">>
Day == Str("2020")  \* the string that is a date

Schema(type) == [type |-> type]

ObjectSchema(properties, required) ==
  [type |-> "object", properties |-> properties, required |-> required]

RECURSIVE Validated(_, _)
Validated(schema, value) ==
  CASE schema.type = "scalar" -> value[1] \in {"string", "number"}
    [] schema.type \in {"string", "number"} -> value[1] = schema.type
    [] schema.type = "date-time" -> value = Day
    [] schema.type = "enum" -> value \in schema.values
    [] schema.type = "array" ->
         value[1] = "array"
           /\ \A i \in DOMAIN value[2] : Validated(schema.items, value[2][i])
    [] schema.type = "object" ->
         /\ value[1] = "object"
         /\ schema.required \subseteq DOMAIN value[2]
         /\ \A key \in DOMAIN value[2] :
              key \in DOMAIN schema.properties
                /\ Validated(schema.properties[key], value[2][key])

----------------------------------------------------------------------------
(* The parser                                                              *)

\* In a plural, and in the tags of a plural, a # shows its number.
RECURSIVE Converted(_, _)
Converted(elements, counted) ==
  [i \in DOMAIN elements |->
    LET e == elements[i] IN
    CASE e.is = "hash" -> IF counted THEN Pound ELSE LiteralText("#")
      [] e.is \in Branching ->
           [e EXCEPT !.options =
             [key \in DOMAIN @ |-> Converted(@[key], e.is = "plural")]]
      [] e.is = "tag" -> [e EXCEPT !.children = Converted(@, counted)]
      [] OTHER -> e]

\* All nodes of a tree, those of every branch and tag included.
RECURSIVE Walk(_)
Walk(nodes) ==
  FlattenSeq([i \in DOMAIN nodes |->
    LET node == nodes[i] IN
    <<node>> \o
      CASE node.is \in Branching ->
             LET keys == SetToSeq(DOMAIN node.options) IN
             FlattenSeq([k \in DOMAIN keys |-> Walk(node.options[keys[k]])])
        [] node.is = "tag" -> Walk(node.children)
        [] OTHER -> << >>])

Nodes(nodes) == ToSet(Walk(nodes))
NodesNamed(nodes) == {node \in Nodes(nodes) : node.is \in NamedNodes}
ArgumentNames(nodes) == {node.name : node \in NodesNamed(nodes)}
TagNames(nodes) == {node.name : node \in {n \in Nodes(nodes) : n.is = "tag"}}

CustomStyles == {"custom:f", "custom:"}
FormatterIds(style) == IF style = "custom:f" THEN {"f"} ELSE {}

NormalStyle(node) ==
  node.style \in {"default"} \cup CustomStyles
                 \cup IF node.is = "number" THEN {"percent", "currency/EUR"}
                      ELSE {"long"}

InferredRole(node) ==
  CASE node.is = "argument" -> "scalar"
    [] node.is \in {"plural", "number"} -> "number"
    [] node.is = "select" -> "string"
    [] node.is = "date" -> "date-time"

Roles(nodes, name) ==
  {InferredRole(node) : node \in {n \in NodesNamed(nodes) : n.name = name}}

\* A scalar may be anything else as well; no two other roles are compatible.
CompatibleRoles(roles) == Cardinality(roles \ {"scalar"}) <= 1

MergedRole(roles) ==
  IF roles = {"scalar"} THEN "scalar" ELSE CHOOSE r \in roles : r # "scalar"

InferredContract(nodes) ==
  [kind |-> IF TagNames(nodes) = {} THEN "text" ELSE "rich",
   tags |-> TagNames(nodes),
   formatterIds |-> UNION {FormatterIds(node.style) :
                             node \in {n \in Nodes(nodes) : n.is \in Styled}},
   properties |-> [name \in ArgumentNames(nodes) |->
                    Schema(MergedRole(Roles(nodes, name)))]]

\* roleForSchema: what a property may be formatted as.
SchemaRole(properties, name) ==
  IF properties[name].type = "date-time" THEN "date" ELSE properties[name].type

SyntaxRole(node, properties) ==
  CASE node.is = "argument" -> <<"argument", SchemaRole(properties, node.name)>>
    [] node.is = "plural" -> <<"plural", node.pluralType>>
    [] node.is = "select" -> <<"select", "">>
    [] OTHER -> <<node.is, node.style>>

Signature(nodes, properties) ==
  [name \in ArgumentNames(nodes) |->
    {SyntaxRole(node, properties) :
       node \in {n \in NodesNamed(nodes) : n.name = name}}]

RequiredRole(node) ==
  CASE node.is \in {"number", "plural"} -> "number"
    [] node.is = "date" -> "date"
    [] node.is = "select" -> "string"

ExactKeys == {"=0", "=1"}

\* parseMessage throws for none of the nodes.
Parses(nodes, properties, locale) ==
  /\ ArgumentNames(nodes) = DOMAIN properties
  /\ \A node \in NodesNamed(nodes) :
       /\ node.is # "argument" =>
            SchemaRole(properties, node.name) = RequiredRole(node)
       /\ node.is \in Styled => NormalStyle(node)
       /\ node.is \in Branching => "other" \in DOMAIN node.options
       /\ node.is = "plural" =>
            DOMAIN node.options \ ExactKeys
              \subseteq Categories(locale, node.pluralType) \cup {"other"}

\* One entry for each occurrence of an exact selector.
ExactPluralBranches(nodes) ==
  LET walk == Walk(nodes)
      plurals == {i \in DOMAIN walk : walk[i].is = "plural"}
      at(name, key) ==
        {i \in plurals : walk[i].name = name /\ key \in DOMAIN walk[i].options}
  IN [branch \in ArgumentNames(nodes) \X ExactKeys |->
       Cardinality(at(branch[1], branch[2]))]

\* The greatest number of times that a tag appears: one branch of a plural is
\* shown; all the branches of a select are added up.
RECURSIVE TagCount(_, _)
TagCount(nodes, tag) ==
  MapThenSumSet(LAMBDA i :
    LET node == nodes[i]
        branch(key) == TagCount(node.options[key], tag)
    IN CASE node.is = "tag" -> (IF node.name = tag THEN 1 ELSE 0)
                                 + TagCount(node.children, tag)
         [] node.is = "plural" ->
              Max({branch(key) : key \in DOMAIN node.options})
         [] node.is = "select" -> MapThenSumSet(branch, DOMAIN node.options)
         [] OTHER -> 0,
    DOMAIN nodes)

\* What has to agree between two locales.
Parity(nodes, others, properties) ==
  /\ Signature(nodes, properties) = Signature(others, properties)
  /\ ExactPluralBranches(nodes) = ExactPluralBranches(others)
  /\ \A tag \in TagNames(nodes) \cup TagNames(others) :
       TagCount(nodes, tag) = TagCount(others, tag)

\* inferMessageContract: the contract of the first locale, if no locale refuses.
Inferable(byLocale) ==
  LET baseline == InferredContract(byLocale[Locales[1]]) IN
  \A locale \in LocaleSet :
    LET nodes == byLocale[locale] IN
    /\ \A node \in Nodes(nodes) : node.is \in Styled => NormalStyle(node)
    /\ \A name \in ArgumentNames(nodes) : CompatibleRoles(Roles(nodes, name))
    /\ InferredContract(nodes) = baseline
    /\ Parses(nodes, baseline.properties, locale)
    /\ Parity(nodes, byLocale[Locales[1]], baseline.properties)

----------------------------------------------------------------------------
(* The compiler                                                            *)

\* normalizedFormatterIds: throws, or returns the formatters that are used.
UsedFormatters(byLocale) ==
  {node \in UNION {Nodes(byLocale[locale]) : locale \in LocaleSet} :
     node.is \in Styled}

FormattersNormal(byLocale, declared, versions) ==
  /\ \A node \in UsedFormatters(byLocale) :
       /\ node.style \in CustomStyles => FormatterIds(node.style) # {}
       /\ node.style \notin versions
  /\ declared = UNION {FormatterIds(node.style) :
                         node \in UsedFormatters(byLocale)}

\* assertParsedParity and the checks of the tags.
Compilable(byLocale, contract) ==
  \A locale \in LocaleSet :
    /\ Parses(byLocale[locale], contract.properties, locale)
    /\ Parity(byLocale[locale], byLocale[Locales[1]], contract.properties)
    /\ contract.tags = {tag \in TagNames(byLocale[locale]) :
                           TagCount(byLocale[locale], tag) > 0}
    /\ contract.kind # "rich" => contract.tags = {}

RuntimeMessage(contract, byLocale) ==
  [kind |-> contract.kind, tags |-> contract.tags,
   formatterIds |-> contract.formatterIds,
   argumentSchema |->
     ObjectSchema(contract.properties, DOMAIN contract.properties),
   resultSchema |-> Schema("string"), localeNodes |-> byLocale]

ValueMessage(schema, values) ==
  [kind |-> "value", tags |-> {}, formatterIds |-> {},
   argumentSchema |-> ObjectSchema(<< >>, {}), resultSchema |-> schema,
   localeValues |-> values]

RefusedMessage == [kind |-> "refused"]

CompiledText(translations, versions) ==
  LET byLocale ==
        [locale \in LocaleSet |-> Converted(translations[locale], FALSE)]
      contract == InferredContract(byLocale[Locales[1]])
  IN IF /\ DOMAIN translations = LocaleSet
        /\ Inferable(byLocale)
        /\ Compilable(byLocale, contract)
        /\ FormattersNormal(byLocale, contract.formatterIds, versions)
        /\ contract.formatterIds = versions
     THEN RuntimeMessage(contract, byLocale) ELSE RefusedMessage

CompiledValue(translations, schema, versions) ==
  IF /\ DOMAIN translations = LocaleSet
     /\ \A locale \in LocaleSet : Validated(schema, translations[locale])
     /\ versions = {}
  THEN ValueMessage(schema, translations) ELSE RefusedMessage

----------------------------------------------------------------------------
(* The emitted call site                                                   *)

\* emitTextNodes: a sum of calls; a branch is a function of its own.
RECURSIVE EmitTextNodes(_)
EmitTextNodes(nodes) ==
  [is |-> "sum",
   parts |-> [i \in DOMAIN nodes |->
     IF nodes[i].is \in Branching
     THEN [nodes[i] EXCEPT !.options =
            [key \in DOMAIN @ |-> EmitTextNodes(@[key])]]
     ELSE nodes[i]]]

\* Maximal runs of plain nodes, and the nodes between them (flushPlain).
Runs(nodes) ==
  FoldLeft(LAMBDA gathered, node :
    IF node.is \notin Structural /\ gathered # << >>
         /\ Last(Last(gathered)).is \notin Structural
    THEN [gathered EXCEPT ![Len(gathered)] = Append(@, node)]
    ELSE Append(gathered, <<node>>),
    << >>, nodes)

\* emitRichNodes: a list of sums, components and the lists of a branch.
RECURSIVE EmitRichNodes(_)
EmitRichNodes(nodes) ==
  [is |-> "list",
   parts |-> [i \in DOMAIN Runs(nodes) |->
     LET run == Runs(nodes)[i]
         node == Head(run)
     IN CASE node.is = "tag" ->
               [node EXCEPT !.children = EmitRichNodes(@)]
          [] node.is \in Branching ->
               [node EXCEPT !.options =
                 [key \in DOMAIN @ |-> EmitRichNodes(@[key])]]
          [] OTHER -> EmitTextNodes(run)]]

\* emitPrecompiledRenderer: a function of each locale.
EmitPrecompiledRenderer(message) ==
  CASE message.kind = "value" -> message.localeValues
    [] message.kind = "rich" ->
         [locale \in LocaleSet |-> EmitRichNodes(message.localeNodes[locale])]
    [] OTHER ->
         [locale \in LocaleSet |-> EmitTextNodes(message.localeNodes[locale])]

EmitsPrecompiledRenderer(capability, message) ==
  capability = "precompiled-v1" \/ message.kind # "text"

\* An argument is <<value>>, or << >> when it is undefined.
Given(value, isGiven) == IF isGiven THEN <<value>> ELSE << >>

\* callSiteArguments: the arguments after the identity of the message.
CallSiteArguments(message, capability) ==
  LET schema == message.argumentSchema
      properties == Given(schema.properties, DOMAIN schema.properties # {})
      required == Given(schema.required, schema.required # {})
      formatters == Given(message.formatterIds, message.formatterIds # {})
      result == Given(message.resultSchema,
                      message.resultSchema # Schema("string"))
      renderer == IF EmitsPrecompiledRenderer(capability, message)
                  THEN <<EmitPrecompiledRenderer(message)>> ELSE << >>
  IN CASE message.kind = "value" ->
            <<renderer, <<message.resultSchema>>, properties, required,
              formatters>>
       [] message.kind = "rich" ->
            <<renderer, <<message.tags>>, properties, required, formatters,
              result>>
       [] OTHER ->
            <<properties, required, formatters, renderer, result>>

\* Mutant: no undefined arguments between the others either.
EmittedCompacted(message, capability) ==
  SelectSeq(CallSiteArguments(message, capability),
            LAMBDA argument : argument # << >>)

\* emitCallSiteArgumentList: no undefined arguments at the end.
EmittedArguments(message, capability) ==
  LET values == CallSiteArguments(message, capability)
      end == Max({0} \cup {i \in DOMAIN values : values[i] # << >>})
  IN SubSeq(values, 1, end)

----------------------------------------------------------------------------
(* The call site                                                           *)

\* The i-th argument, or what the factory takes in its place.
ArgumentOr(arguments, i, default) ==
  IF i \in DOMAIN arguments /\ arguments[i] # << >>
  THEN arguments[i][1] ELSE default

\* createMiraiIntlCallSites: the runtime message that is embedded in a
\* descriptor has no translations.
CallSite(kind, arguments) ==
  LET at == CASE kind = "text" -> [schema |-> 1, renderer |-> 4, result |-> 5]
              [] kind = "rich" -> [schema |-> 3, renderer |-> 1, result |-> 6]
              [] kind = "value" -> [schema |-> 3, renderer |-> 1, result |-> 2]
  IN [renderer |-> IF at.renderer \in DOMAIN arguments
                   THEN arguments[at.renderer] ELSE << >>,
      message |->
        [kind |-> kind,
         argumentSchema |->
           ObjectSchema(ArgumentOr(arguments, at.schema, << >>),
                        ArgumentOr(arguments, at.schema + 1, {})),
         formatterIds |-> ArgumentOr(arguments, at.schema + 2, {}),
         resultSchema |-> ArgumentOr(arguments, at.result, Schema("string")),
         tags |-> IF kind = "rich" THEN ArgumentOr(arguments, 2, {}) ELSE {}]]

\* A descriptor of no call site: its message is that of the runtime's catalog.
PlainDescriptor(message) == [renderer |-> << >>, message |-> message]

----------------------------------------------------------------------------
(* Rendering: a text is the sequence of its tokens                         *)

Broken == <<"broken">>  \* what throws; nothing that has it in it is returned
Ok(tokens) == \A i \in DOMAIN tokens : tokens[i] # Broken

ValueOf(state, name) ==
  IF name \in DOMAIN state.values THEN state.values[name] ELSE Undefined

FormatNumber(number, style, state) ==
  IF style \in CustomStyles /\ ~FormatterIds(style) \subseteq state.formatters
  THEN Broken ELSE <<"number", number, state.locale, style>>

FormatDate(value, style, state) ==
  IF value # Day
       \/ (style \in CustomStyles
             /\ ~FormatterIds(style) \subseteq state.formatters)
  THEN Broken ELSE <<"date", value, state.locale, style>>

\* The nodes without branches, by renderNodes and by the emitted calls.
RenderLeaf(node, state) ==
  CASE node.is = "literal" -> <<"text", node.text>>
    [] node.is = "pound" ->
         IF state.plural = << >> THEN Broken
         ELSE <<"number", state.plural[1], state.locale, "default">>
    [] OTHER ->
         LET value == ValueOf(state, node.name) IN
         IF value[1] \notin {"string", "number"} THEN Broken
         ELSE CASE node.is = "argument" -> <<"value", value>>
           [] node.is = "date" -> FormatDate(value, node.style, state)
           [] node.is = "number" ->
                IF value[1] # "number" THEN Broken
                ELSE FormatNumber(value[2], node.style, state)

\* String(value)
TextOf(value) == IF value[1] = "number" THEN ToString(value[2]) ELSE value[2]

\* The branch that is taken, or "" when the code throws.
Branch(node, state) ==
  LET value == ValueOf(state, node.name)
      first(keys) ==
        LET own == SelectSeq(keys, LAMBDA key : key \in DOMAIN node.options)
        IN IF own = << >> THEN "" ELSE Head(own)
  IN CASE node.is = "select" ->
            IF value[1] \in {"string", "number"}
            THEN first(<<TextOf(value), "other">>) ELSE ""
       [] node.is = "plural" ->
            IF value[1] = "number"
            THEN first(<<"=" \o ToString(value[2]),
                         Category(state.locale, node.pluralType,
                                  value[2] - node.offset),
                         "other">>)
            ELSE ""

\* Mutant: the offset is for the choice of the branch alone.
InsideWithoutOffset(node, state) ==
  IF node.is = "plural"
  THEN [state EXCEPT !.plural = <<ValueOf(state, node.name)[2]>>]
  ELSE state

\* In the branch of a plural, # shows its value less the offset.
Inside(node, state) ==
  IF node.is = "plural"
  THEN [state EXCEPT !.plural = <<ValueOf(state, node.name)[2] - node.offset>>]
  ELSE state

\* renderNodes of precompiled.ts
RECURSIVE RenderNodes(_, _)
RenderNodes(nodes, state) ==
  FlattenSeq([i \in DOMAIN nodes |->
    LET node == nodes[i] IN
    IF node.is \notin Branching THEN <<RenderLeaf(node, state)>>
    ELSE IF Branch(node, state) = "" THEN <<Broken>>
    ELSE RenderNodes(node.options[Branch(node, state)], Inside(node, state))])

\* A rich value is the sequence of its texts and elements.
Text(tokens) == [is |-> "text", tokens |-> tokens]
RichElement(name, children) ==
  [is |-> "element", name |-> name, children |-> children]

\* renderRichNodes of rich.ts
RECURSIVE RenderRichNodes(_, _)
RenderRichNodes(nodes, state) ==
  FlattenSeq([i \in DOMAIN Runs(nodes) |->
    LET run == Runs(nodes)[i]
        node == Head(run)
    IN CASE node.is = "tag" ->
              IF node.name \notin state.components THEN <<Text(<<Broken>>)>>
              ELSE <<RichElement(node.name,
                                 RenderRichNodes(node.children, state))>>
         [] node.is \in Branching ->
              IF Branch(node, state) = "" THEN <<Text(<<Broken>>)>>
              ELSE RenderRichNodes(node.options[Branch(node, state)],
                                   Inside(node, state))
         [] OTHER -> <<Text(RenderNodes(run, state))>>])

\* The emitted sum, run: renderPrecompiledArgument ... renderPrecompiledPlural.
RECURSIVE RunText(_, _)
RunText(sum, state) ==
  FlattenSeq([i \in DOMAIN sum.parts |->
    LET bit == sum.parts[i] IN
    IF bit.is \notin Branching THEN <<RenderLeaf(bit, state)>>
    ELSE IF Branch(bit, state) = "" THEN <<Broken>>
    ELSE RunText(bit.options[Branch(bit, state)], Inside(bit, state))])

\* The emitted list, run: renderPrecompiledComponent ...
RECURSIVE RunRich(_, _)
RunRich(list, state) ==
  FlattenSeq([i \in DOMAIN list.parts |->
    LET bit == list.parts[i] IN
    CASE bit.is = "sum" -> <<Text(RunText(bit, state))>>
      [] bit.is = "tag" ->
           IF bit.name \notin state.components THEN <<Text(<<Broken>>)>>
           ELSE <<RichElement(bit.name, RunRich(bit.children, state))>>
      [] OTHER ->
           IF Branch(bit, state) = "" THEN <<Text(<<Broken>>)>>
           ELSE RunRich(bit.options[Branch(bit, state)],
                        Inside(bit, state))])

\* The tokens of a rich value, with the ends of its elements.
RECURSIVE Flat(_)
Flat(pieces) ==
  FlattenSeq([i \in DOMAIN pieces |->
    LET piece == pieces[i] IN
    IF piece.is = "text" THEN piece.tokens
    ELSE <<<<"open", piece.name>>>> \o Flat(piece.children)
           \o <<<<"close", piece.name>>>>])

----------------------------------------------------------------------------
(* i18next with its ICU format, as the bridge calls it                     *)

\* The first of the keys that an ICU select or plural has.
Preferred(keys, options) ==
  keys[Min({i \in DOMAIN keys : keys[i] \in DOMAIN options})]

\* What a translation says in its locale, for values of the right types.
RECURSIVE Meaning(_, _, _, _)
Meaning(elements, locale, values, counted) ==
  FlattenSeq([i \in DOMAIN elements |->
    LET e == elements[i]
        value == values[e.name]
    IN CASE e.is = "literal" -> <<<<"text", e.text>>>>
         [] e.is = "hash" ->
              IF counted = << >> THEN <<<<"text", "#">>>>
              ELSE <<<<"number", counted[1], locale, "default">>>>
         [] e.is = "argument" -> <<<<"value", value>>>>
         [] e.is = "number" -> <<<<"number", value[2], locale, e.style>>>>
         [] e.is = "date" -> <<<<"date", value, locale, e.style>>>>
         [] e.is = "tag" ->
              <<<<"open", e.name>>>>
                \o Meaning(e.children, locale, values, counted)
                \o <<<<"close", e.name>>>>
         [] e.is = "select" ->
              Meaning(e.options[Preferred(<<value[2], "other">>, e.options)],
                      locale, values, << >>)
         [] e.is = "plural" ->
              LET number == value[2] - e.offset
                  keys == <<"=" \o ToString(value[2]),
                            Category(locale, e.pluralType, number), "other">>
              IN Meaning(e.options[Preferred(keys, e.options)], locale, values,
                         <<number>>)])

\* Styles of the application are unknown to it and it formats no date that is
\* a string: the message is shown as it is written, or its handler throws.
IcuFormatted(elements, locale, values, datesConverted) ==
  LET said == Meaning(elements, locale, values, << >>) IN
  IF ~datesConverted /\ \E i \in DOMAIN said : said[i][1] = "date"
  THEN <<Broken>>
  ELSE [i \in DOMAIN said |->
         IF said[i][1] \in Styled
              /\ said[i][4] \in CustomStyles \cup {"currency/EUR"}
         THEN [said[i] EXCEPT ![4] = "default"] ELSE said[i]]

----------------------------------------------------------------------------
(* The runtime                                                             *)

Shown(value) == [as |-> "shown", value |-> value]
NotShown(why) == [as |-> why]
MissingResource == NotShown("missing")

TextShown(tokens) == IF Ok(tokens) THEN Shown(tokens) ELSE NotShown("thrown")

RichShown(pieces) ==
  IF Ok(Flat(pieces)) THEN Shown(pieces) ELSE NotShown("thrown")

State(request, locale) ==
  [locale |-> locale, values |-> request.values, plural |-> << >>,
   components |-> request.components, formatters |-> request.formatters]

\* createPrecompiledBackend
PrecompiledBackend(request) ==
  LET message == request.message
      state == State(request, request.locale)
      emitted == request.renderer # << >>
  IN CASE message.kind = "value" ->
            IF emitted THEN Shown(request.renderer[1][request.locale])
            ELSE IF "localeValues" \in DOMAIN message
            THEN Shown(message.localeValues[request.locale])
            ELSE NotShown("thrown")
       [] message.kind = "rich" ->
            IF emitted
            THEN RichShown(RunRich(request.renderer[1][request.locale], state))
            ELSE IF "localeNodes" \in DOMAIN message
            THEN RichShown(
                   RenderRichNodes(message.localeNodes[request.locale], state))
            ELSE NotShown("thrown")
       [] OTHER ->
            IF emitted
            THEN TextShown(RunText(request.renderer[1][request.locale], state))
            ELSE IF "localeNodes" \in DOMAIN message
            THEN TextShown(
                   RenderNodes(message.localeNodes[request.locale], state))
            ELSE NotShown("thrown")

\* The first of the candidates whose resources i18next has.
ResourceLocale(locale, loaded) ==
  SelectSeq(<<locale, Locales[1]>>, LAMBDA candidate : candidate \in loaded)

\* dateArgumentNames: the names that the nodes of the message give as dates.
DateArgumentNames(message, locale) ==
  IF "localeNodes" \notin DOMAIN message THEN {}
  ELSE {node.name : node \in
          {n \in Nodes(message.localeNodes[locale]) : n.is = "date"}}

\* The properties that the values have are those of the message.
Typed(request) ==
  Validated(request.message.argumentSchema, Obj(request.values))

\* createTFunctionBridgeBackend
BridgeBackend(request) ==
  LET message == request.message
      found == ResourceLocale(request.locale, request.loaded)
      dates == DateArgumentNames(message, request.locale)
  IN IF message.kind = "value"
     THEN IF "localeValues" \in DOMAIN message
          THEN Shown(message.localeValues[request.locale]) ELSE MissingResource
     ELSE IF found = << >> THEN MissingResource
     ELSE IF message.kind = "rich"
     THEN LET state == State(request, Head(found)) IN
          IF request.renderer # << >>
          THEN RichShown(RunRich(request.renderer[1][Head(found)], state))
          ELSE IF "localeNodes" \in DOMAIN message
          THEN RichShown(
                 RenderRichNodes(message.localeNodes[Head(found)], state))
          ELSE MissingResource
     ELSE IF \E name \in dates \cap DOMAIN request.values :
               request.values[name][1] = "string" /\ request.values[name] # Day
     THEN NotShown("thrown")
     ELSE IF ~Typed(request) THEN NotShown("unspecified")
     ELSE TextShown(IcuFormatted(written.translations[Head(found)], Head(found),
                                 request.values, dates # {}))

\* #validatedValues: the values of the request, or Undefined if it refuses.
ValidatedValues(message, input, strict) ==
  LET accepts == DOMAIN message.argumentSchema.properties # {}
      given == IF input = Undefined THEN Obj(<< >>) ELSE input
  IN CASE ~accepts /\ input # Undefined /\ strict -> Undefined
       [] ~accepts /\ (input = Undefined \/ ~strict) -> Obj(<< >>)
       [] accepts /\ ~strict -> given
       [] accepts /\ strict ->
            IF Validated(message.argumentSchema, given)
            THEN given ELSE Undefined

\* #validatedRichInput and #validatedComponents
RichInputRefused(message, call) ==
  message.kind = "rich" /\
    \/ call.components # message.tags
    \/ call.values # Undefined /\ DOMAIN message.argumentSchema.properties = {}

\* t, rich and value, through #renderValidated and #recoverMissingResource:
\* how a request for a message is answered.
Answered(call, request) ==
  IF call.capability = "precompiled-v1" /\ request.renderer = << >>
  THEN NotShown("thrown")
  ELSE IF call.backend = "precompiled-v1"
  THEN PrecompiledBackend(request) ELSE BridgeBackend(request)

Recovered(call, outcome) ==
  IF outcome = MissingResource
  THEN NotShown(IF call.strict THEN "thrown" ELSE "fallback") ELSE outcome

RenderedOf(call, message, renderer) ==
  LET values == ValidatedValues(message, call.values, call.strict) IN
  IF RichInputRefused(message, call) \/ values = Undefined
  THEN NotShown("refused")
  ELSE Recovered(call,
         Answered(call,
           [message |-> message, renderer |-> renderer,
            values |-> values[2], components |-> call.components,
            locale |-> call.locale, loaded |-> call.loaded,
            formatters |-> written.versions]))

RenderedAt(call, site) ==
  RenderedOf(call, IF call.registered THEN compiled ELSE site.message,
             site.renderer)

Rendered(call) ==
  RenderedAt(call,
    IF call.site = "emitted"
    THEN CallSite(compiled.kind, EmittedArguments(compiled, call.capability))
    ELSE PlainDescriptor(compiled))

----------------------------------------------------------------------------
(* The messages that are written, and the calls                            *)

Nested ==
  {<< >>, <<LiteralText("x"), Hash>>, <<Argument("n")>>, <<Tag("b", <<Hash>>)>>,
   <<SelectOn("s", [other |-> <<Hash>>])>>,
   <<Plural("n", "cardinal", 1, [other |-> <<Hash>>]), Hash>>}

Plurals ==
  {Plural("n", type, offset, [other |-> nested]) :
     type \in {"cardinal", "ordinal"}, offset \in {0, 1}, nested \in Nested}
  \cup {Plural("n", type, offset,
               ("one" :> <<LiteralText("y")>>) @@ (key :> <<Hash>>)
                 @@ ("other" :> nested)) :
          type \in {"cardinal", "ordinal"}, offset \in {0, 1},
          key \in {"=0", "=1", "two"}, nested \in Nested}
  \cup {Plural("n", "cardinal", 0, [one |-> <<Hash>>])}

Leaves ==
  {LiteralText("x"), Hash, Argument("n"), Argument("s"),
   Number("n", "default"), Number("n", "percent"), Number("n", "custom:f"),
   Number("n", "custom:"), Number("n", "none"), Date("d", "long"),
   Date("d", "custom:f")}

Parts ==
  Leaves \cup Plurals
  \cup {SelectOn("s", [a |-> <<Hash>>, other |-> nested]) : nested \in Nested}
  \cup {SelectOn("n", [other |-> << >>]), SelectOn("s", [a |-> << >>])}
  \cup {Tag("b", nested) : nested \in Nested}

Starts == {LiteralText("x"), Hash, Argument("n"), Tag("b", <<Hash>>)}

Texts == {<<bit>> : bit \in Parts}
           \cup {<<start, bit>> : start \in Starts, bit \in Parts}

\* A translation in a language whose plurals have no other categories.
RECURSIVE InOther(_)
InOther(elements) ==
  [i \in DOMAIN elements |->
    IF elements[i].is # "plural" THEN elements[i]
    ELSE [elements[i] EXCEPT !.options =
           [key \in DOMAIN @ \ {"one", "two"} |-> @[key]]]]

Pair(text, other) == [en |-> text, ja |-> other]

\* Faithful translations, reordered ones, and any two short messages.
Translations ==
  {Pair(text, InOther(text)) : text \in Texts}
  \cup {Pair(text, Reverse(InOther(text))) : text \in Texts}
  \cup {Pair(<<one>>, <<other>>) : one \in Leaves, other \in Parts}
  \cup {[en |-> <<Hash>>]}

TextSources ==
  [kind : {"text"}, translations : Translations, versions : {{}, {"f"}}]
  \cup [kind : {"text"}, versions : {{"percent"}},
        translations : {Pair(<<leaf>>, <<leaf>>) : leaf \in Leaves}]

JsonValues == {Str("x"), Num(1), List(<< >>), List(<<Str("x"), Num(1)>>),
               Obj([p |-> Str("x")]), Obj(<< >>)}

ResultSchemas ==
  {Schema("string"), [type |-> "enum", values |-> {Num(1)}],
   [type |-> "array", items |-> Schema("scalar")],
   ObjectSchema([p |-> Schema("string")], {}),
   ObjectSchema([p |-> Schema("string")], {"p"})}

ValueSources ==
  [kind : {"value"}, translations : [LocaleSet -> JsonValues],
   schema : ResultSchemas, versions : {{}, {"f"}}]

\* Values of the names that messages have, of their types and of others.
Candidates == [n |-> {Num(0), Num(1), Num(2), Str("a")},
               s |-> {Str("a"), Str("z"), Num(1)}, d |-> {Day, Str("a")}]

CallValues(names) ==
  {Undefined, Obj([z |-> Num(0)])}
  \cup {Obj(fields) : fields \in
          {f \in [names -> UNION {Candidates[name] : name \in names}] :
             \A name \in names : f[name] \in Candidates[name]}}

Wirings ==
  {w \in [site : {"emitted", "plain"}, registered : BOOLEAN,
          capability : {"portable-ir-v1", "precompiled-v1"},
          backend : {"precompiled-v1", "tfunction-bridge-v1"}] :
     /\ w.capability = "precompiled-v1" => w.backend = "precompiled-v1"
     /\ w.site = "plain" => w.registered}

Unwritten == [kind |-> "unwritten"]
NotCompiled == [kind |-> "none"]
NotCalled == [outcome |-> NotShown("nothing")]

MessageInit ==
  /\ written = Unwritten
  /\ compiled = NotCompiled
  /\ rendered = NotCalled

WriteMessage ==
  /\ written = Unwritten
  /\ written' \in TextSources \cup ValueSources
  /\ UNCHANGED <<compiled, rendered>>

Compile ==
  /\ written # Unwritten
  /\ compiled = NotCompiled
  /\ compiled' =
       IF written.kind = "value"
       THEN CompiledValue(written.translations, written.schema,
                          written.versions)
       ELSE CompiledText(written.translations, written.versions)
  /\ UNCHANGED <<written, rendered>>

CallMessage ==
  /\ compiled.kind \in {"text", "rich", "value"}
  /\ rendered = NotCalled
  /\ \E wiring \in Wirings, strict \in BOOLEAN, locale \in LocaleSet,
        loaded \in {LocaleSet, {Locales[1]}, {}},
        values \in CallValues(DOMAIN compiled.argumentSchema.properties),
        components \in {compiled.tags, {}} :
       /\ wiring.backend = "precompiled-v1" => loaded = LocaleSet
       /\ LET call == wiring @@
                [strict |-> strict, locale |-> locale, loaded |-> loaded,
                 values |-> values, components |-> components]
          IN rendered' = call @@ [outcome |-> Rendered(call)]
  /\ UNCHANGED <<written, compiled>>

MessageNext == WriteMessage \/ Compile \/ CallMessage

MessageSpec == MessageInit /\ [][MessageNext]_messaged

----------------------------------------------------------------------------
(* Properties                                                              *)

\* The values are those that the types of the message's call allow.
WellCalled ==
  LET properties == compiled.argumentSchema.properties
      given == IF rendered.values = Undefined THEN << >>
               ELSE rendered.values[2]
  IN /\ rendered.components = compiled.tags
     /\ properties = << >> => rendered.values = Undefined
     /\ DOMAIN given = DOMAIN properties
     /\ \A name \in DOMAIN given :
          CASE properties[name].type = "number" -> given[name][1] = "number"
            [] properties[name].type = "string" -> given[name][1] = "string"
            [] properties[name].type = "date-time" -> given[name] = Day
            [] OTHER -> given[name][1] \in {"string", "number"}

\* The locale whose resources are shown.
LocaleShown ==
  IF rendered.backend = "tfunction-bridge-v1" /\ compiled.kind # "value"
  THEN IF rendered.locale \in rendered.loaded THEN rendered.locale
       ELSE Locales[1]
  ELSE rendered.locale

Intended ==
  IF compiled.kind = "value" THEN written.translations[LocaleShown]
  ELSE Meaning(written.translations[LocaleShown], LocaleShown,
               IF rendered.values = Undefined THEN << >>
               ELSE rendered.values[2], << >>)

IntendedHas(is, styles) ==
  compiled.kind = "text" /\
    \E i \in DOMAIN Intended :
      Intended[i][1] \in is /\ Intended[i][4] \in styles

\* A text through i18next is formatted there, with none of the application's
\* formatters and no currencies.
FormattedByI18next ==
  /\ rendered.backend = "tfunction-bridge-v1"
  /\ IntendedHas(Styled, CustomStyles \cup {"currency/EUR"})

\* What a message shows, through whichever backend, call site and
\* representation, is what its translation says in that one language: the
\* branch that is chosen, its numbers and the nesting of its elements
\* (compile.ts:228, emit.ts:193-306, precompiled.ts:166, rich.ts:33).
RenderedAsWritten ==
  rendered.outcome.as = "shown" /\ WellCalled /\ ~FormattedByI18next =>
    LET value == rendered.outcome.value IN
    Intended = IF compiled.kind = "rich" THEN Flat(value) ELSE value

\* The wirings of catalog, call site, backend and resources for which nothing is
\* claimed.  The emitted renderers belong to their own backend; a catalog of no
\* backend has none of them for its texts; a date reaches i18next as a string
\* when the message has no translations.  BridgeReadsEmittedValues is about the
\* structured values that the bridge reads from the message alone.
NotRenderable ==
  LET bridged == rendered.backend = "tfunction-bridge-v1"
      emittedOnly == rendered.site = "emitted" /\ ~rendered.registered
  IN \/ rendered.site = "plain" /\ rendered.capability = "precompiled-v1"
     \/ /\ emittedOnly /\ compiled.kind = "text"
        /\ ~bridged /\ rendered.capability = "portable-ir-v1"
     \/ emittedOnly /\ bridged /\ compiled.kind = "value"
     \/ emittedOnly /\ bridged /\ IntendedHas({"date"}, {"long", "custom:f"})
     \/ /\ bridged /\ compiled.kind # "value"
        /\ rendered.loaded = {}

\* A message that compiles renders for all the values its contract allows, in
\* every locale; with other values a strict runtime refuses the call before
\* any of it is rendered (parser.ts:358, runtime.ts:779-998).
CompiledMeansRenderable ==
  "site" \in DOMAIN rendered =>
    IF WellCalled THEN NotRenderable \/ rendered.outcome.as = "shown"
    ELSE rendered.strict => rendered.outcome.as = "refused"

\* A renderer capability other than precompiled-v1 "reads the emitted renderer
\* for rich (and structured value) messages" (emit.ts:416-421): a structured
\* value is shown through the bridge from any call site that carries one.
BridgeReadsEmittedValues ==
  /\ "site" \in DOMAIN rendered
  /\ compiled.kind = "value" /\ rendered.site = "emitted"
  /\ rendered.backend = "tfunction-bridge-v1" /\ rendered.loaded = LocaleSet
  /\ WellCalled
  => rendered.outcome.as = "shown"

=============================================================================
