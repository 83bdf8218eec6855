---------------------------- MODULE SourceLowering ----------------------------
(***************************************************************************)
(* The lowering of one source (packages/compiler/src/transform.ts:         *)
(* requiresMiraiIntlAnalysis, analyzeSource, transformSource) and what the *)
(* lowered source does when it runs (packages/runtime/src/translations.ts).*)
(*                                                                         *)
(* Calls such as t("key") are replaced by calls with the descriptor of the *)
(* message, which is found from the declarations that lead to t.  Keys that*)
(* are known as a finite set only are looked up in a registry of their     *)
(* namespace when the source runs, and so are those of parsers and forms.  *)
(*                                                                         *)
(* Abstractions: a path is the sequence of its dotted names; a variable is *)
(* its symbol, so that no name shadows another; import aliases, helpers and*)
(* other new names are fresh; values given to messages are left out.       *)
(***************************************************************************)
EXTENDS Naturals, FiniteSets, Sequences, SequencesExt

VARIABLES
  program,   \* the source: declarations, a late assignment, uses, its reader
  lowering,  \* how far its analysis is, and what it has found
  shown      \* what each use did when the lowered source ran

lowered == <<program, lowering, shown>>

----------------------------------------------------------------------------
(* The catalog                                                             *)

Message(path, kind, args) == [path |-> path, kind |-> kind, args |-> args]

Messages ==
  {Message(<<"a", "k">>, "text", FALSE), Message(<<"a", "n">>, "text", TRUE),
   Message(<<"a", "r">>, "rich", FALSE),
   Message(<<"a", "a", "k">>, "text", FALSE),
   Message(<<"a", "error", "form", "e">>, "text", FALSE),
   Message(<<"b", "k">>, "text", FALSE),
   Message(<<"error", "error", "form", "e">>, "text", FALSE)}

Root == << >>
FormPart == <<"error", "form">>

ArgumentFree(m) == m.kind = "text" /\ ~m.args
Paths(messages) == {m.path : m \in messages}
MessagesAt(path) == {m \in Messages : m.path = path}

MessagesUnder(namespace) ==
  {m \in Messages : namespace # Root /\ IsStrictPrefix(namespace, m.path)}

FormMessages(namespace) ==
  IF namespace = Root THEN {}
  ELSE {m \in MessagesUnder(namespace \o FormPart) : ArgumentFree(m)}

----------------------------------------------------------------------------
(* Sources                                                                 *)

Computed == <<"?">>  \* a namespace that is no literal
Omitted == <<"0">>   \* no namespace is given

\* useTranslations(namespace), getServerTranslations(namespace)
Factory(kind, namespace) ==
  [is |-> "factory", kind |-> kind, namespace |-> namespace]
Client(namespace) == Factory("client", namespace)
Server(namespace) == Factory("server", namespace)

\* An import of all names: intl.useTranslations(namespace).
Through(namespace) == [is |-> "through", namespace |-> namespace]

\* A hook of the application that returns useTranslations("a").
Wrapper(name) == [is |-> "wrapper", name |-> name]

CreateKey(namespace) == [is |-> "keys", namespace |-> namespace]
Name(n) == [is |-> "name", name |-> n]
Member(e) == [is |-> "t", of |-> e]        \* e.t
Element(e) == [is |-> "element", of |-> e]  \* e["t"]
Choice(one, other) == [is |-> "choice", one |-> one, other |-> other]
All(each) == [is |-> "all", each |-> each]  \* await Promise.all([...])
Other == [is |-> "other"]
NoInit == [is |-> "nothing"]                \* no initializer

\* A component's property t, of a type that is known to be a translator's.
Parameter(typed) == [is |-> "parameter", typed |-> typed]
Instance == [is |-> "i18next"]              \* i18n.t, getActiveInstance().t

Id(n) == [is |-> "id", name |-> n]
Pick(n) == [is |-> "pick", name |-> n]     \* { t: n }
PickNested == [is |-> "nested"]            \* { t: { ... } }
Row(each) == [is |-> "row", each |-> each] \* [ ... ]

Declare(kind, pattern, init) ==
  [kind |-> kind, pattern |-> pattern, init |-> init]

Plainly(key) == [key |-> key, deferred |-> FALSE]
Deferred(path) == [key |-> path, deferred |-> TRUE]

Literal(key) == [is |-> "literal", keys |-> {Plainly(key)}]
Finite(keys) == [is |-> "finite", keys |-> keys]
Wide == [is |-> "wide", keys |-> {}]

\* A use: a call of a translator or of a deferred key, of a parser, of the
\* form factories, or another reference to a name.
Use(is, op, callee, keys, namespace) ==
  [is |-> is, op |-> op, callee |-> callee, keys |-> keys,
   namespace |-> namespace]
Call(op, callee, keys) == Use("call", op, callee, keys, Root)
KeyCall(callee, keys) == Use("key", "key", callee, keys, Root)
Parse(namespace, keys) ==
  Use("parse", "parse", Other, Finite(keys), namespace)
FormErrors(namespace, translator, keys) ==
  Use("formError", "formError", translator, Finite(keys), namespace)
FormSchema(namespace, keys) ==
  Use("formSchema", "formSchema", Other, keys, namespace)
Refer(how, n) == Use("refer", how, Name(n), Wide, Root)

----------------------------------------------------------------------------
(* requiresMiraiIntlAnalysis: what syntax alone tells                      *)

PartsOf(e) ==
  {e} \cup (IF e.is \in {"t", "element"} THEN {e.of} ELSE {})
      \cup (IF e.is = "choice" THEN {e.one, e.other} ELSE {})
      \cup (IF e.is = "all" THEN Range(e.each) ELSE {})

Expressions(source) ==
  (UNION {PartsOf(d.init) : d \in Range(source.declarations)})
    \cup PartsOf(source.late.from)
    \cup (UNION {PartsOf(u.callee) : u \in Range(source.uses)})

\* Mutant: the call of a property's t is not one of t.
IsPlainCallTarget(e) == e = Name("t") \/ e.is \in {"t", "i18next"}

\* t(...), x.t(...), t.rich(...)
IsTranslatorCallTarget(e) ==
  e = Name("t") \/ e.is \in {"t", "parameter", "i18next"}

RequiresAnalysis(source) ==
  \/ \E e \in Expressions(source) : e.is \in {"factory", "keys"}
  \/ \E u \in Range(source.uses) :
       \/ u.is \in {"parse", "formError", "formSchema"}
       \/ u.is = "call" /\ IsTranslatorCallTarget(u.callee)

----------------------------------------------------------------------------
(* analyzeSource: what a name stands for                                   *)

NoNamespace == <<"-">>
Refused == <<"!">>

FactoryNamespace(e) ==
  CASE e.namespace = Computed -> Refused
    [] e.namespace = Omitted -> IF e.kind = "client" THEN Root ELSE Refused
    [] OTHER -> e.namespace

NamedObject(l, e) ==
  CASE e.is = "factory" -> FactoryNamespace(e)
    [] e.is = "name" /\ e.name \in DOMAIN l.objects -> l.objects[e.name]
    [] OTHER -> NoNamespace

\* Mutant: a condition has the namespace of its first branch.
FirstObject(l, e) == NamedObject(l, IF e.is = "choice" THEN e.one ELSE e)

ObjectNamespace(l, e) ==
  IF e.is # "choice" THEN NamedObject(l, e)
  ELSE LET one == NamedObject(l, e.one)
           other == NamedObject(l, e.other)
       IN  IF one = other THEN one ELSE Refused

TextTranslator(l, e) ==
  CASE e.is = "name" /\ e.name \in DOMAIN l.translators ->
         l.translators[e.name]
    [] e.is = "t" -> ObjectNamespace(l, e.of)
    [] OTHER -> NoNamespace

RefuseSource(l) == [l EXCEPT !.at = "refused"]

\* The first binding of a symbol stays.
Bound(names, n, namespace) ==
  [m \in DOMAIN names \cup {n} |->
     IF m \in DOMAIN names THEN names[m] ELSE namespace]

BindTranslator(l, pattern, namespace) ==
  IF pattern.is = "id"
  THEN [l EXCEPT !.translators = Bound(@, pattern.name, namespace)]
  ELSE RefuseSource(l)

BindObject(l, pattern, namespace) ==
  CASE pattern.is = "id" ->
         [l EXCEPT !.objects = Bound(@, pattern.name, namespace)]
    [] pattern.is = "pick" -> BindTranslator(l, Id(pattern.name), namespace)
    [] OTHER -> RefuseSource(l)

\* promiseAllNamespaces: each of a row is bound to what stands in its place.
BindPlace(l, so_far, pattern, init) ==
  LET namespace == ObjectNamespace(l, init)
  IN  CASE namespace = Refused -> RefuseSource(so_far)
        [] namespace = NoNamespace -> so_far
        [] OTHER -> BindObject(so_far, pattern, namespace)

BindRow(l, pattern, init) ==
  LET placed[n \in 0..Len(pattern.each)] ==
        IF n = 0 THEN l
        ELSE BindPlace(l, placed[n - 1], pattern.each[n], init.each[n])
  IN  IF init.is # "all" THEN l ELSE placed[Len(pattern.each)]

BindDeclaration(l, d) ==
  LET object == ObjectNamespace(l, d.init)
      translator == TextTranslator(l, d.init)
  IN  IF d.pattern.is = "row" THEN BindRow(l, d.pattern, d.init)
      ELSE IF Refused \in {object, translator} THEN RefuseSource(l)
      ELSE IF object # NoNamespace THEN BindObject(l, d.pattern, object)
      ELSE IF translator # NoNamespace
      THEN BindTranslator(l, d.pattern, translator)
      ELSE l

BindDeclarations(l, declarations) ==
  LET declared[n \in 0..Len(declarations)] ==
        IF n = 0 THEN l ELSE BindDeclaration(declared[n - 1], declarations[n])
  IN  declared[Len(declarations)]

\* translationKeyFactoryNamespace: a literal namespace that has messages.
KeyNamespace(e) ==
  IF e.is # "keys" THEN NoNamespace
  ELSE IF MessagesUnder(e.namespace) = {} THEN Refused ELSE e.namespace

BindKeys(l, d) ==
  LET namespace == KeyNamespace(d.init)
  IN  IF namespace = NoNamespace THEN l
      ELSE IF namespace = Refused \/ d.pattern.is # "id" \/ d.kind # "const"
      THEN RefuseSource(l)
      ELSE [l EXCEPT !.keys = Bound(@, d.pattern.name, namespace)]

BindAllKeys(l, declarations) ==
  LET declared[n \in 0..Len(declarations)] ==
        IF n = 0 THEN l ELSE BindKeys(declared[n - 1], declarations[n])
  IN  declared[Len(declarations)]

----------------------------------------------------------------------------
(* The source runs: translations.ts                                        *)

Value(what, namespace) == [what |-> what, namespace |-> namespace]
Nought == Value("nought", Root)

\* What an expression is that has no other in it.
SimpleValue(env, e) ==
  CASE e.is \in {"factory", "through"} ->
         Value("object",
               IF e.namespace \in {Omitted, Computed} THEN Root ELSE e.namespace)
    [] e.is = "wrapper" -> Value("object", <<"a">>)
    [] e.is = "parameter" -> Value("translator", <<"a">>)
    [] e.is = "keys" -> Value("keys", e.namespace)
    [] e.is = "name" /\ e.name \in DOMAIN env -> env[e.name]
    [] OTHER -> Nought

TranslatorOf(v) ==
  IF v.what = "object" THEN Value("translator", v.namespace) ELSE Nought

\* What an expression may be, when the variables are what env says.
Evaluate(env, e) ==
  CASE e.is \in {"t", "element"} -> {TranslatorOf(SimpleValue(env, e.of))}
    [] e.is = "choice" -> {SimpleValue(env, e.one), SimpleValue(env, e.other)}
    [] OTHER -> {SimpleValue(env, e)}

Assign(env, n, v) == [m \in DOMAIN env \cup {n} |-> IF m = n THEN v ELSE env[m]]

Destructure(env, pattern, v) ==
  CASE pattern.is = "id" -> Assign(env, pattern.name, v)
    [] pattern.is = "pick" -> Assign(env, pattern.name, TranslatorOf(v))
    [] OTHER -> env

Given(envs, pattern, init) ==
  UNION {{Destructure(env, pattern, v) : v \in Evaluate(env, init)} : env \in envs}

GivenRow(envs, pattern, init) ==
  LET given[n \in 0..Len(pattern.each)] ==
        IF n = 0 THEN envs
        ELSE Given(given[n - 1], pattern.each[n], init.each[n])
  IN  IF init.is # "all" THEN envs ELSE given[Len(pattern.each)]

\* A declaration takes effect, unless it was removed.
Declared(envs, d, removed) ==
  IF d.pattern.is = "row" THEN GivenRow(envs, d.pattern, d.init)
  ELSE IF d.pattern.is = "id" /\ d.pattern.name \in removed THEN envs
  ELSE Given(envs, d.pattern, d.init)

\* The declarations in the order they are evaluated in.
Ordered(source) ==
  IF source.backwards THEN Reverse(source.declarations) ELSE source.declarations

AllDeclared(order, removed) ==
  LET declared[n \in 0..Len(order)] ==
        IF n = 0 THEN {<< >>} ELSE Declared(declared[n - 1], order[n], removed)
  IN  declared[Len(order)]

\* The variables, after the late assignment.
Environments(source, removed) ==
  LET declared == AllDeclared(Ordered(source), removed)
  IN  IF source.late.to = "" THEN declared
      ELSE Given(declared, Id(source.late.to), source.late.from)

Normalized(namespace, key) ==
  IF IsStrictPrefix(namespace, key) THEN key ELSE namespace \o key

\* translateCompilerDynamicText
TranslateDynamicText(v, key, namespace, registry) ==
  IF v.what # "translator" THEN {}
  ELSE {Normalized(namespace, key)} \cap registry

\* parseCompilerTranslationKey
ParseKey(key, namespace, registry) ==
  {Normalized(namespace, key)} \cap registry

\* createCompilerFormErrorTranslator
TranslateFormError(v, key, namespace, registry) ==
  IF \E path \in ParseKey(key, namespace, registry) :
       IsStrictPrefix(namespace \o FormPart, path)
  THEN TranslateDynamicText(v, key, namespace, registry) ELSE {}

\* createCompilerFormSchema: error(key) gives a key for the above, or throws.
SchemaError(key, namespace, registry) ==
  {path \in ParseKey(FormPart \o key, namespace, registry) :
     IsStrictPrefix(namespace \o FormPart, path)}

\* What a use shows: the paths of messages, or nothing.  What was not lowered
\* throws, or is recovered from without its message.
Ran(u, replacement, v, key, registries) ==
  LET namespace == replacement.namespace
      registry == registries[namespace]
  IN  CASE replacement.kind \in {"message", "map"} ->
             IF v.what = "translator" THEN replacement.paths ELSE {}
        [] replacement.kind = "literal" -> replacement.paths
        [] replacement.kind = "dynamic" ->
             TranslateDynamicText(v, key, namespace, registry)
        [] replacement.kind = "parse" -> ParseKey(key, namespace, registry)
        [] replacement.kind = "formError" ->
             TranslateFormError(v, key, namespace, registry)
        [] replacement.kind = "formSchema" ->
             SchemaError(key, namespace, registry)
        [] OTHER -> {}

----------------------------------------------------------------------------
(* The sources that are lowered                                            *)

ObjectInits ==
  {Client(<<"a">>), Client(Root), Client(Computed), Server(Omitted),
   Choice(Client(<<"a">>), Server(<<"a">>)),
   Choice(Client(<<"a">>), Client(<<"b">>)), Choice(Client(<<"a">>), Other),
   Wrapper("useAppTranslations"), Wrapper("useApp"), Through(<<"a">>), Other}

RowDeclarations ==
  {Declare("const", Row(<<Id("o"), Pick("t")>>), All(each)) :
     each \in {<<Server(<<"b">>), Server(<<"a">>)>>,
               <<Other, Server(<<"a">>)>>}}
    \cup {Declare("const", Row(<<Id("o"), PickNested>>),
                  All(<<Server(<<"b">>), Server(<<"a">>)>>))}

KeyDeclarations ==
  {Declare("const", Id("q"), CreateKey(namespace)) :
     namespace \in {<<"a">>, <<"z">>, Root}}
    \cup {Declare("let", Id("q"), CreateKey(<<"a">>)),
          Declare("const", PickNested, CreateKey(<<"a">>))}

\* What may be assigned or declared again.
Variables ==
  {Declare("let", Id("o"), Client(<<"a">>)),
   Declare("let", Id("o"), NoInit), Declare("let", Id("t"), NoInit),
   Declare("var", Pick("t"), Client(<<"a">>))}

Firsts ==
  {Declare("const", pattern, init) :
     pattern \in {Id("o"), Pick("t"), Pick("x")}, init \in ObjectInits}
    \cup RowDeclarations \cup KeyDeclarations \cup Variables
    \cup {Declare("const", PickNested, Client(<<"a">>)),
          Declare("const", Id("x"), Member(Client(<<"a">>)))}

NamesOf(pattern) ==
  CASE pattern.is \in {"id", "pick"} -> {pattern.name}
    [] pattern.is = "row" -> {"o", "t"}
    [] OTHER -> {}

\* A declaration that uses the first, and one that uses both.
Seconds(first) ==
  LET after(n, declarations) ==
        IF n \in NamesOf(first.pattern) THEN declarations ELSE {}
  IN  after("o", {Declare("const", Pick("t"), Name("o")),
                  Declare("const", Id("x"), Member(Name("o"))),
                  Declare("const", Pick("x"),
                          Choice(Name("o"), Client(<<"a">>)))})
        \cup after("t", {Declare("const", Id("x"), Name("t")),
                         Declare("const", Pick("x"), Name("t")),
                         Declare("const", Id("x"),
                                 Choice(Name("t"), Name("t")))})
        \cup (IF first.kind = "var"
              THEN {Declare("var", Pick("t"), Client(<<"b">>))} ELSE {})

Third == Declare("const", Id("x"), Name("t"))

NotLate == [to |-> "", from |-> NoInit]
Lates(first) ==
  {NotLate} \cup
    (IF first \notin Variables THEN {}
     ELSE IF first.pattern = Id("o")
     THEN {[to |-> "o", from |-> Client(<<"b">>)]}
     ELSE {[to |-> "t", from |-> Member(Client(<<"b">>))]})

KeySets ==
  {{Plainly(<<"k">>)}, {Plainly(<<"k">>), Plainly(<<"error", "form", "e">>)},
   {Deferred(<<"a", "k">>)}, {Plainly(<<"a", "k">>)}, {Plainly(<<"n">>)},
   {Deferred(<<"b", "k">>)}}

Inputs ==
  {Plainly(<<"k">>), Plainly(<<"n">>), Plainly(<<"a", "k">>),
   Plainly(<<"error", "form", "e">>), Deferred(<<"a", "k">>)}

FormUses ==
  {Parse(namespace, Inputs) : namespace \in {<<"a">>, <<"z">>}}
    \cup {FormErrors(namespace, Name("t"), Inputs) :
            namespace \in {<<"a">>, <<"error">>}}
    \cup {FormSchema(namespace, keys) :
            namespace \in {<<"a">>, <<"b">>, <<"error">>},
            keys \in {Literal(<<"e">>), Finite({Plainly(<<"e">>)})}}
    \cup {FormSchema(<<"a">>, Literal(<<"z">>)), FormSchema(<<"a">>, Wide)}

Callees == {Name("t"), Name("x"), Member(Name("o"))}

CallUses ==
  {Call("text", callee, Literal(<<"k">>)) :
     callee \in Callees \cup {Element(Name("o")), Member(Client(<<"a">>)),
                              Parameter(TRUE), Parameter(FALSE), Instance,
                              Choice(Name("t"), Name("t"))}}
    \cup {Call(op, Name("t"), Literal(key)) :
            op \in {"text", "rich"}, key \in {<<"r">>, <<"z">>}}
    \cup {Call("rich", Parameter(TRUE), Literal(<<"r">>)),
          Call("rich", Name("t"), Wide), Call("text", Name("t"), Wide),
          Call("dynamic", Name("t"), Wide), Call("map", Name("t"), Wide)}
    \cup {Call("map", callee, Finite(keys)) :
            callee \in Callees,
            keys \in {{Plainly(<<"k">>), Plainly(<<"a", "k">>)},
                      {Plainly(<<"n">>)}, {Plainly(<<"r">>)}}}
    \cup {Call("text", Name("t"), Finite(keys)) : keys \in KeySets}
    \cup {Call("text", Member(Name("o")), Finite({Plainly(<<"k">>)}))}

KeyUses ==
  {KeyCall(callee, keys) :
     callee \in {Name("q"), CreateKey(<<"a">>)},
     keys \in {Literal(<<"k">>), Literal(<<"n">>), Literal(<<"r">>), Wide}}

References ==
  {Refer(how, n) :
     how \in {"escape", "dependency", "typeof"}, n \in {"o", "t", "q"}}

Start == [at |-> "begun", required |-> FALSE, objects |-> << >>,
          translators |-> << >>, keys |-> << >>, next |-> 1,
          replaced |-> << >>, registries |-> << >>]

NoSource == [declarations |-> << >>, backwards |-> FALSE, late |-> NotLate,
             uses |-> << >>, reader |-> "none"]

LoweringInit == program = NoSource /\ lowering = Start /\ shown = << >>

NamesIn(e) == {part.name : part \in {x \in PartsOf(e) : x.is = "name"}}

Rests(first) ==
  {<< >>} \cup {<<d>> : d \in Seconds(first)}
    \cup {<<d, Third>> : d \in {e \in Seconds(first) : e.pattern = Pick("t")}}

\* Two uses share registries where t is the translator of a namespace.
UsesOf(declarations) ==
  LET names == UNION {NamesOf(d.pattern) : d \in Range(declarations)}
      possible == {u \in CallUses \cup KeyUses \cup References :
                     NamesIn(u.callee) \subseteq names}
      registering == {Call("text", Name("t"), Finite(keys)) : keys \in KeySets}
                       \cup FormUses
      usual == << Declare("const", Pick("t"), Client(<<"a">>)) >>
  IN  {<<u>> : u \in possible}
        \cup {w \in registering \X registering : declarations = usual}

BeginLowering ==
  /\ program = NoSource
  /\ \E first \in Firsts : \E rest \in Rests(first), late \in Lates(first),
                              reader \in {"bundler", "check"} :
     \E backwards \in {FALSE} \cup {rest # << >>},
        uses \in UsesOf(<<first>> \o rest) :
       program' = [declarations |-> <<first>> \o rest, late |-> late,
                   backwards |-> backwards, uses |-> uses, reader |-> reader]
  /\ lowering' = [lowering EXCEPT !.at = "preflight"]
  /\ UNCHANGED shown

----------------------------------------------------------------------------
(* The analysis                                                            *)

LoweringStep(next) == lowering' = next /\ UNCHANGED <<program, shown>>
At(phase) == lowering.at = phase

\* Bundlers leave alone what syntax shows to be of no concern; a check
\* analyses every source.
Preflight ==
  /\ At("preflight")
  /\ LET required == RequiresAnalysis(program)
     IN  LoweringStep([lowering EXCEPT
           !.required = required,
           !.at = IF program.reader = "bundler" /\ ~required THEN "skipped"
                  ELSE "keys"])

BindTranslationKeys ==
  /\ At("keys")
  /\ LET bound == BindAllKeys(lowering, program.declarations)
     IN  LoweringStep([lowering EXCEPT
           !.keys = bound.keys,
           !.at = IF bound.at = "refused" THEN "refused" ELSE "names"])

\* One pass over the declarations; the last one changes nothing.
BindNames ==
  /\ At("names")
  /\ LET bound == BindDeclarations(lowering, program.declarations)
     IN  LoweringStep([lowering EXCEPT
           !.objects = bound.objects, !.translators = bound.translators,
           !.at = IF bound = lowering THEN "hooks"
                  ELSE IF bound.at = "refused" THEN "refused" ELSE "names"])

RefuseWrapperHooks ==
  /\ At("hooks")
  /\ LET hooks == {d \in Range(program.declarations) :
                     /\ d.pattern.is \in {"pick", "nested"}
                     /\ d.init = Wrapper("useAppTranslations")}
     IN  LoweringStep(IF hooks # {} THEN RefuseSource(lowering)
                      ELSE [lowering EXCEPT !.at = "calls"])

Replacement(kind, namespace, paths) ==
  [kind |-> kind, namespace |-> namespace, paths |-> paths]
Left == Replacement("left", Root, {})

Rewrite(l, replacement) ==
  [l EXCEPT !.replaced = Append(@, replacement), !.next = @ + 1]

RegistryOf(l, namespace) ==
  IF namespace \in DOMAIN l.registries THEN l.registries[namespace] ELSE {}

\* Mutant: a registry holds what its last call needs.
RegisterLast(l, namespace, paths) ==
  [l EXCEPT !.registries =
     [n \in DOMAIN @ \cup {namespace} |->
        IF n = namespace THEN paths ELSE RegistryOf(l, n)]]

\* dynamicRegistry: one of each namespace, for all calls.
Register(l, namespace, paths) ==
  [l EXCEPT !.registries =
     [n \in DOMAIN @ \cup {namespace} |->
        RegistryOf(l, n) \cup IF n = namespace THEN paths ELSE {}]]

Visiting(is) ==
  /\ At("calls") /\ lowering.next <= Len(program.uses)
  /\ program.uses[lowering.next].is = is

Visited == program.uses[lowering.next]

\* mapEntries: all must be texts without arguments.
Mapped(u, namespace) ==
  LET paths == {namespace \o key.key : key \in u.keys.keys}
  IN  IF \/ u.keys.is = "wide"
         \/ \E path \in paths : ~\E m \in MessagesAt(path) : ArgumentFree(m)
      THEN RefuseSource(lowering)
      ELSE Rewrite(lowering, Replacement("map", namespace, paths))

\* validateNamedDynamicKeys: a key that begins with the namespace is a path.
Named(u, namespace) ==
  LET paths == {Normalized(namespace, key.key) : key \in u.keys.keys}
  IN  IF \/ u.op # "text" \/ namespace = Root \/ u.keys.is = "wide"
         \/ \E path \in paths : ~\E m \in MessagesAt(path) : ArgumentFree(m)
      THEN RefuseSource(lowering)
      ELSE Register(Rewrite(lowering, Replacement("dynamic", namespace, {})),
                    namespace, paths)

Exact(u, namespace) ==
  LET paths == {namespace \o key.key : key \in u.keys.keys}
  IN  IF \A path \in paths : \E m \in MessagesAt(path) : m.kind = u.op
      THEN Rewrite(lowering, Replacement("message", namespace, paths))
      ELSE RefuseSource(lowering)

\* A call of nothing that is bound here is refused if it is one of i18next,
\* or of a property whose type is a translator's.
VisitCall ==
  /\ Visiting("call")
  /\ LET u == Visited
         namespace == TextTranslator(lowering, u.callee)
     IN  LoweringStep(
           IF namespace = NoNamespace
           THEN IF u.callee \in {Instance, Parameter(TRUE)}
                THEN RefuseSource(lowering) ELSE Rewrite(lowering, Left)
           ELSE IF namespace = Refused \/ u.op = "dynamic"
           THEN RefuseSource(lowering)
           ELSE IF u.op = "map" THEN Mapped(u, namespace)
           ELSE IF u.keys.is = "literal" THEN Exact(u, namespace)
           ELSE Named(u, namespace))

VisitKeyCall ==
  /\ Visiting("key")
  /\ LET u == Visited
         namespace == IF u.callee.is = "name"
                      THEN IF u.callee.name \in DOMAIN lowering.keys
                           THEN lowering.keys[u.callee.name] ELSE NoNamespace
                      ELSE KeyNamespace(u.callee)
         paths == {namespace \o key.key : key \in u.keys.keys}
     IN  LoweringStep(
           IF namespace = NoNamespace THEN Rewrite(lowering, Left)
           ELSE IF \/ u.keys.is # "literal"
                   \/ \E path \in paths :
                        ~\E m \in MessagesAt(path) : ArgumentFree(m)
           THEN RefuseSource(lowering)
           ELSE Rewrite(lowering, Replacement("literal", namespace, paths)))

VisitParser ==
  /\ Visiting("parse")
  /\ LET namespace == Visited.namespace
         texts == {m \in MessagesUnder(namespace) : ArgumentFree(m)}
     IN  LoweringStep(
           IF MessagesUnder(namespace) = {} THEN RefuseSource(lowering)
           ELSE Register(Rewrite(lowering, Replacement("parse", namespace, {})),
                         namespace, Paths(texts)))

VisitFormErrors ==
  /\ Visiting("formError")
  /\ LET namespace == Visited.namespace
     IN  LoweringStep(
           IF MessagesUnder(namespace) = {} THEN RefuseSource(lowering)
           ELSE Register(
                  Rewrite(lowering, Replacement("formError", namespace, {})),
                  namespace, Paths(FormMessages(namespace))))

\* The keys of a builder that is written in place are checked.
VisitFormSchema ==
  /\ Visiting("formSchema")
  /\ LET u == Visited
         forms == Paths(FormMessages(u.namespace))
         unknown == {key \in u.keys.keys :
                       u.namespace \o FormPart \o key.key \notin forms}
     IN  LoweringStep(
           IF \/ forms = {} \/ u.keys.is = "wide"
              \/ u.keys.is = "literal" /\ unknown # {}
           THEN RefuseSource(lowering)
           ELSE Register(
                  Rewrite(lowering, Replacement("formSchema", u.namespace, {})),
                  u.namespace, forms))

\* Another reference is no call.
VisitReference == Visiting("refer") /\ LoweringStep(Rewrite(lowering, Left))

\* A translator and a deferred key are called, or bound to another name, and
\* nothing else; objects may go anywhere.
Escapes ==
  LET both == DOMAIN lowering.translators \cup DOMAIN lowering.keys
      choices == {e \in Expressions(program) : e.is = "choice"}
  IN  \/ program.late.to \in both
      \/ \E u \in Range(program.uses) :
           /\ u.is = "refer"
           /\ \/ u.op = "escape" /\ u.callee.name \in both
              \/ u.op = "dependency" /\ u.callee.name \in DOMAIN lowering.keys
              \/ u.op = "typeof" /\ u.callee.name \in DOMAIN lowering.translators
      \/ \E e \in choices : NamesIn(e) \cap both # {}

Removed == DOMAIN lowering.keys

ValidateReferences ==
  /\ At("calls") /\ lowering.next > Len(program.uses)
  /\ LoweringStep(
       IF Escapes THEN RefuseSource(lowering)
       ELSE [lowering EXCEPT
         !.at = IF Removed = {} /\ \A r \in Range(lowering.replaced) : r = Left
                THEN "untouched"
                ELSE IF program.reader = "check" THEN "checked" ELSE "lowered"])

\* The source is run as it was, or as it was lowered: each use once, with one
\* of its keys.
Run ==
  /\ program.reader = "bundler" /\ shown = << >>
  /\ lowering.at \in {"skipped", "untouched", "lowered"}
  /\ \E env \in Environments(program, Removed),
        keys \in [DOMAIN program.uses -> UNION {u.keys.keys :
                                                  u \in Range(program.uses)}
                                          \cup {Plainly(Root)}] :
       /\ \A n \in DOMAIN program.uses :
            LET u == program.uses[n]
            IN  IF u.keys.keys = {} THEN keys[n] = Plainly(Root)
                ELSE keys[n] \in u.keys.keys
       /\ shown' = [n \in DOMAIN program.uses |->
            LET u == program.uses[n]
                v == CHOOSE x \in Evaluate(env, u.callee) : TRUE
                replacement == IF n \in DOMAIN lowering.replaced
                               THEN lowering.replaced[n] ELSE Left
            IN  [value |-> v, key |-> keys[n],
                 paths |-> Ran(u, replacement, v, keys[n].key,
                               lowering.registries)]]
  /\ UNCHANGED <<program, lowering>>

LoweringNext ==
  \/ BeginLowering \/ Preflight \/ BindTranslationKeys \/ BindNames
  \/ RefuseWrapperHooks \/ VisitCall \/ VisitKeyCall \/ VisitParser
  \/ VisitFormErrors \/ VisitFormSchema \/ VisitReference
  \/ ValidateReferences \/ Run

LoweringSpec == LoweringInit /\ [][LoweringNext]_lowered

----------------------------------------------------------------------------
(* What a source means                                                     *)

\* What the variable n is initialised with, or assigned later.
InitsOf(source, n) ==
  {d.init : d \in {x \in Range(source.declarations) : n \in NamesOf(x.pattern)}}
    \cup (IF source.late.to = n THEN {source.late.from} ELSE {})

BehindNames(source, expressions) ==
  UNION {UNION {PartsOf(i) : i \in InitsOf(source, x.name)} :
           x \in {y \in expressions : y.is = "name"}}

\* The expressions a value comes from, through any number of names: no more
\* than there are declarations, and one.
OriginsOf(source, e) ==
  LET before[n \in 0..4] ==
        IF n = 0 THEN PartsOf(e)
        ELSE before[n - 1] \cup BehindNames(source, before[n - 1])
  IN  before[4]

\* It comes from where the analysis does not look: an import of all names, a
\* hook of the application, a property without a type, e["t"].
Hidden(source, e) ==
  \E x \in OriginsOf(source, e) :
    x.is \in {"through", "wrapper", "parameter", "element"}

\* One of the variables it comes from changes its value.
Changes(source, e) ==
  \E x \in {y \in OriginsOf(source, e) : y.is = "name"} :
    \/ source.late.to = x.name
    \/ Cardinality({n \in DOMAIN source.declarations :
                      x.name \in NamesOf(source.declarations[n].pattern)}) > 1

Meant(source, u, v, key) ==
  LET under(namespace) ==
        IF key.deferred THEN {key.key} ELSE {namespace \o key.key}
  IN  CASE u.is = "call" /\ v.what = "translator" ->
             IF u.op = "map"
             THEN {v.namespace \o k.key : k \in u.keys.keys}
             ELSE under(v.namespace)
        [] u.is = "key" /\ u.callee.is = "keys" -> under(u.callee.namespace)
        [] u.is = "key" /\ u.callee.is = "name" ->
             UNION {under(e.namespace) :
                      e \in {x \in OriginsOf(source, u.callee) : x.is = "keys"}}
        [] u.is = "parse" ->
             under(u.namespace)
               \cap Paths({m \in MessagesUnder(u.namespace) : ArgumentFree(m)})
        [] u.is = "formError" ->
             under(u.namespace) \cap Paths(FormMessages(u.namespace))
        [] u.is = "formSchema" ->
             {u.namespace \o FormPart \o key.key}
               \cap Paths(FormMessages(u.namespace))
        [] OTHER -> {}

(* A call with a literal key shows the message that it names at run time:  *)
(* never that of another namespace, unless a variable it comes from was    *)
(* given another value (the analysis keeps a symbol's first binding, and   *)
(* follows no assignment); and never none, unless its translator comes from*)
(* where the analysis does not look (transform.ts:6366-6485, 7211-7285).   *)
LoweredAsMeant ==
  \A n \in DOMAIN shown :
    LET u == program.uses[n]
        ran == shown[n]
    IN  (u.is \in {"call", "key"} /\ u.keys.is # "finite") \/ u.op = "map" =>
          \/ ran.paths = Meant(program, u, ran.value, ran.key)
          \/ ran.paths = {} /\ Hidden(program, u.callee)
          \/ Changes(program, u.callee)

(* A key that is only known when the source runs finds the message that it *)
(* would name as a literal, whatever else uses the registry of its         *)
(* namespace; parsers and forms find all of their texts, and no others;    *)
(* unless the key begins with the very name of the namespace, and is then  *)
(* taken for a whole path (transform.ts:6800, translations.ts:320,         *)
(* translations.ts:507).                                                   *)
KeysFindTheirMessages ==
  \A n \in DOMAIN shown :
    LET u == program.uses[n]
        ran == shown[n]
        key == IF u.is = "formSchema" THEN FormPart \o ran.key.key
               ELSE ran.key.key
        namespace == IF u.is = "call" THEN ran.value.namespace ELSE u.namespace
    IN  (u.keys.is = "finite" /\ u.op # "map") \/ u.is = "formSchema" =>
          \/ ran.paths = Meant(program, u, ran.value, ran.key)
          \/ u.is = "call" /\ Hidden(program, u.callee)
          \/ u.is = "call" /\ Changes(program, u.callee)
          \/ IsStrictPrefix(namespace, key) /\ ~ran.key.deferred

(* Whatever syntax shows to be of no concern is accepted as it stands by   *)
(* the whole analysis too ("False positives only cost work; false          *)
(* negatives would be a safety failure", transform.ts:840), except for a   *)
(* hook of the application whose t is never called by that name.           *)
PreflightMissesNothing ==
  ~lowering.required /\ program.reader = "check" =>
    \/ lowering.at \notin {"refused", "checked"}
    \/ \E d \in Range(program.declarations) :
         d.pattern.is \in {"pick", "nested"}
           /\ d.init = Wrapper("useAppTranslations")
=============================================================================
