-------------------------- MODULE CreateBot_proofs --------------------------
(***************************************************************************)
(* What the dialog asks for fits its strategy and is what its form shows,  *)
(* and the confirmation is the one whose deletion is on its way, for any   *)
(* registry, any exchanges and any number of edits, bots and failures.     *)
(*                                                                         *)
(* The request is made from the dialog alone, so what must hold is that    *)
(* every edit leaves a dialog that fits (Fits), also one that was opened   *)
(* before the registry came.                                               *)
(***************************************************************************)
EXTENDS CreateBot, SequenceTheorems, FiniteSetTheorems, TLAPS

Homes(s, known) == {Home(f) : f \in Fields(s, known)}

\* Where the values of a strategy's fields may be.
Places(s, known) == Homes(s, known) \cup {Flat(f) : f \in Fields(s, known)}

\* Where a checkbox writes there is nothing but what is on or off.
Typed(s, known, config) ==
    \A f \in Fields(s, known) : f.type = "boolean" =>
        At(config, Flat(f)) \in {"unset", "yes", "no", "quotedYes", "quotedNo"}

IsDialog(d) ==
    /\ d = [strategy |-> d.strategy, exchange |-> d.exchange, mode |-> d.mode,
            config |-> d.config, futures |-> d.futures, risk |-> d.risk,
            sessions |-> d.sessions]
    /\ d.strategy \in Strategies /\ d.exchange \in Exchanges
    /\ d.futures \in [of : {d.strategy}, edited : BOOLEAN]

\* The mode and the parameters are of the strategy chosen; before the registry
\* comes no other strategy than the first one can be.
Fits(d, known) ==
    /\ IsDialog(d)
    /\ ~known => d.strategy = FirstStrategy
    /\ known /\ SchemaOf[d.strategy].liveOnly => d.mode = "live"
    /\ DOMAIN d.config \subseteq Places(d.strategy, known)
    /\ Typed(d.strategy, known, d.config)

\* CreationFits of one request.
Fitting(r) ==
    LET b == r.body
        row == SchemaOf[b.strategy]
    IN /\ DOMAIN b.config \subseteq Homes(b.strategy, r.known)
       /\ r.known =>
            /\ row.liveOnly => b.mode = "live"
            /\ (b.exchange = None) = row.crossExchange
            /\ row.crossExchange =>
                 /\ {[name |-> s.name, futures |-> s.futures] : s \in b.sessions} = row.roles
                 /\ Cardinality(b.sessions) = Cardinality(row.roles)
                 /\ b.mode = "paper" => \A s \in b.sessions : s.exchange = FirstExchange
            /\ ~row.crossExchange => (b.futures # None) = row.requiresFutures
            /\ b.futures # None => b.futures.of = b.strategy

\* SentIsShown of one request.
Telling(r) ==
    \A f \in Fields(r.body.strategy, r.known) :
      LET held == At(r.form.config, Flat(f))
          sent == At(r.body.config, Home(f))
      IN /\ held \notin {"unset", "empty", "quotedYes", "quotedNo"}
              => sent = Shown(r.form.config, f)
         /\ held = "empty" /\ ~Nested(f) => sent = "unset"

IInv ==
    /\ registry \in BOOLEAN /\ globalMode \in Modes
    /\ dialog # Closed => Fits(dialog, registry)
    /\ request # None => Fitting(request) /\ Telling(request)

-----------------------------------------------------------------------------
(* Places *)

LEMMA Cut ==
    ASSUME NEW f
    PROVE  SubSeq(Home(f), 1, 2) = Home(f) /\ SubSeq(Flat(f), 1, 2) = Home(f)
<1> DEFINE S == {f.parent, f.key, "plain"}
           h == <<f.parent, f.key>>
           p == Append(h, "plain")
<1>1. h \in Seq(S) /\ Len(h) = 2 /\ "plain" \in S
  OBVIOUS
<1>2. p \in Seq(S) /\ Len(p) = 3 /\ \A i \in 1..2 : p[i] = h[i]
  <2> HIDE DEF S, h
  <2> QED BY <1>1, AppendProperties
<1>3. SubSeq(h, 1, 2) = h
  <2> HIDE DEF S, h
  <2> QED BY <1>1, SubSeqFull
<1>4. SubSeq(p, 1, 2) = h
  <2> HIDE DEF S, h, p
  <2>1. \A i \in 1..2 : p[i] \in S
    BY <1>2, SMTT(30)
  <2>2. /\ SubSeq(p, 1, 2) \in Seq(S) /\ Len(SubSeq(p, 1, 2)) = 2
        /\ \A i \in 1..2 : SubSeq(p, 1, 2)[i] = p[i]
    BY <2>1, SubSeqProperties
  <2> QED BY <1>1, <1>2, <2>2, SeqEqual
<1> QED BY <1>3, <1>4 DEF Home, Flat, Plain

\* A place is the home or the plain place of one field only, and the plain place
\* of a nested field is no home.
LEMMA PlacesApart ==
    ASSUME NEW s \in Strategies, NEW known \in BOOLEAN,
           NEW f \in Fields(s, known), NEW g \in Fields(s, known)
    PROVE  /\ Home(f) = Home(g) => f = g
           /\ Flat(f) = Flat(g) => f = g
           /\ Nested(f) => Flat(f) # Home(g)
           /\ ~Nested(f) => Flat(f) = Home(f)
           /\ ~Nested(f) => Plain(Home(f)) # Home(g) /\ Plain(Home(f)) # Flat(g)
<1>1. Home(f) = Home(g) => f = g
  BY SchemaAssumption DEF IsSchema, Fields, Home
<1>2. Flat(f) = Flat(g) => f = g
  BY <1>1, Cut
<1>3. ~Nested(f) => Flat(f) = Home(f)
  BY DEF Flat
<1>4. \A h : Plain(Home(f)) # Home(h)
  BY DEF Plain, Home
<1>5. Plain(Home(f)) = Plain(Home(g)) => Home(f) = Home(g)
  BY DEF Plain, Home
<1>6. Nested(f) => Flat(f) # Home(g)
  BY <1>4 DEF Flat
<1>7. ~Nested(f) => Plain(Home(f)) # Flat(g)
  BY <1>1, <1>4, <1>5 DEF Flat
<1> QED BY <1>1, <1>2, <1>3, <1>4, <1>6, <1>7

LEMMA MorePlaces ==
    ASSUME NEW s, NEW c, DOMAIN c \subseteq Places(s, FALSE)
    PROVE  DOMAIN c \subseteq Places(s, TRUE) /\ Typed(s, TRUE, c)
BY DEF Places, Homes, Fields, Typed, At

LEMMA DefaultPlaces ==
    ASSUME NEW s \in Strategies, NEW known \in BOOLEAN
    PROVE  /\ DOMAIN GetStrategyDefaults(s, known) \subseteq Places(s, known)
           /\ Typed(s, known, GetStrategyDefaults(s, known))
<1> DEFINE c == GetStrategyDefaults(s, known)
<1>1. DOMAIN c = Homes(s, known) /\ DOMAIN c \subseteq Places(s, known)
  BY DEF GetStrategyDefaults, Places, Homes
<1>2. ASSUME NEW f \in Fields(s, known), f.type = "boolean"
      PROVE  At(c, Flat(f)) \in {"unset", "yes", "no", "quotedYes", "quotedNo"}
  <2>1. f.default \in {"yes", "no", "quotedYes", "quotedNo"}
    BY <1>2, SchemaAssumption DEF IsSchema, IsField, Fields
  <2>2. CASE Nested(f)
    <3>1. Flat(f) \notin DOMAIN c
      BY <1>1, <2>2, PlacesApart DEF Homes
    <3> QED BY <3>1 DEF At
  <2>3. CASE ~Nested(f)
    <3>1. Flat(f) = Home(f) /\ \A g \in Fields(s, known) : Home(g) = Home(f) => g = f
      BY <2>3, PlacesApart
    <3>2. (CHOOSE g \in Fields(s, known) : Home(g) = Home(f)) = f
      BY <3>1
    <3>3. c[Home(f)] = f.default
      BY <3>2 DEF GetStrategyDefaults
    <3> HIDE DEF c
    <3> QED BY <2>1, <3>1, <3>3 DEF At
  <2> QED BY <2>2, <2>3
<1> QED BY <1>1, <1>2 DEF Typed

\* What is sent is at home places only.
LEMMA SentAtHome ==
    ASSUME NEW s, NEW known \in BOOLEAN, NEW c, DOMAIN c \subseteq Places(s, known)
    PROVE  DOMAIN NestConfig(EnsureTypes(s, known, c)) \subseteq Homes(s, known)
<1> DEFINE e == EnsureTypes(s, known, c)
<1>1. DOMAIN e \subseteq Places(s, known)
  BY DEF EnsureTypes, Places
<1>2. \A p \in Places(s, known) : SubSeq(p, 1, 2) \in Homes(s, known)
  BY Cut DEF Places, Homes
<1> HIDE DEF e
<1>3. DOMAIN NestConfig(e) = {SubSeq(p, 1, 2) : p \in Kept(e)} /\ Kept(e) \subseteq DOMAIN e
  BY DEF NestConfig, Kept
<1> QED BY <1>1, <1>2, <1>3 DEF e

-----------------------------------------------------------------------------
(* The dialog *)

LEMMA NewDialogFits ==
    ASSUME registry \in BOOLEAN, globalMode \in Modes
    PROVE  Fits(NewDialog, registry)
BY CreateAssumption, DefaultPlaces DEF NewDialog, Fits, IsDialog

LEMMA ChosenFits ==
    ASSUME Fits(dialog, registry), registry = TRUE, NEW s \in Strategies
    PROVE  Fits(Chosen(s), registry)
<1> DEFINE mode == IF SchemaOf[s].liveOnly THEN "live" ELSE dialog.mode
           config == GetStrategyDefaults(s, registry)
           futures == [of |-> s, edited |-> FALSE]
           sessions == [r \in {r.name : r \in Roles(s)} |-> FirstExchange]
           d == [strategy |-> s, exchange |-> dialog.exchange, mode |-> mode, config |-> config,
                 futures |-> futures, risk |-> dialog.risk, sessions |-> sessions]
<1>1. IsDialog(dialog) BY DEF Fits
<1>2. Chosen(s) = d
  <2>1. Chosen(s) = [dialog EXCEPT !.strategy = s, !.config = config, !.futures = futures,
                                   !.mode = mode, !.sessions = sessions]
    BY DEF Chosen
  <2> HIDE DEF mode, config, futures, sessions
  <2> QED BY <1>1, <2>1 DEF IsDialog
<1>3. /\ DOMAIN config \subseteq Places(s, registry) /\ Typed(s, registry, config)
      /\ futures \in [of : {s}, edited : BOOLEAN]
      /\ SchemaOf[s].liveOnly => mode = "live"
  BY DefaultPlaces
<1>4. Fits(d, registry)
  <2> HIDE DEF mode, config, futures, sessions
  <2> QED BY <1>1, <1>3 DEF Fits, IsDialog
<1> QED BY <1>2, <1>4

LEMMA ConfigFits ==
    ASSUME Fits(dialog, registry), NEW c, DOMAIN c \subseteq Places(dialog.strategy, registry),
           Typed(dialog.strategy, registry, c)
    PROVE  Fits([dialog EXCEPT !.config = c], registry)
<1>1. IsDialog(dialog) BY DEF Fits
<1>2. [dialog EXCEPT !.config = c]
        = [strategy |-> dialog.strategy, exchange |-> dialog.exchange, mode |-> dialog.mode,
           config |-> c, futures |-> dialog.futures, risk |-> dialog.risk,
           sessions |-> dialog.sessions]
  BY <1>1 DEF IsDialog
<1> QED BY <1>1, <1>2 DEF Fits, IsDialog

\* Every edit leaves a dialog that fits.
LEMMA EditsFit ==
    ASSUME registry \in BOOLEAN, dialog # Closed, Fits(dialog, registry),
           \/ HandleStrategyChange \/ ChooseExchange \/ ChooseMode \/ ChooseSession
           \/ EditField \/ EditFutures \/ EditRisk
    PROVE  Fits(dialog', registry)
<1> USE DEF Edit
<1>0. IsDialog(dialog) BY DEF Fits
<1>1. CASE HandleStrategyChange
  <2>1. PICK s \in Offered(registry, FALSE, FALSE) : dialog' = Chosen(s)
    BY <1>1 DEF HandleStrategyChange
  <2>2. registry = TRUE /\ s \in Strategies BY DEF Offered
  <2> QED BY <2>1, <2>2, ChosenFits
<1>2. CASE ChooseExchange
  <2>1. PICK x \in Exchanges : dialog' = [dialog EXCEPT !.exchange = x]
    BY <1>2 DEF ChooseExchange
  <2> QED BY <1>0, <2>1 DEF Fits, IsDialog
<1>3. CASE ChooseMode
  <2>1. PICK m \in Modes :
          /\ ~(registry /\ SchemaOf[dialog.strategy].liveOnly /\ m = "paper")
          /\ dialog' = [dialog EXCEPT !.mode = m]
    BY <1>3 DEF ChooseMode
  <2> QED BY <1>0, <2>1 DEF Fits, IsDialog, Modes
<1>4. CASE ChooseSession
  <2>1. PICK r \in Roles(dialog.strategy), x \in Exchanges :
          dialog' = [dialog EXCEPT !.sessions = [n \in DOMAIN @ \cup {r.name} |->
                                                   IF n = r.name THEN x ELSE @[n]]]
    BY <1>4 DEF ChooseSession
  <2> QED BY <1>0, <2>1 DEF Fits, IsDialog
<1>5. CASE EditField
  <2>1. PICK f \in Fields(dialog.strategy, registry) : \E v \in Entries(f) :
          dialog' = [dialog EXCEPT !.config = HandleChange(dialog.config, f, v)]
    BY <1>5 DEF EditField
  <2>2. PICK v \in Entries(f) : dialog' = [dialog EXCEPT !.config = HandleChange(dialog.config, f, v)]
    BY <2>1
  <2>3. DOMAIN HandleChange(dialog.config, f, v) \subseteq Places(dialog.strategy, registry)
    BY DEF HandleChange, Put, Places, Fits
  <2>4. Typed(dialog.strategy, registry, HandleChange(dialog.config, f, v))
    <3>1. SUFFICES ASSUME NEW g \in Fields(dialog.strategy, registry), g.type = "boolean"
                   PROVE  At(HandleChange(dialog.config, f, v), Flat(g))
                            \in {"unset", "yes", "no", "quotedYes", "quotedNo"}
      BY DEF Typed
    <3>2. CASE Flat(g) = Flat(f)
      <4>1. g = f
        BY <1>0, <3>2, PlacesApart DEF IsDialog
      <4>2. v \in {"yes", "no"}
        BY <3>1, <4>1 DEF Entries
      <4> QED BY <3>2, <4>2 DEF HandleChange, Put, At
    <3>3. CASE Flat(g) # Flat(f)
      <4>1. At(HandleChange(dialog.config, f, v), Flat(g)) = At(dialog.config, Flat(g))
        BY <3>3 DEF HandleChange, Put, At
      <4> QED BY <3>1, <4>1 DEF Fits, Typed
    <3> QED BY <3>2, <3>3
  <2> QED BY <2>2, <2>3, <2>4, ConfigFits
<1>6. CASE EditFutures
  <2>1. dialog' = [dialog EXCEPT !.futures.edited = TRUE]
    BY <1>6 DEF EditFutures
  <2> QED BY <1>0, <2>1 DEF Fits, IsDialog
<1>7. CASE EditRisk
  <2>1. dialog' = [dialog EXCEPT !.risk = IF @ = None THEN dialog.strategy ELSE None]
    BY <1>7 DEF EditRisk
  <2> QED BY <1>0, <2>1 DEF Fits, IsDialog
<1> QED BY <1>1, <1>2, <1>3, <1>4, <1>5, <1>6, <1>7

-----------------------------------------------------------------------------
(* The request *)

\* One session for each role.
LEMMA SessionsFit ==
    ASSUME Fits(dialog, registry)
    PROVE  LET roles == Roles(dialog.strategy)
               made == Sessions(dialog)
           IN /\ {[name |-> s.name, futures |-> s.futures] : s \in made} = roles
              /\ Cardinality(made) = Cardinality(roles)
              /\ dialog.mode = "paper" => \A s \in made : s.exchange = FirstExchange
<1> DEFINE roles == Roles(dialog.strategy)
           made == Sessions(dialog)
           exchange(r) == IF dialog.mode = "paper" \/ r.name \notin DOMAIN dialog.sessions
                          THEN FirstExchange ELSE dialog.sessions[r.name]
           session == [r \in roles |-> [name |-> r.name, futures |-> r.futures,
                                        exchange |-> exchange(r)]]
<1>1. /\ IsFiniteSet(roles)
      /\ \A r \in roles : r = [name |-> r.name, futures |-> r.futures]
  BY SchemaAssumption DEF Fits, IsDialog, IsSchema, Roles
<1>2. made = {session[r] : r \in roles}
  BY DEF Sessions
<1>3. \A r \in roles : /\ session[r].name = r.name /\ session[r].futures = r.futures
                       /\ session[r].exchange = exchange(r)
  OBVIOUS
<1> HIDE DEF roles, made, session, exchange
<1>4. {[name |-> s.name, futures |-> s.futures] : s \in made} = roles
  BY <1>1, <1>2, <1>3
<1>5. ExistsBijection(roles, made)
  <2>1. session \in [roles -> made] /\ DOMAIN session = roles
    BY <1>2 DEF session
  <2>2. \A r, t \in roles : session[r] = session[t] => r = t
    BY <1>1, <1>3
  <2> QED BY <1>2, <2>1, <2>2
       DEF ExistsBijection, Bijection, Injection, Surjection, IsInjective
<1>6. Cardinality(made) = Cardinality(roles)
  BY <1>1, <1>5, FS_Bijection
<1>7. dialog.mode = "paper" => \A s \in made : s.exchange = FirstExchange
  BY <1>2, <1>3 DEF exchange
<1> QED BY <1>4, <1>6, <1>7 DEF roles, made

LEMMA RequestFits ==
    ASSUME registry \in BOOLEAN, Fits(dialog, registry)
    PROVE  Fitting([body |-> Request(dialog), form |-> dialog, known |-> registry])
<1> DEFINE b == Request(dialog)
           row == SchemaOf[dialog.strategy]
           config == NestConfig(EnsureTypes(dialog.strategy, registry, dialog.config))
           sessions == IF registry /\ row.crossExchange THEN Sessions(dialog) ELSE {}
<1>1. /\ b.strategy = dialog.strategy /\ b.mode = dialog.mode /\ b.config = config
      /\ b.exchange = IF registry /\ row.crossExchange THEN None ELSE dialog.exchange
      /\ b.sessions = sessions
      /\ b.futures = IF registry /\ row.requiresFutures /\ ~(registry /\ row.crossExchange)
                     THEN dialog.futures ELSE None
  BY DEF Request
<1>2. DOMAIN config \subseteq Homes(dialog.strategy, registry)
  BY SentAtHome DEF Fits
<1>3. /\ IsDialog(dialog) /\ IsSchema(row)
      /\ registry /\ row.liveOnly => dialog.mode = "live"
  BY SchemaAssumption DEF Fits, IsDialog
<1>4. /\ dialog.exchange # None /\ dialog.futures # None
      /\ dialog.futures.of = dialog.strategy
      /\ row.crossExchange \in BOOLEAN /\ row.requiresFutures \in BOOLEAN
  BY <1>3, CreateAssumption DEF IsDialog, IsSchema
<1>5. registry /\ row.crossExchange =>
        /\ {[name |-> s.name, futures |-> s.futures] : s \in sessions} = row.roles
        /\ Cardinality(sessions) = Cardinality(row.roles)
        /\ dialog.mode = "paper" => \A s \in sessions : s.exchange = FirstExchange
  BY SessionsFit DEF Roles
<1> DEFINE r == [body |-> b, form |-> dialog, known |-> registry]
<1>6. r.body = b /\ r.known = registry
  OBVIOUS
<1> HIDE DEF b, config, sessions, r
<1>7. Fitting(r)
  BY <1>1, <1>2, <1>3, <1>4, <1>5, <1>6 DEF Fitting
<1> QED BY <1>7 DEF r, b

\* What a field holds, on its way through ensureTypes.
LEMMA ValueEnsured ==
    ASSUME registry \in BOOLEAN, Fits(dialog, registry),
           NEW f \in Fields(dialog.strategy, registry)
    PROVE  LET held == At(dialog.config, Flat(f))
               e == EnsureTypes(dialog.strategy, registry, dialog.config)
           IN /\ held \notin {"unset", "empty", "quotedYes", "quotedNo"} =>
                   /\ Flat(f) \in DOMAIN e
                   /\ e[Flat(f)] = Shown(dialog.config, f)
                   /\ Given(e[Flat(f)])
              /\ held = "empty" /\ Flat(f) \in DOMAIN e => e[Flat(f)] = "empty"
<1> DEFINE s == dialog.strategy
           c == dialog.config
           p == Flat(f)
           held == At(c, p)
           booleans == {Flat(g) : g \in {h \in Fields(s, registry) : h.type = "boolean"}}
           emptied == {Flat(g) : g \in {h \in Fields(s, registry) : h.type = "number"
                                                /\ At(c, Flat(h)) = "empty"}}
           e == EnsureTypes(s, registry, c)
<1>1. /\ DOMAIN e = (DOMAIN c \ emptied) \cup booleans
      /\ p \in DOMAIN e => e[p] = IF p \in booleans THEN EnsureBoolean(held) ELSE c[p]
  BY DEF EnsureTypes
<1>2. p \in booleans <=> f.type = "boolean"
  BY PlacesApart DEF Fits, IsDialog
<1>3. p \in emptied => held = "empty"
  BY PlacesApart DEF Fits, IsDialog
<1>4. f.type = "boolean" => held \in {"unset", "yes", "no", "quotedYes", "quotedNo"}
  BY DEF Fits, Typed
<1>5. held # "unset" => p \in DOMAIN c /\ held = c[p]
  BY DEF At
<1>6. held # "unset" =>
        Shown(c, f) = IF f.type # "boolean" THEN held
                      ELSE IF held \in {"no", "zero", "empty"} THEN "no" ELSE "yes"
  BY DEF Shown
<1>7. EnsureBoolean("yes") = "yes" /\ EnsureBoolean("no") = "no"
  BY DEF EnsureBoolean
<1> HIDE DEF s, c, p, held, booleans, emptied, e
<1>8. ASSUME held \notin {"unset", "empty", "quotedYes", "quotedNo"}
      PROVE  p \in DOMAIN e /\ e[p] = Shown(c, f) /\ Given(e[p])
  <2>1. p \in DOMAIN e
    BY <1>1, <1>3, <1>5, <1>8
  <2>2. CASE f.type = "boolean"
    BY <1>1, <1>2, <1>4, <1>6, <1>7, <1>8, <2>1, <2>2 DEF Given
  <2>3. CASE f.type # "boolean"
    BY <1>1, <1>2, <1>5, <1>6, <1>8, <2>1, <2>3 DEF Given
  <2> QED BY <2>1, <2>2, <2>3
<1>9. held = "empty" /\ p \in DOMAIN e => e[p] = "empty"
  BY <1>1, <1>2, <1>4, <1>5
<1> QED BY <1>8, <1>9 DEF held, e, s, c, p

\* Where what a field holds goes: nestConfig takes the plain place of a nested
\* field first, and any other field has one place.
LEMMA ValueSent ==
    ASSUME registry \in BOOLEAN, Fits(dialog, registry)
    PROVE  Telling([body |-> Request(dialog), form |-> dialog, known |-> registry])
<1> DEFINE s == dialog.strategy
           e == EnsureTypes(s, registry, dialog.config)
           sent(f) == At(NestConfig(e), Home(f))
<1>1. /\ DOMAIN e \subseteq Places(s, registry)
      /\ s \in Strategies
  BY DEF EnsureTypes, Places, Fits, IsDialog
<1>2. /\ DOMAIN NestConfig(e) = {SubSeq(p, 1, 2) : p \in Kept(e)}
      /\ \A q \in DOMAIN NestConfig(e) :
            NestConfig(e)[q] = IF Plain(q) \in Kept(e) THEN e[Plain(q)] ELSE e[q]
      /\ Kept(e) = {p \in DOMAIN e : Inside(p) \/ Given(e[p])}
  BY DEF NestConfig, Kept
<1>3. ASSUME NEW f \in Fields(s, registry), Flat(f) \in DOMAIN e, Given(e[Flat(f)])
      PROVE  sent(f) = e[Flat(f)]
  <2>1. Flat(f) \in Kept(e)
    BY <1>2, <1>3
  <2>2. Home(f) \in DOMAIN NestConfig(e)
    BY <1>2, <2>1, Cut
  <2>3. CASE Nested(f)
    <3>1. Plain(Home(f)) = Flat(f)
      BY <2>3 DEF Flat
    <3> QED BY <1>2, <2>1, <2>2, <3>1 DEF At
  <2>4. CASE ~Nested(f)
    <3>1. Plain(Home(f)) \notin Places(s, registry) /\ Home(f) = Flat(f)
      BY <1>1, <2>4, PlacesApart DEF Places, Homes
    <3>2. Plain(Home(f)) \notin Kept(e)
      BY <1>1, <1>2, <3>1
    <3> QED BY <1>2, <2>2, <3>1, <3>2 DEF At
  <2> QED BY <2>3, <2>4
<1>4. ASSUME NEW f \in Fields(s, registry), ~Nested(f),
             Flat(f) \in DOMAIN e => e[Flat(f)] = "empty"
      PROVE  sent(f) = "unset"
  <2>1. Flat(f) = Home(f) /\ ~Inside(Home(f))
    BY <1>4 DEF Flat, Home, Inside, Nested
  <2>2. Home(f) \notin Kept(e)
    BY <1>2, <1>4, <2>1 DEF Given
  <2>3. ASSUME NEW p \in Kept(e), SubSeq(p, 1, 2) = Home(f) PROVE p = Home(f)
    <3>1. PICK g \in Fields(s, registry) : p = Home(g) \/ p = Flat(g)
      BY <1>1, <1>2 DEF Places, Homes
    <3>2. Home(g) = Home(f)
      BY <2>3, <3>1, Cut
    <3> QED BY <1>1, <2>1, <3>1, <3>2, PlacesApart
  <2>4. Home(f) \notin DOMAIN NestConfig(e)
    BY <1>2, <2>2, <2>3
  <2> QED BY <2>4 DEF At
<1>5. /\ Request(dialog).strategy = s /\ Request(dialog).config = NestConfig(e)
  BY DEF Request
<1> HIDE DEF e
<1>6. ASSUME NEW f \in Fields(s, registry)
      PROVE  LET held == At(dialog.config, Flat(f))
             IN /\ held \notin {"unset", "empty", "quotedYes", "quotedNo"}
                     => sent(f) = Shown(dialog.config, f)
                /\ held = "empty" /\ ~Nested(f) => sent(f) = "unset"
  BY <1>3, <1>4, <1>6, ValueEnsured DEF e
<1> HIDE DEF s
<1> QED BY <1>5, <1>6 DEF Telling

\* Writing what was sent into the form's objects keeps its places.
LEMMA NestingFits ==
    ASSUME registry \in BOOLEAN, Fits(dialog, registry)
    PROVE  Fits(AfterNesting(dialog), registry)
<1> DEFINE sent == Request(dialog).config
           objects == {p[1] : p \in {q \in DOMAIN dialog.config : Inside(q)}}
           written == {p \in DOMAIN sent : p[1] \in objects}
           config == [p \in DOMAIN dialog.config \cup written |->
                        IF p \in written THEN sent[p] ELSE dialog.config[p]]
<1>1. AfterNesting(dialog) = [dialog EXCEPT !.config = config]
  BY DEF AfterNesting, Fits, IsDialog
<1>2. DOMAIN sent \subseteq Places(dialog.strategy, registry)
  BY SentAtHome DEF Request, Fits, Places
<1>3. DOMAIN config \subseteq Places(dialog.strategy, registry)
  BY <1>2 DEF Fits
<1>4. Typed(dialog.strategy, registry, config)
  <2>1. SUFFICES ASSUME NEW f \in Fields(dialog.strategy, registry), f.type = "boolean"
                 PROVE  At(config, Flat(f)) = At(dialog.config, Flat(f))
    BY DEF Fits, Typed
  <2>2. Flat(f) \notin written
    <3>1. CASE Nested(f)
      <4>1. DOMAIN sent \subseteq Homes(dialog.strategy, registry)
        BY SentAtHome DEF Request, Fits
      <4>2. \A g \in Fields(dialog.strategy, registry) : Flat(f) # Home(g)
        BY <3>1, PlacesApart DEF Fits, IsDialog
      <4> HIDE DEF sent
      <4> QED BY <4>1, <4>2 DEF Homes
    <3>2. CASE ~Nested(f)
      <4>1. Flat(f)[1] = ""
        BY <3>2 DEF Flat, Home, Nested
      <4>2. "" \notin objects
        BY DEF Inside
      <4> HIDE DEF sent, objects
      <4> QED BY <4>1, <4>2
    <3> QED BY <3>1, <3>2
  <2> HIDE DEF written
  <2> QED BY <2>2 DEF At
<1> HIDE DEF config
<1> QED BY <1>1, <1>3, <1>4, ConfigFits

-----------------------------------------------------------------------------
(* The invariants *)

LEMMA InitHolds == Init => IInv /\ ConfirmIsPending
BY DEF Init, IInv, ConfirmIsPending

\* Nothing but the registry's arrival and edits touches an open dialog.
LEMMA RegistryHolds == IInv /\ RegistryArrives => IInv'
<1> SUFFICES ASSUME IInv, RegistryArrives PROVE IInv'
  OBVIOUS
<1> USE DEF RegistryArrives, form
<1>1. registry' = TRUE /\ dialog' = dialog /\ request' = request /\ globalMode' = globalMode
  OBVIOUS
<1>2. ASSUME dialog # Closed PROVE Fits(dialog, TRUE)
  <2>1. Fits(dialog, FALSE)
    BY <1>2 DEF IInv
  <2> QED BY <2>1, MorePlaces, CreateAssumption DEF Fits
<1> QED BY <1>1, <1>2 DEF IInv

LEMMA StepHolds == IInv /\ [Next]_vars => IInv'
<1> SUFFICES ASSUME IInv, [Next]_vars PROVE IInv'
  OBVIOUS
<1> USE DEF IInv
<1>1. CASE Open
  BY <1>1, NewDialogFits DEF Open
<1>2. CASE \/ HandleStrategyChange \/ ChooseExchange \/ ChooseMode \/ ChooseSession
           \/ EditField \/ EditFutures \/ EditRisk
  <2>1. dialog # Closed /\ UNCHANGED <<registry, globalMode, request>>
    BY <1>2 DEF HandleStrategyChange, ChooseExchange, ChooseMode, ChooseSession, EditField,
                EditFutures, EditRisk, Edit
  <2>2. Fits(dialog', registry)
    BY <1>2, <2>1, EditsFit
  <2> QED BY <2>1, <2>2
<1>3. CASE HandleSubmit
  <2>1. dialog # Closed /\ dialog' = AfterNesting(dialog) /\ UNCHANGED <<registry, globalMode>>
    BY <1>3 DEF HandleSubmit
  <2>2. request' = [body |-> Request(dialog), form |-> dialog, known |-> registry]
    BY <1>3 DEF HandleSubmit
  <2> QED BY <2>1, <2>2, RequestFits, ValueSent, NestingFits
<1>4. CASE Close \/ Created
  BY <1>4 DEF Close, Created
<1>5. CASE \/ CreatedUnseen \/ CreateFails \/ Poll \/ ManagerLists \/ ListArrives
           \/ OnDelete \/ CancelDelete \/ ConfirmDelete \/ Deleted \/ UNCHANGED vars
  BY <1>5 DEF CreatedUnseen, CreateFails, Poll, ManagerLists, ListArrives, OnDelete,
              CancelDelete, ConfirmDelete, Deleted, vars, form
<1>6. CASE RegistryArrives
  BY <1>6, RegistryHolds
<1> QED BY <1>1, <1>2, <1>3, <1>4, <1>5, <1>6 DEF Next

\* A confirmation is opened only with no deletion on its way, and a deletion is
\* begun from the confirmation open then.
LEMMA ConfirmHolds == ConfirmIsPending /\ [Next]_vars => ConfirmIsPending'
<1> SUFFICES ASSUME ConfirmIsPending, [Next]_vars PROVE ConfirmIsPending'
  OBVIOUS
<1> USE DEF ConfirmIsPending
<1>1. CASE OnDelete \/ CancelDelete \/ ConfirmDelete \/ Deleted
  BY <1>1 DEF OnDelete, CancelDelete, ConfirmDelete, Deleted
<1>2. ASSUME UNCHANGED removal PROVE ConfirmIsPending'
  BY <1>2 DEF removal
<1>3. CASE Open \/ HandleSubmit \/ Close \/ Created \/ CreatedUnseen \/ CreateFails \/ Poll
        \/ ManagerLists \/ ListArrives \/ RegistryArrives \/ UNCHANGED vars
  BY <1>2, <1>3 DEF Open, HandleSubmit, Close, Created, CreatedUnseen, CreateFails, Poll,
                    ManagerLists, ListArrives, RegistryArrives, vars
<1>4. CASE \/ HandleStrategyChange \/ ChooseExchange \/ ChooseMode \/ ChooseSession
           \/ EditField \/ EditFutures \/ EditRisk
  BY <1>2, <1>4 DEF HandleStrategyChange, ChooseExchange, ChooseMode, ChooseSession, EditField,
                    EditFutures, EditRisk, Edit
<1> QED BY <1>1, <1>3, <1>4 DEF Next

-----------------------------------------------------------------------------
(* The theorems *)

\* Every request made of CreateStrategyDialog's form fits the strategy it
\* names, whatever was chosen before and whenever the registry came.
THEOREM CreationsFit == Spec => []CreationFits
<1>1. IInv => CreationFits
  BY DEF IInv, Fitting, CreationFits, Homes
<1> QED BY <1>1, InitHolds, StepHolds, PTL DEF Spec

\* What is sent for a parameter is what StrategyConfigForm shows, through
\* ensureTypes and nestConfig, but for the cases SentIsShown leaves out.
THEOREM RequestTellsForm == Spec => []SentIsShown
<1>1. IInv => SentIsShown
  BY DEF IInv, Telling, SentIsShown
<1> QED BY <1>1, InitHolds, StepHolds, PTL DEF Spec

\* The answer to a deletion, which closes the confirmation of the bots page
\* that is open then, closes the one it answers.
THEOREM ConfirmIsOwn == Spec => []ConfirmIsPending
BY InitHolds, ConfirmHolds, PTL DEF Spec
=============================================================================
