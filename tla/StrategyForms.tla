---------------------------- MODULE StrategyForms ----------------------------
(***************************************************************************)
(* The parameter form that the dialog for a new bot and the backtest panel *)
(* share, and the functions of strategies.ts between the registry, the     *)
(* form and the request.                                                   *)
(*                                                                         *)
(* A configuration maps places to values.  The place of a field with a     *)
(* plain key is <<"", key>>; a field "a.b" has two: <<"a", "b">>, inside   *)
(* the object "a", where its default is put, and the plain "a.b",          *)
(* <<"a", "b", "plain">>, which the form reads and writes.  A value is     *)
(* known by what the code asks of it.                                      *)
(***************************************************************************)
EXTENDS Integers, FiniteSets, Sequences

CONSTANTS Strategies,  \* ids in the registry
          SchemaOf     \* id -> its row

Types == {"number", "text", "select", "boolean"}

\* "num": a number, or text that reads as one; "quotedYes" and "quotedNo": the
\* texts "true" and "false", which some registry rows have for defaults.
Values == {"num", "zero", "typed", "empty", "text", "yes", "no", "quotedYes", "quotedNo"}

IsField(f) ==
    /\ f.type \in Types /\ f.default \in Values /\ f.required \in BOOLEAN
    /\ f.type = "boolean" => f.default \in {"yes", "no", "quotedYes", "quotedNo"}

\* registryRowToSchema: the columns, null read as empty or false.
\* Of the rows in the migrations each has one field for a key, and each checkbox
\* has a default.
IsSchema(row) ==
    /\ \A f \in row.fields : IsField(f)
    /\ \A f, g \in row.fields : f.parent = g.parent /\ f.key = g.key => f = g
    /\ row.liveOnly \in BOOLEAN /\ row.crossExchange \in BOOLEAN /\ row.requiresFutures \in BOOLEAN
    /\ IsFiniteSet(row.roles)
    /\ row.roles \subseteq [name : {r.name : r \in row.roles}, futures : BOOLEAN]
    /\ row.crossExchange => row.roles # {}

ASSUME SchemaAssumption == \A s \in Strategies : IsSchema(SchemaOf[s])

\* getStrategySchema: no schema, and so no fields, before the registry has come.
Fields(s, loaded) == IF loaded THEN SchemaOf[s].fields ELSE {}

Nested(f) == f.parent # ""
Home(f) == <<f.parent, f.key>>
Plain(p) == Append(p, "plain")
Flat(f) == IF Nested(f) THEN Plain(Home(f)) ELSE Home(f)
Inside(p) == p[1] # "" /\ Len(p) = 2

\* getStrategyDefaults, with setNestedValue.
GetStrategyDefaults(s, loaded) ==
    [p \in {Home(f) : f \in Fields(s, loaded)} |->
        (CHOOSE f \in Fields(s, loaded) : Home(f) = p).default]

At(config, p) == IF p \in DOMAIN config THEN config[p] ELSE "unset"
Put(config, p, v) == [q \in DOMAIN config \cup {p} |-> IF q = p THEN v ELSE config[q]]

\* handleChange of StrategyConfigForm: the values as rendered, with one changed.
HandleChange(values, f, v) == Put(values, Flat(f), v)

\* What the user may enter: a checkbox is on or off, a select has options, any
\* other field is text and can be emptied; a number is read when it is left.
Entries(f) == CASE f.type = "boolean" -> {"yes", "no"}
                [] f.type = "select" -> {"typed"}
                [] f.type = "number" -> {"typed", "zero", "empty"}
                [] f.type = "text" -> {"typed", "empty"}

\* FieldInput: the value or else the default; a checkbox is on for any text.
Shown(values, f) ==
    LET v == IF At(values, Flat(f)) = "unset" THEN f.default ELSE At(values, Flat(f))
    IN IF f.type # "boolean" THEN v
       ELSE IF v \in {"no", "zero", "empty"} THEN "no" ELSE "yes"

\* The browser submits no form with an empty required input.
Submittable(values, s, loaded) ==
    \A f \in Fields(s, loaded) :
       f.required /\ f.type # "boolean" => Shown(values, f) # "empty"

EnsureBoolean(v) ==
    CASE v \in {"yes", "quotedYes"} -> "yes"
      [] v \in {"no", "quotedNo", "unset"} -> "no"

\* ensureTypes: empty numbers are removed, booleans made booleans.
EnsureTypes(s, loaded, config) ==
    LET fields == Fields(s, loaded)
        booleans == {Flat(f) : f \in {g \in fields : g.type = "boolean"}}
        emptied == {Flat(f) : f \in {g \in fields : g.type = "number"
                                                    /\ At(config, Flat(g)) = "empty"}}
    IN [p \in (DOMAIN config \ emptied) \cup booleans |->
          IF p \in booleans THEN EnsureBoolean(At(config, p)) ELSE config[p]]

Given(v) == v \notin {"unset", "empty"}

Kept(config) == {p \in DOMAIN config : Inside(p) \/ Given(config[p])}

\* Mutant: what is inside the object wins over the plain "a.b".
NestConfigUnderDefaults(config) ==
    [q \in {SubSeq(p, 1, 2) : p \in Kept(config)} |->
       IF q \in Kept(config) THEN config[q] ELSE config[Plain(q)]]

\* nestConfig: a plain value is left out when empty, and a plain "a.b" goes into
\* "a", over what is there; what is there is taken as it is.
NestConfig(config) ==
    [q \in {SubSeq(p, 1, 2) : p \in Kept(config)} |->
       IF Plain(q) \in Kept(config) THEN config[Plain(q)] ELSE config[q]]

\* getStrategiesByCategory, as the set it offers.
Offered(loaded, excludeLiveOnly, excludeCross) ==
    IF ~loaded THEN {}
    ELSE {s \in Strategies : /\ ~(excludeLiveOnly /\ SchemaOf[s].liveOnly)
                             /\ ~(excludeCross /\ SchemaOf[s].category = "cross-exchange")}
=============================================================================
