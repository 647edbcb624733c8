------------------------------ MODULE CreateBot ------------------------------
(***************************************************************************)
(* The page of the bots: its list, the dialog that creates one, and the    *)
(* confirmation that deletes one.                                          *)
(*                                                                         *)
(* The dialog is unmounted when it closes; a creation that is still on its *)
(* way then goes on, and its answer closes nothing.  Names of bots are     *)
(* left out: any non-empty text is accepted.                               *)
(***************************************************************************)
EXTENDS StrategyForms

CONSTANTS FirstStrategy,  \* grid2
          FirstExchange,  \* binance: the first choice, and every default
          Exchanges,
          None, Closed, Idle, Asked,
          MaxEdits,       \* bound: things the user does in dialogs
          MaxBots,        \* bound: bots ever created
          MaxFailures     \* bound: requests that fail

ASSUME CreateAssumption ==
    /\ FirstStrategy \in Strategies /\ FirstExchange \in Exchanges
    /\ None \notin Exchanges /\ None \notin [of : Strategies, edited : BOOLEAN]
    /\ ~SchemaOf[FirstStrategy].liveOnly /\ ~SchemaOf[FirstStrategy].crossExchange
    /\ MaxEdits \in Nat /\ MaxBots \in Nat /\ MaxFailures \in Nat

VARIABLES globalMode,   \* the trading mode of the page
          registry,     \* the strategy registry has come
          dialog,       \* the open dialog's fields, or Closed
          pending,      \* the open dialog waits for an answer
          orphans,      \* creations whose dialog was closed
          request,      \* the creation sent last, with the form it was sent from, or None
          bots,         \* the server's bots
          list, listing,   \* the list shown, and the answer on its way
          confirm, deleting, \* the bot the confirmation names, the one being deleted
          edits, failures

form == <<dialog, pending, orphans, request>>
removal == <<confirm, deleting>>
lists == <<list, listing>>
vars == <<globalMode, registry, form, bots, lists, removal, edits, failures>>

Modes == {"live", "paper"}
BotIds == 1..MaxBots
Roles(s) == SchemaOf[s].roles

TypeOK ==
    /\ globalMode \in Modes /\ registry \in BOOLEAN
    /\ dialog = Closed \/ dialog.strategy \in Strategies
    /\ pending \in BOOLEAN
    /\ orphans \in 0..MaxBots
    /\ bots \subseteq BotIds /\ list \subseteq BotIds
    /\ confirm \in BotIds \cup {None} /\ deleting \in BotIds \cup {None}
    /\ edits \in 0..MaxEdits /\ failures \in 0..MaxFailures

-----------------------------------------------------------------------------
(* The dialog. *)

\* The futures fields hold one value set for some strategy; the risk fields
\* one positive value set while some strategy was chosen.
NewDialog ==
    [strategy |-> FirstStrategy, exchange |-> FirstExchange, mode |-> globalMode,
     config |-> GetStrategyDefaults(FirstStrategy, registry),
     futures |-> [of |-> FirstStrategy, edited |-> FALSE], risk |-> None,
     sessions |-> [r \in {} |-> FirstExchange]]

Open ==
    /\ dialog = Closed /\ edits < MaxEdits
    /\ dialog' = NewDialog
    /\ pending' = FALSE
    /\ edits' = edits + 1
    /\ UNCHANGED <<globalMode, registry, orphans, request, bots, lists, removal, failures>>

Edit(d) ==
    /\ edits < MaxEdits
    /\ dialog' = d
    /\ edits' = edits + 1
    /\ UNCHANGED <<globalMode, registry, pending, orphans, request, bots, lists, removal,
                   failures>>

\* Mutant: a live-only strategy does not set the mode.
ChosenKeepingMode(s) ==
    [dialog EXCEPT !.strategy = s,
                   !.config = GetStrategyDefaults(s, registry),
                   !.futures = [of |-> s, edited |-> FALSE],
                   !.sessions = [r \in {r.name : r \in Roles(s)} |-> FirstExchange]]

\* handleStrategyChange.  The risk fields and the exchange stay.
Chosen(s) ==
    [dialog EXCEPT !.strategy = s,
                   !.config = GetStrategyDefaults(s, registry),
                   !.futures = [of |-> s, edited |-> FALSE],
                   !.mode = IF SchemaOf[s].liveOnly THEN "live" ELSE @,
                   !.sessions = [r \in {r.name : r \in Roles(s)} |-> FirstExchange]]

HandleStrategyChange ==
    /\ dialog # Closed
    /\ \E s \in Offered(registry, FALSE, FALSE) \ {dialog.strategy} : Edit(Chosen(s))

ChooseExchange ==
    /\ dialog # Closed
    /\ ~(registry /\ SchemaOf[dialog.strategy].crossExchange)
    /\ \E x \in Exchanges \ {dialog.exchange} : Edit([dialog EXCEPT !.exchange = x])

\* The radio for paper is disabled for a live-only strategy.
ChooseMode ==
    /\ dialog # Closed
    /\ \E m \in Modes \ {dialog.mode} :
          /\ ~(registry /\ SchemaOf[dialog.strategy].liveOnly /\ m = "paper")
          /\ Edit([dialog EXCEPT !.mode = m])

ChooseSession ==
    /\ dialog # Closed
    /\ registry /\ SchemaOf[dialog.strategy].crossExchange
    /\ \E r \in Roles(dialog.strategy), x \in Exchanges :
          Edit([dialog EXCEPT !.sessions = [n \in DOMAIN @ \cup {r.name} |->
                                              IF n = r.name THEN x ELSE @[n]]])

EditField ==
    /\ dialog # Closed
    /\ \E f \in Fields(dialog.strategy, registry) : \E v \in Entries(f) :
          Edit([dialog EXCEPT !.config = HandleChange(@, f, v)])

\* FuturesConfigFields, shown for strategies that need futures.
EditFutures ==
    /\ dialog # Closed
    /\ registry /\ SchemaOf[dialog.strategy].requiresFutures
    /\ Edit([dialog EXCEPT !.futures.edited = TRUE])

\* RiskConfigFields: a positive number, or nothing again.
EditRisk ==
    /\ dialog # Closed
    /\ Edit([dialog EXCEPT !.risk = IF @ = None THEN dialog.strategy ELSE None])

-----------------------------------------------------------------------------
(* The request. *)

\* The fields handleSubmit itself finds missing: required ones without a value
\* and without a default to fall back on.
MissingFields(d) ==
    {f \in Fields(d.strategy, registry) :
        /\ f.required
        /\ At(d.config, Flat(f)) \in {"unset", "empty", "zero"}
        /\ f.default \in {"empty", "zero"}}

\* A role without a choice is given the first exchange; paper trades on it only.
Sessions(d) ==
    {[name |-> r.name, futures |-> r.futures,
      exchange |-> IF d.mode = "paper" \/ r.name \notin DOMAIN d.sessions
                   THEN FirstExchange ELSE d.sessions[r.name]] : r \in Roles(d.strategy)}

Request(d) ==
    LET cross == registry /\ SchemaOf[d.strategy].crossExchange
        config == NestConfig(EnsureTypes(d.strategy, registry, d.config))
    IN [strategy |-> d.strategy, mode |-> d.mode, config |-> config, risk |-> d.risk,
        exchange |-> IF cross THEN None ELSE d.exchange,
        sessions |-> IF cross THEN Sessions(d) ELSE {},
        futures |-> IF registry /\ SchemaOf[d.strategy].requiresFutures /\ ~cross
                    THEN d.futures ELSE None]

\* nestConfig writes into the objects of the form's own state: what the form
\* holds for "a.b" inside "a" is afterwards what was sent.
AfterNesting(d) ==
    LET sent == Request(d).config
        objects == {p[1] : p \in {q \in DOMAIN d.config : Inside(q)}}
        written == {p \in DOMAIN sent : p[1] \in objects}
    IN [d EXCEPT !.config = [p \in DOMAIN @ \cup written |->
                               IF p \in written THEN sent[p] ELSE @[p]]]

\* The button is disabled while the dialog waits.
HandleSubmit ==
    /\ dialog # Closed /\ ~pending
    /\ Submittable(dialog.config, dialog.strategy, registry)
    /\ MissingFields(dialog) = {}
    /\ Cardinality(bots) + orphans < MaxBots
    /\ pending' = TRUE
    /\ request' = [body |-> Request(dialog), form |-> dialog, known |-> registry]
    /\ dialog' = AfterNesting(dialog)
    /\ UNCHANGED <<globalMode, registry, orphans, bots, lists, removal, edits, failures>>

\* Cancel, Escape or a click beside the dialog.
Close ==
    /\ dialog # Closed
    /\ dialog' = Closed
    /\ pending' = FALSE
    /\ orphans' = IF pending THEN orphans + 1 ELSE orphans
    /\ UNCHANGED <<globalMode, registry, request, bots, lists, removal, edits, failures>>

NextId == CHOOSE b \in BotIds \ bots : TRUE

\* The server creates the bot; onSuccess invalidates the lists and closes.
Created ==
    /\ dialog # Closed /\ pending /\ bots # BotIds
    /\ bots' = bots \cup {NextId}
    /\ dialog' = Closed
    /\ pending' = FALSE
    /\ listing' = Asked
    /\ UNCHANGED <<globalMode, registry, orphans, request, list, removal, edits, failures>>

\* The same without a dialog to close; what it warns of is lost.
CreatedUnseen ==
    /\ orphans > 0 /\ bots # BotIds
    /\ bots' = bots \cup {NextId}
    /\ orphans' = orphans - 1
    /\ listing' = Asked
    /\ UNCHANGED <<globalMode, registry, dialog, pending, request, list, removal, edits,
                   failures>>

\* An error, or an answer that is lost: the bot may have been created.
CreateFails ==
    /\ failures < MaxFailures
    /\ bots' \in {bots} \cup (IF bots = BotIds THEN {} ELSE {bots \cup {NextId}})
    /\ \/ dialog # Closed /\ pending /\ pending' = FALSE /\ UNCHANGED orphans
       \/ orphans > 0 /\ orphans' = orphans - 1 /\ UNCHANGED pending
    /\ failures' = failures + 1
    /\ UNCHANGED <<globalMode, registry, dialog, request, lists, removal, edits>>

-----------------------------------------------------------------------------
(* The list and the confirmation. *)

\* Every 15 s, after an invalidation, and at first, the list is asked for.
Poll ==
    /\ listing = Idle
    /\ listing' = Asked
    /\ UNCHANGED <<globalMode, registry, form, bots, list, removal, edits, failures>>

ManagerLists ==
    /\ listing = Asked
    /\ listing' = bots
    /\ UNCHANGED <<globalMode, registry, form, bots, list, removal, edits, failures>>

ListArrives ==
    /\ listing \notin {Idle, Asked}
    /\ list' = listing
    /\ listing' = Idle
    /\ UNCHANGED <<globalMode, registry, form, bots, removal, edits, failures>>

\* Mutant: the bin is enabled while a deletion is on its way.
OnDeleteUnguarded ==
    /\ dialog = Closed /\ confirm = None
    /\ \E b \in list : confirm' = b
    /\ UNCHANGED <<globalMode, registry, form, bots, lists, deleting, edits, failures>>

\* The bin beside a bot, disabled while a deletion is on its way.
OnDelete ==
    /\ dialog = Closed /\ confirm = None /\ deleting = None
    /\ \E b \in list : confirm' = b
    /\ UNCHANGED <<globalMode, registry, form, bots, lists, deleting, edits, failures>>

CancelDelete ==
    /\ confirm # None
    /\ confirm' = None
    /\ UNCHANGED <<globalMode, registry, form, bots, lists, deleting, edits, failures>>

ConfirmDelete ==
    /\ confirm # None /\ deleting = None
    /\ deleting' = confirm
    /\ UNCHANGED <<globalMode, registry, form, bots, lists, confirm, edits, failures>>

\* The answer, good or not, closes the confirmation; a good one invalidates the lists.
Deleted ==
    /\ deleting # None
    /\ deleting' = None
    /\ confirm' = None
    /\ \/ bots' = bots \ {deleting} /\ listing' = Asked /\ UNCHANGED failures
       \/ failures < MaxFailures /\ failures' = failures + 1 /\ UNCHANGED <<bots, listing>>
    /\ UNCHANGED <<globalMode, registry, form, list, edits>>

RegistryArrives ==
    /\ ~registry
    /\ registry' = TRUE
    /\ UNCHANGED <<globalMode, form, bots, lists, removal, edits, failures>>

Init ==
    /\ globalMode \in Modes /\ registry \in BOOLEAN
    /\ dialog = Closed /\ pending = FALSE /\ orphans = 0 /\ request = None
    /\ bots = {} /\ list = {} /\ listing = Asked
    /\ confirm = None /\ deleting = None
    /\ edits = 0 /\ failures = 0

Next ==
    \/ Open \/ HandleStrategyChange \/ ChooseExchange \/ ChooseMode \/ ChooseSession
    \/ EditField \/ EditFutures \/ EditRisk
    \/ HandleSubmit \/ Close \/ Created \/ CreatedUnseen \/ CreateFails
    \/ Poll \/ ManagerLists \/ ListArrives
    \/ OnDelete \/ CancelDelete \/ ConfirmDelete \/ Deleted
    \/ RegistryArrives

Spec == Init /\ [][Next]_vars

-----------------------------------------------------------------------------
(* Properties *)

\* A bot is asked for only as its strategy can run: a live-only one live, one
\* across exchanges with one session for each role, all on the first exchange on
\* paper, one on futures with futures settings made for it, and none with a
\* parameter of another strategy, whatever was chosen before it.
CreationFits ==
    request # None =>
       LET r == request
           b == r.body
           row == SchemaOf[b.strategy]
       IN /\ DOMAIN b.config \subseteq {Home(f) : f \in Fields(b.strategy, r.known)}
          /\ r.known =>
               /\ row.liveOnly => b.mode = "live"
               /\ (b.exchange = None) = row.crossExchange
               /\ row.crossExchange =>
                    /\ {[name |-> s.name, futures |-> s.futures] : s \in b.sessions} = row.roles
                    /\ Cardinality(b.sessions) = Cardinality(row.roles)
                    /\ b.mode = "paper" => \A s \in b.sessions : s.exchange = FirstExchange
               /\ ~row.crossExchange => (b.futures # None) = row.requiresFutures
               /\ b.futures # None => b.futures.of = b.strategy

\* The value sent for a field is the one the form shows when it is submitted,
\* and a field shown empty is not sent.  Left out: a field the form has no value
\* for, checkboxes with a quoted default, and an "a.b" shown empty, where the
\* code does otherwise (README, "Disagreements"), and the digits of a number
\* beyond the ten a field shows (StrategyConfigForm.tsx:25).
SentIsShown ==
    request # None =>
     \A f \in Fields(request.body.strategy, request.known) :
       LET r == request
           held == At(r.form.config, Flat(f))
           shown == Shown(r.form.config, f)
           sent == At(r.body.config, Home(f))
       IN /\ held \notin {"unset", "empty", "quotedYes", "quotedNo"} => sent = shown
          /\ held = "empty" /\ ~Nested(f) => sent = "unset"

\* The confirmation that is open while a deletion is on its way is that
\* deletion's own: the answer, which closes whichever is open, never closes the
\* question about another bot.
ConfirmIsPending ==
    deleting # None /\ confirm # None => confirm = deleting
=============================================================================
