------------------------------ MODULE UserArea ------------------------------
(***************************************************************************)
(* A browser's session: which page the proxy and the user layout let it    *)
(* see, what a refused call to the manager does to it, and the two lists   *)
(* of the settings, of exchange keys (a query) and of notification         *)
(* channels (kept by their page), with the calls that change them.         *)
(*                                                                         *)
(* Every call goes through the route that asks for the user first.  Only   *)
(* this browser changes the lists.                                         *)
(***************************************************************************)
EXTENDS Integers, FiniteSets

CONSTANTS None,
          MaxActs,     \* bound: things the user does
          MaxMade,     \* bound: keys and channels made
          MaxFailures  \* bound: outages, errors and lost answers

ASSUME AreaAssumption == MaxActs \in Nat /\ MaxMade \in Nat /\ MaxFailures \in Nat

UserPages == {"user", "keys", "notes"}
AuthPages == {"login", "signup"}
Pages == UserPages \cup AuthPages \cup {"home", "missing", "error"}
FormsOf(p) == CASE p = "keys" -> {"key"}
                [] p = "notes" -> {"telegram", "slack"}
                [] OTHER -> {}

VARIABLES locale,       \* "default" has no prefix in its paths
          signedIn,     \* the auth service knows the session
          page,
          message,      \* sessionStorage: the session has expired
          timer,        \* where the pending setTimeout goes, or None
          calls,        \* calls to the manager
          server,       \* the manager's lists
          keys,         \* the query of the keys
          notes,        \* the state of the page of the channels
          forms, confirm,  \* open forms; the row a confirmation asks about
          raced,        \* a change came after an answer still to land, or was heard by nobody
          made, acts, failures

session == <<locale, signedIn>>
screen == <<forms, confirm>>
lists == <<keys, notes, raced>>
vars == <<session, page, message, timer, calls, server, lists, screen, made, acts, failures>>

Call(op, id, form) ==
    [op |-> op, id |-> id, form |-> form, st |-> "sent", ear |-> "page", body |-> {}]

Flying(op) == {c \in calls : c.op = op /\ c.ear # "none"}
NoKeys == [data |-> None, invalid |-> FALSE]

-----------------------------------------------------------------------------
(* Pages. *)

\* getUser: the session's answer or, in an outage, no user or an exception.
Answers(in) == {IF in THEN "user" ELSE "none"}
               \cup (IF failures < MaxFailures THEN {"none", "throws"} ELSE {})

\* updateSession: after an exception the page is let through.
UpdateSession(path, answer) ==
    CASE path \in UserPages \cup {"user/login"} /\ answer = "none" -> "login"
      [] path \in AuthPages /\ answer = "user" -> "user"
      [] OTHER -> path

\* UserLayout asks again when it is mounted; a page changed under it keeps it.
UserLayout(path, answer) ==
    CASE path \in UserPages /\ answer = "none" -> "login"
      [] path \in UserPages /\ answer = "throws" -> "error"
      [] path = "user/login" -> "missing"
      [] OTHER -> path

Sees(path, first, second) == UserLayout(UpdateSession(path, first), second)

\* A page is opened.  Of a call the page left behind made, only the query cache
\* and request() hear the answer, and after a reload nothing does; a reload ends
\* the timer and empties the cache.  The keys are loaded when
\* there are none, or they are invalid or older than a minute.
Go(path, in, reload) ==
    \E first \in Answers(in), aged \in BOOLEAN :
    \E second \in IF page \in UserPages /\ ~reload THEN {"user"} ELSE Answers(in) :
      LET seen == Sees(path, first, second)
          usual == IF in THEN "user" ELSE "none"
          left == {[c EXCEPT !.ear = IF reload \/ @ = "none" THEN "none" ELSE "cache"] : c \in calls}
          kept == IF reload THEN NoKeys ELSE keys
          load == CASE seen = "keys" /\ {c \in left : c.op = "loadKeys" /\ c.ear # "none"} = {}
                       /\ (kept.data = None \/ kept.invalid \/ aged) -> {Call("loadKeys", 0, "")}
                    [] seen = "notes" -> {Call("loadNotes", 0, "")}
                    [] OTHER -> {}
      IN /\ page' = seen
         /\ message' = (message /\ seen # "login")
         /\ timer' = IF reload THEN None ELSE timer
         /\ calls' = left \cup load
         /\ keys' = kept
         /\ notes' = {}
         /\ forms' = {} /\ confirm' = None
         /\ raced' = (raced /\ ~reload)
         /\ failures' = IF first = usual /\ second \in {usual, "user"} THEN failures
                       ELSE failures + 1

Act == acts < MaxActs /\ acts' = acts + 1

Navigate ==
    /\ Act
    /\ \E path \in UserPages \cup AuthPages \cup {"home"}, reload \in BOOLEAN :
          Go(path, signedIn, reload)
    /\ UNCHANGED <<session, server, made>>

\* signInAction: a wrong password or an outage changes nothing.
SignInAction ==
    /\ Act /\ page = "login"
    /\ signedIn' = TRUE
    /\ Go("user", TRUE, FALSE)
    /\ UNCHANGED <<locale, server, made>>

\* signUpAction: the service may sign the new user in at once.
SignUpAction ==
    /\ Act /\ page = "signup"
    /\ signedIn' \in {signedIn, TRUE}
    /\ Go("login", signedIn', FALSE)
    /\ UNCHANGED <<locale, server, made>>

\* The link of a mail: to "/", signed in, or to /auth/login, which is no page.
Confirm ==
    /\ Act
    /\ \/ signedIn' = TRUE /\ Go("home", TRUE, TRUE)
       \/ UNCHANGED signedIn /\ Go("missing", signedIn, TRUE)
    /\ UNCHANGED <<locale, server, made>>

\* An outage keeps the session.
HandleSignOut ==
    /\ Act /\ page \in UserPages
    /\ signedIn' \in {FALSE, signedIn}
    /\ Go("login", signedIn', FALSE)
    /\ UNCHANGED <<locale, server, made>>

\* The session ends elsewhere.
Expire ==
    /\ signedIn
    /\ signedIn' = FALSE
    /\ UNCHANGED <<locale, page, message, timer, calls, server, lists, screen, made, acts, failures>>

TimerFires ==
    /\ timer # None
    /\ Go(timer, signedIn, TRUE)
    /\ UNCHANGED <<session, server, made, acts>>

-----------------------------------------------------------------------------
(* Calls. *)

Changed(c) ==
    CASE c.op = "addKey" -> [server EXCEPT !.keys = @ \cup {c.id}]
      [] c.op = "dropKey" -> [server EXCEPT !.keys = @ \ {c.id}]
      [] c.op = "addNote" -> [server EXCEPT !.notes = @ \cup {c.id}]
      [] c.op = "dropNote" -> [server EXCEPT !.notes = @ \ {c.id}]
      [] OTHER -> server

Body(c) == CASE c.op = "loadKeys" -> server.keys
             [] c.op = "loadNotes" -> server.notes
             [] OTHER -> {}

\* handleRequest: 401 without a user, 503 after an exception, else the manager's
\* answer, which may be an error or be lost.
HandleRequest ==
    \E c \in {d \in calls : d.st = "sent"}, answer \in Answers(signedIn), fails \in BOOLEAN :
      LET spent == (signedIn /\ answer # "user") \/ answer = "throws" \/ fails
          st == CASE answer = "none" -> "401"
                  [] answer = "user" /\ ~fails -> "ok"
                  [] OTHER -> "error"
      IN /\ spent => failures < MaxFailures
         /\ failures' = IF spent THEN failures + 1 ELSE failures
         /\ server' \in {IF answer = "user" THEN Changed(c) ELSE server} \cup
                        (IF fails THEN {server} ELSE {})
         /\ calls' = (calls \ {c}) \cup {[c EXCEPT !.st = st, !.body = Body(c)]}
         /\ UNCHANGED <<session, page, message, timer, lists, screen, made, acts>>

\* The target of the redirect is made from the first part of the path.
LoginFromHere ==
    CASE locale # "default" -> "login"
      [] locale = "default" /\ page \in UserPages \cup {"error"} -> "user/login"
      [] OTHER -> "missing"

\* Mutant: no redirect is set.
SessionExpiredUntimed == message' = TRUE /\ UNCHANGED timer

\* request() on a 401; of several timers the first one reloads.
SessionExpired ==
    /\ message' = TRUE
    /\ timer' = IF timer = None THEN LoginFromHere ELSE timer

\* A load that an invalidation leaves alone: of a query nobody looks at, or the
\* first one of all, as a fetch is cancelled only when there is data to show.
Spared == IF page # "keys" \/ keys.data = None THEN Flying("loadKeys") ELSE {}

\* Mutant: a load on its way is never cancelled.
InvalidateKeepingLoad(rest) ==
    /\ keys' = [keys EXCEPT !.invalid = TRUE]
    /\ calls' = rest \cup (IF page = "keys" /\ Flying("loadKeys") = {}
                           THEN {Call("loadKeys", 0, "")} ELSE {})
    /\ raced' = (raced \/ \E c \in Spared : c.st = "ok")

\* invalidateQueries: a query in use is loaded anew and its load on the way is
\* cancelled, unless that one is spared; one not in use is only marked.
Invalidate(rest) ==
    /\ keys' = [keys EXCEPT !.invalid = TRUE]
    /\ calls' = IF page # "keys" \/ Spared # {} THEN rest
                ELSE (rest \ Flying("loadKeys")) \cup {Call("loadKeys", 0, "")}
    /\ raced' = (raced \/ \E c \in Spared : c.st = "ok")

\* What the answer does to the lists.  A channel list is kept by its page only.
Apply(c, rest) ==
    CASE c.op = "loadKeys" ->
           keys' = [data |-> c.body, invalid |-> FALSE] /\ calls' = rest /\ UNCHANGED <<notes, raced>>
      [] c.op \in {"addKey", "dropKey"} -> Invalidate(rest) /\ UNCHANGED notes
      [] c.op = "loadNotes" ->
           /\ notes' = IF c.ear = "page" THEN c.body ELSE notes
           /\ raced' = (raced \/ Flying("addNote") \cup Flying("dropNote") # {})
           /\ calls' = rest /\ UNCHANGED keys
      [] c.op \in {"addNote", "dropNote"} ->
           /\ notes' = CASE c.ear # "page" -> notes
                         [] c.ear = "page" /\ c.op = "addNote" -> notes \cup {c.id}
                         [] OTHER -> notes \ {c.id}
           /\ raced' = (raced \/ c.ear # "page" \/ Flying("loadNotes") # {})
           /\ calls' = rest /\ UNCHANGED keys

\* A form whose call succeeds is closed, were it opened anew meanwhile.
Arrive ==
    \E c \in {d \in calls : d.st # "sent" /\ d.ear # "none"} :
      /\ IF c.st = "ok" THEN Apply(c, calls \ {c})
         ELSE calls' = calls \ {c} /\ UNCHANGED lists
      /\ IF c.st = "401" THEN SessionExpired ELSE UNCHANGED <<message, timer>>
      /\ forms' = IF c.st = "ok" /\ c.ear = "page" THEN forms \ {c.form} ELSE forms
      /\ UNCHANGED <<session, page, server, confirm, made, acts, failures>>

\* Nobody is there any more for the answer; the change has been made.
ArriveNowhere ==
    \E c \in {d \in calls : d.st # "sent" /\ d.ear = "none"} :
      /\ calls' = calls \ {c}
      /\ raced' = (raced \/ c.op \in {"addKey", "dropKey", "addNote", "dropNote"})
      /\ UNCHANGED <<session, page, message, timer, server, keys, notes, screen, made, acts, failures>>

-----------------------------------------------------------------------------
(* The two settings pages. *)

Toggle ==
    /\ Act
    /\ \E f \in FormsOf(page) : forms' = IF f \in forms THEN forms \ {f} ELSE forms \cup {f}
    /\ UNCHANGED <<session, page, message, timer, calls, server, lists, confirm, made, failures>>

\* Disabled while the form's own call is on its way.
HandleSubmit ==
    /\ Act /\ made < MaxMade
    /\ \E f \in forms :
          /\ ~\E c \in calls : c.ear = "page" /\ c.form = f
          /\ calls' = calls \cup {Call(IF f = "key" THEN "addKey" ELSE "addNote", made + 1, f)}
    /\ made' = made + 1
    /\ UNCHANGED <<session, page, message, timer, server, lists, screen, failures>>

Rows == CASE page = "keys" /\ keys.data # None -> keys.data
          [] page = "notes" -> notes
          [] OTHER -> {}

\* The key's button is disabled while a key is being deleted.
AskDelete ==
    /\ confirm = None
    /\ page = "keys" => {c \in Flying("dropKey") : c.ear = "page"} = {}
    /\ \E id \in Rows : confirm' = id
    /\ UNCHANGED <<session, page, message, timer, calls, server, lists, forms, made, acts, failures>>

CancelDelete ==
    /\ confirm # None
    /\ confirm' = None
    /\ UNCHANGED <<session, page, message, timer, calls, server, lists, forms, made, acts, failures>>

HandleDelete ==
    /\ Act /\ confirm # None
    /\ calls' = calls \cup {Call(IF page = "keys" THEN "dropKey" ELSE "dropNote", confirm, "")}
    /\ confirm' = None
    /\ UNCHANGED <<session, page, message, timer, server, lists, forms, made, failures>>

Init ==
    /\ locale \in {"default", "other"} /\ signedIn \in BOOLEAN
    /\ page = "home" /\ message = FALSE /\ timer = None
    /\ calls = {} /\ server = [keys |-> {}, notes |-> {}]
    /\ keys = NoKeys /\ notes = {} /\ raced = FALSE
    /\ forms = {} /\ confirm = None
    /\ made = 0 /\ acts = 0 /\ failures = 0

Next ==
    \/ Navigate \/ SignInAction \/ SignUpAction \/ Confirm \/ HandleSignOut \/ Expire \/ TimerFires
    \/ HandleRequest \/ Arrive \/ ArriveNowhere
    \/ Toggle \/ HandleSubmit \/ AskDelete \/ CancelDelete \/ HandleDelete

\* Calls are answered, answers are heard and timers fire; what the user does,
\* and the end of the session, is promised by nobody.
Spec ==
    /\ Init /\ [][Next]_vars
    /\ WF_vars(HandleRequest) /\ WF_vars(Arrive) /\ WF_vars(TimerFires)

-----------------------------------------------------------------------------
(* Properties *)

\* While nothing is on its way and nothing has failed, the settings show what
\* the manager has, across changes of the page and of the session: a change stops
\* the load it overtakes.  Not so for the loads it spares whose answer was given
\* before, and for changes nobody heard of, until the next reload (README,
\* "Disagreements").
ListsTrueWhenIdle ==
    calls = {} /\ failures = 0 /\ ~raced =>
      /\ page = "keys" /\ keys.data # None /\ ~keys.invalid => keys.data = server.keys
      /\ page = "notes" /\ ~message => notes = server.notes

\* After a call was refused nobody is left on a user page with a session that
\* is gone, whatever was opened, cancelled or reloaded in between; but for an
\* outage that swallows the answers that follow.
ExpiryIsTold ==
    \A n \in 0..MaxFailures :
        (failures = n /\ \E c \in calls : c.st = "401" /\ c.ear # "none")
            ~> (signedIn \/ page \notin UserPages \/ failures > n)
=============================================================================
