--------------------------- MODULE UserArea_proofs ---------------------------
(***************************************************************************)
(* The two lists of the settings tell the truth when nothing is on its     *)
(* way: proofs about UserArea.                                             *)
(*                                                                         *)
(* A change the manager has made and the page has not heard of lets a list *)
(* differ from the manager's.  Of the keys nothing is claimed meanwhile:   *)
(* the change, once heard, makes the query invalid and stops its load, but *)
(* a load it spares has its answer still to be given, or races the change  *)
(* (KeysKnown).  The channels are changed in place, and so each one no     *)
(* unheard change is about has to be known meanwhile (NotesKnown); that an *)
(* addition and a deletion of one channel are never on their way together  *)
(* needs that a channel being added is not shown yet (Unseen), and that    *)
(* its id is new (IdsMade).                                                *)
(***************************************************************************)
EXTENDS UserArea, TLAPS

KeyOps == {"addKey", "dropKey"}
NoteOps == {"addNote", "dropNote"}

CallType == [op : KeyOps \cup NoteOps \cup {"loadKeys", "loadNotes"}, id : Nat,
             form : {"", "key", "telegram", "slack"}, st : {"sent", "ok", "401", "error"},
             ear : {"page", "cache", "none"}, body : SUBSET Nat]

Typed ==
    /\ calls \subseteq CallType
    /\ server \in [keys : SUBSET Nat, notes : SUBSET Nat]
    /\ keys \in [data : {None} \cup SUBSET Nat, invalid : BOOLEAN]
    /\ notes \subseteq Nat /\ raced \in BOOLEAN /\ message \in BOOLEAN
    /\ confirm \in {None} \cup Nat
    /\ forms \subseteq {"key", "telegram", "slack"}
    /\ made \in Nat /\ failures \in Nat

\* No change of these is made and not heard of yet.
Settled(ops) == \A c \in calls : c.op \in ops => c.st # "ok"

\* Nothing has failed, and no change was made that the lists may not know of.
NothingHidden == failures = 0 /\ ~raced

NoErrors == failures = 0 => \A c \in calls : c.st # "error"

\* With every change of the keys heard of, what is cached as valid or is coming is
\* what the manager has.
KeysKnown ==
    NothingHidden /\ Settled(KeyOps) =>
      /\ keys.data # None /\ ~keys.invalid => keys.data = server.keys
      /\ \A c \in calls : c.op = "loadKeys" /\ c.st = "ok" /\ c.ear # "none"
                            => c.body = server.keys

\* Channels have ids made before, each addition its own.
IdsMade ==
    /\ server.notes \subseteq 1..made /\ notes \subseteq 1..made
    /\ \A c \in calls : c.op \in NoteOps => c.id \in 1..made
    /\ \A c \in calls : c.op = "loadNotes" => c.body \subseteq 1..made
    /\ confirm # None /\ page # "keys" => page = "notes" /\ confirm \in 1..made
    /\ \A c, d \in calls : c.op = "addNote" /\ d.op = "addNote" /\ c.id = d.id => c = d

\* A channel being added is neither shown nor about to be deleted.
Unseen ==
    NothingHidden /\ page = "notes" =>
      \A c \in calls : c.op = "addNote" /\ c.ear = "page" =>
        /\ c.id \notin notes /\ (confirm # None => confirm # c.id)
        /\ \A d \in calls : d.op = "dropNote" => d.id # c.id

\* The channels an unheard change is about.
Pending == {c.id : c \in {d \in calls : d.op \in NoteOps /\ d.st = "ok"}}

\* The page will hear of every change the manager has made.
PageHears ==
    /\ NothingHidden /\ ~message /\ page = "notes"
    /\ \A c \in calls : c.op \in NoteOps /\ c.st = "ok" => c.ear = "page"

PageLoads == \E c \in calls : c.op = "loadNotes" /\ c.ear = "page"

\* The page that hears all knows of every channel no unheard change is about, or is
\* loading the list; a list on its way is the manager's once the changes are heard.
NotesKnown ==
    PageHears =>
      /\ PageLoads \/ \A id \in Nat \ Pending : id \in notes <=> id \in server.notes
      /\ Settled(NoteOps) =>
           \A c \in calls : c.op = "loadNotes" /\ c.ear = "page" /\ c.st = "ok"
                              => c.body = server.notes
      /\ \A c \in calls : c.st = "ok" /\ c.op = "addNote" => c.id \in server.notes
      /\ \A c \in calls : c.st = "ok" /\ c.op = "dropNote" => c.id \notin server.notes

Inv == Typed /\ NoErrors /\ KeysKnown /\ IdsMade /\ Unseen /\ NotesKnown

LEMMA InitInv == Init => Inv
<1> SUFFICES ASSUME Init
             PROVE  Inv
  OBVIOUS
<1>1. /\ page = "home" /\ message = FALSE /\ calls = {} /\ server = [keys |-> {}, notes |-> {}]
      /\ keys = [data |-> None, invalid |-> FALSE] /\ notes = {} /\ raced = FALSE
      /\ forms = {} /\ confirm = None /\ made = 0 /\ failures = 0
  BY DEF Init, NoKeys
<1>2. Typed
  BY <1>1 DEF Typed
<1>3. NoErrors /\ KeysKnown
  BY <1>1 DEF NoErrors, KeysKnown
<1>4. IdsMade /\ Unseen
  BY <1>1 DEF IdsMade, Unseen
<1>5. NotesKnown
  BY <1>1 DEF NotesKnown, PageHears
<1> QED
  BY <1>2, <1>3, <1>4, <1>5 DEF Inv

-----------------------------------------------------------------------------
(* Opening a page. *)

\* What becomes of a call when its page is left.
Left(c, reload) == [c EXCEPT !.ear = IF reload \/ @ = "none" THEN "none" ELSE "cache"]

LEMMA LeftFacts ==
    ASSUME NEW c \in CallType, NEW reload \in BOOLEAN
    PROVE  /\ Left(c, reload) \in CallType /\ Left(c, reload).ear # "page"
           /\ Left(c, reload).ear # "none" => c.ear # "none"
           /\ Left(c, reload).op = c.op /\ Left(c, reload).id = c.id
           /\ Left(c, reload).st = c.st /\ Left(c, reload).body = c.body
  BY DEF Left, CallType

LEMMA CallFacts ==
    ASSUME NEW op \in KeyOps \cup NoteOps \cup {"loadKeys", "loadNotes"}, NEW id \in Nat,
           NEW form \in {"", "key", "telegram", "slack"}
    PROVE  /\ Call(op, id, form) \in CallType
           /\ Call(op, id, form).op = op /\ Call(op, id, form).id = id
           /\ Call(op, id, form).st = "sent" /\ Call(op, id, form).ear = "page"
           /\ Call(op, id, form).body = {}
  BY DEF Call, CallType

LoadKeys == Call("loadKeys", 0, "")
LoadNotes == Call("loadNotes", 0, "")

\* A page opened shows nothing yet, hears none of the calls on their way, and
\* makes at most the one that loads its list.
Opened(reload) ==
    /\ message' \in BOOLEAN /\ keys' \in {keys, NoKeys} /\ notes' = {}
    /\ reload => keys' = NoKeys
    /\ raced' = (raced /\ ~reload)
    /\ forms' = {} /\ confirm' = None
    /\ failures' \in {failures, failures + 1}
    /\ \A c \in calls : Left(c, reload) \in calls'
    /\ \A d \in calls' : d = LoadKeys \/ d = LoadNotes \/ \E c \in calls : d = Left(c, reload)
    /\ page' = "notes" => LoadNotes \in calls'

LEMMA GoOpens ==
    ASSUME Typed, NEW path, NEW in, NEW reload \in BOOLEAN, Go(path, in, reload)
    PROVE  Opened(reload)
<1>1. PICK first \in Answers(in), aged \in BOOLEAN :
      \E second \in IF page \in UserPages /\ ~reload THEN {"user"} ELSE Answers(in) :
        LET seen == Sees(path, first, second)
            usual == IF in THEN "user" ELSE "none"
            left == {[c EXCEPT !.ear = IF reload \/ @ = "none" THEN "none" ELSE "cache"]
                      : c \in calls}
            kept == IF reload THEN NoKeys ELSE keys
            load == CASE seen = "keys"
                         /\ {c \in left : c.op = "loadKeys" /\ c.ear # "none"} = {}
                         /\ (kept.data = None \/ kept.invalid \/ aged)
                           -> {Call("loadKeys", 0, "")}
                      [] seen = "notes" -> {Call("loadNotes", 0, "")}
                      [] OTHER -> {}
        IN /\ page' = seen
           /\ message' = (message /\ seen # "login")
           /\ timer' = IF reload THEN None ELSE timer
           /\ calls' = left \cup load
           /\ keys' = kept
           /\ notes' = {}
           /\ forms' = {} /\ confirm' = None
           /\ raced' = (raced /\ ~reload)
           /\ failures' = IF first = usual /\ second \in {usual, "user"} THEN failures
                         ELSE failures + 1
  BY DEF Go
<1> DEFINE left == {Left(c, reload) : c \in calls}
<1>2. PICK load \in SUBSET {LoadKeys, LoadNotes} :
        calls' = left \cup load /\ (page' = "notes" => LoadNotes \in load)
  BY <1>1 DEF Left, LoadKeys, LoadNotes
<1>3. \A c \in calls : Left(c, reload) \in calls'
  BY <1>2
<1>4. \A d \in calls' : d = LoadKeys \/ d = LoadNotes \/ \E c \in calls : d = Left(c, reload)
  BY <1>2
<1>5. page' = "notes" => LoadNotes \in calls'
  BY <1>2
<1>6. /\ message' \in BOOLEAN /\ keys' \in {keys, NoKeys} /\ notes' = {}
      /\ (reload => keys' = NoKeys) /\ raced' = (raced /\ ~reload)
      /\ forms' = {} /\ confirm' = None
      /\ failures' \in {failures, failures + 1}
  BY <1>1
<1> QED
  BY <1>3, <1>4, <1>5, <1>6 DEF Opened

\* It leaves the invariant: the page claims nothing of its list until it is
\* loaded, and a query that is kept is as true as before.
LEMMA OpenedInv ==
    ASSUME Inv, NEW reload \in BOOLEAN, Opened(reload), UNCHANGED <<server, made>>
    PROVE  Inv'
<1>1. calls \subseteq CallType /\ failures \in Nat /\ made \in Nat
  BY DEF Inv, Typed
<1>2. /\ LoadKeys \in CallType /\ LoadKeys.op = "loadKeys" /\ LoadKeys.st = "sent"
      /\ LoadKeys.id = 0 /\ LoadKeys.body = {}
      /\ LoadNotes \in CallType /\ LoadNotes.op = "loadNotes" /\ LoadNotes.st = "sent"
      /\ LoadNotes.id = 0 /\ LoadNotes.body = {} /\ LoadNotes.ear = "page"
  <2>1. /\ LoadKeys \in CallType /\ LoadKeys.op = "loadKeys" /\ LoadKeys.st = "sent"
        /\ LoadKeys.id = 0 /\ LoadKeys.body = {}
    BY DEF LoadKeys, Call, CallType
  <2>2. /\ LoadNotes \in CallType /\ LoadNotes.op = "loadNotes" /\ LoadNotes.st = "sent"
        /\ LoadNotes.id = 0 /\ LoadNotes.body = {} /\ LoadNotes.ear = "page"
    BY DEF LoadNotes, Call, CallType
  <2> QED
    BY <2>1, <2>2
<1>3. ASSUME NEW c \in calls
      PROVE  /\ Left(c, reload) \in CallType /\ Left(c, reload) \in calls'
             /\ Left(c, reload).ear # "page"
             /\ Left(c, reload).ear # "none" => c.ear # "none"
             /\ Left(c, reload).op = c.op /\ Left(c, reload).id = c.id
             /\ Left(c, reload).st = c.st /\ Left(c, reload).body = c.body
  BY <1>1, LeftFacts DEF Opened
<1>4. ASSUME NEW d \in calls', d.op \in KeyOps \cup NoteOps \/ d.st # "sent"
      PROVE  \E c \in calls : d = Left(c, reload)
  BY <1>2, <1>4 DEF Opened, KeyOps, NoteOps
<1>5. failures' = 0 => failures = 0
  BY <1>1 DEF Opened
<1>6. Typed'
  <2>1. calls' \subseteq CallType
    BY <1>2, <1>3 DEF Opened
  <2>2. keys' \in [data : {None} \cup SUBSET Nat, invalid : BOOLEAN]
    <3>1. keys \in [data : {None} \cup SUBSET Nat, invalid : BOOLEAN]
      BY DEF Inv, Typed
    <3>2. NoKeys \in [data : {None} \cup SUBSET Nat, invalid : BOOLEAN]
      BY DEF NoKeys
    <3> QED
      BY <3>1, <3>2 DEF Opened
  <2>3. failures' \in Nat /\ raced' \in BOOLEAN
    BY <1>1 DEF Opened, Inv, Typed
  <2> QED
    BY <2>1, <2>2, <2>3 DEF Opened, Inv, Typed
<1>7. NoErrors'
  BY <1>3, <1>4, <1>5 DEF NoErrors, Inv
<1>8. KeysKnown'
  <2> SUFFICES ASSUME NothingHidden', Settled(KeyOps)'
               PROVE  /\ keys'.data # None /\ ~keys'.invalid => keys'.data = server'.keys
                      /\ \A d \in calls' : d.op = "loadKeys" /\ d.st = "ok" /\ d.ear # "none"
                                              => d.body = server'.keys
    BY DEF KeysKnown
  <2>1. Settled(KeyOps)
    BY <1>3 DEF Settled
  <2>2. ~reload => NothingHidden
    BY <1>5 DEF Opened, NothingHidden
  <2>3. keys'.data # None /\ ~keys'.invalid => keys'.data = server'.keys
    BY <2>1, <2>2 DEF Opened, NoKeys, KeysKnown, Inv
  <2>4. ASSUME NEW d \in calls', d.op = "loadKeys", d.st = "ok", d.ear # "none"
        PROVE  d.body = server'.keys
    <3>1. PICK c \in calls : d = Left(c, reload)
      BY <1>4, <2>4
    <3>2. c.op = "loadKeys" /\ c.st = "ok" /\ c.ear # "none" /\ d.body = c.body
      BY <1>3, <2>4, <3>1
    <3>3. ~reload
      <4>1. c \in CallType
        BY <1>1
      <4> QED
        BY <2>4, <3>1, <4>1 DEF Left, CallType
    <3>4. c.body = server.keys
      BY <2>1, <2>2, <3>2, <3>3 DEF KeysKnown, Inv
    <3> QED
      BY <3>2, <3>4
  <2> QED
    BY <2>3, <2>4
<1>9. IdsMade'
  <2>1. server'.notes \subseteq 1..made' /\ notes' \subseteq 1..made'
    BY DEF Opened, Inv, IdsMade
  <2>2. confirm' = None
    BY DEF Opened
  <2>3. \A d \in calls' : /\ d.op \in NoteOps => d.id \in 1..made'
                          /\ d.op = "loadNotes" => d.body \subseteq 1..made'
    <3> TAKE d \in calls'
    <3>1. CASE d = LoadKeys \/ d = LoadNotes
      BY <1>2, <3>1 DEF NoteOps
    <3>2. CASE \E c \in calls : d = Left(c, reload)
      BY <1>3, <3>2 DEF Inv, IdsMade
    <3> QED
      BY <3>1, <3>2 DEF Opened
  <2>4. \A c, d \in calls' : c.op = "addNote" /\ d.op = "addNote" /\ c.id = d.id => c = d
    <3> SUFFICES ASSUME NEW c \in calls', NEW d \in calls',
                        c.op = "addNote", d.op = "addNote", c.id = d.id
                 PROVE  c = d
      OBVIOUS
    <3>1. PICK a \in calls : c = Left(a, reload)
      BY <1>4 DEF NoteOps
    <3>2. PICK b \in calls : d = Left(b, reload)
      BY <1>4 DEF NoteOps
    <3>3. a = b
      BY <1>3, <3>1, <3>2 DEF Inv, IdsMade
    <3> QED
      BY <3>1, <3>2, <3>3
  <2> QED
    BY <2>1, <2>2, <2>3, <2>4 DEF IdsMade
<1>10. \A d \in calls' : d.op \in NoteOps => d.ear # "page"
  <2> TAKE d \in calls'
  <2> HAVE d.op \in NoteOps
  <2>1. PICK c \in calls : d = Left(c, reload)
    BY <1>4
  <2> QED
    BY <1>3, <2>1
<1>11. Unseen'
  BY <1>10 DEF Unseen, NoteOps
<1>12. NotesKnown'
  <2> SUFFICES ASSUME PageHears'
               PROVE  /\ PageLoads'
                      /\ \A d \in calls' : d.op = "loadNotes" /\ d.ear = "page" => d.st # "ok"
                      /\ \A d \in calls' : d.op \in NoteOps => d.st # "ok"
    BY DEF NotesKnown, NoteOps
  <2>1. PageLoads'
    BY <1>2 DEF Opened, PageHears, PageLoads
  <2>2. \A d \in calls' : d.op = "loadNotes" /\ d.ear = "page" => d.st # "ok"
    <3> SUFFICES ASSUME NEW d \in calls', d.st = "ok"
                 PROVE  d.ear # "page"
      OBVIOUS
    <3>1. PICK c \in calls : d = Left(c, reload)
      BY <1>4
    <3> QED
      BY <1>3, <3>1
  <2>3. \A d \in calls' : d.op \in NoteOps => d.st # "ok"
    BY <1>10 DEF PageHears
  <2> QED
    BY <2>1, <2>2, <2>3
<1> QED
  BY <1>6, <1>7, <1>8, <1>9, <1>11, <1>12 DEF Inv

\* Every way to open a page does no more than that.
LEMMA OpeningInv ==
    ASSUME Inv,
           Navigate \/ SignInAction \/ SignUpAction \/ Confirm \/ HandleSignOut \/ TimerFires
    PROVE  Inv'
<1>1. PICK reload \in BOOLEAN : \E path, in : Go(path, in, reload)
  BY DEF Navigate, SignInAction, SignUpAction, Confirm, HandleSignOut, TimerFires
<1>2. Opened(reload)
  BY <1>1, GoOpens DEF Inv
<1>3. UNCHANGED <<server, made>>
  BY DEF Navigate, SignInAction, SignUpAction, Confirm, HandleSignOut, TimerFires
<1> QED
  BY <1>2, <1>3, OpenedInv

-----------------------------------------------------------------------------
(* What the lists' invariants are about. *)

\* The keys: the answers to their changes, and what their loads have brought.
LEMMA KeysStay ==
    ASSUME Inv, keys' = keys, server'.keys = server.keys, NothingHidden' => NothingHidden,
           NothingHidden' =>
             \A c \in calls : c.op \in KeyOps /\ c.st = "ok" => c \in calls',
           \A c \in calls' : c.op = "loadKeys" /\ c.st = "ok" => c \in calls
    PROVE  KeysKnown'
<1> SUFFICES ASSUME NothingHidden', Settled(KeyOps)'
             PROVE  /\ keys.data # None /\ ~keys.invalid => keys.data = server.keys
                    /\ \A c \in calls' : c.op = "loadKeys" /\ c.st = "ok" /\ c.ear # "none"
                                            => c.body = server.keys
  BY DEF KeysKnown
<1>1. Settled(KeyOps)
  BY DEF Settled
<1> QED
  BY <1>1 DEF KeysKnown, Inv

\* The channels: their changes, their ids and their loads.
LEMMA ChannelsStay ==
    ASSUME Inv, UNCHANGED <<page, notes, made>>, server'.notes = server.notes,
           confirm' \in {None, confirm}, NothingHidden' => NothingHidden,
           \A c \in calls' : c.op \in NoteOps \cup {"loadNotes"} => c \in calls
    PROVE  IdsMade' /\ Unseen'
<1>1. IdsMade'
  <2>1. /\ \A c \in calls' : c.op \in NoteOps => c.id \in 1..made
        /\ \A c \in calls' : c.op = "loadNotes" => c.body \subseteq 1..made
    BY DEF Inv, IdsMade
  <2>2. \A c, d \in calls' : c.op = "addNote" /\ d.op = "addNote" /\ c.id = d.id => c = d
    BY DEF Inv, IdsMade, NoteOps
  <2>3. /\ server'.notes \subseteq 1..made /\ notes' \subseteq 1..made
        /\ confirm' # None /\ page # "keys" => page = "notes" /\ confirm' \in 1..made
    BY DEF Inv, IdsMade
  <2> QED
    BY <2>1, <2>2, <2>3 DEF IdsMade
<1>2. Unseen'
  <2> SUFFICES ASSUME NothingHidden', page = "notes", NEW c \in calls', c.op = "addNote",
                      c.ear = "page"
               PROVE  /\ c.id \notin notes /\ (confirm' # None => confirm' # c.id)
                      /\ \A d \in calls' : d.op = "dropNote" => d.id # c.id
    BY DEF Unseen
  <2>1. c \in calls
    BY DEF NoteOps
  <2>2. /\ c.id \notin notes /\ (confirm # None => confirm # c.id)
        /\ \A d \in calls : d.op = "dropNote" => d.id # c.id
    BY <2>1 DEF Inv, Unseen
  <2> QED
    BY <2>2 DEF NoteOps
<1> QED
  BY <1>1, <1>2

LEMMA NotesStay ==
    ASSUME Inv, UNCHANGED <<page, notes>>, server'.notes = server.notes,
           PageHears' => NothingHidden /\ ~message,
           PageHears' =>
             \A c \in calls : c.op \in NoteOps /\ c.st = "ok" => c \in calls',
           \A c \in calls' : c.op \in NoteOps /\ c.st = "ok" => c \in calls,
           \A c \in calls \cup calls' :
             c.op = "loadNotes" /\ c.ear = "page" => (c \in calls <=> c \in calls')
    PROVE  NotesKnown'
<1> SUFFICES ASSUME PageHears'
             PROVE  /\ PageLoads' \/ \A id \in Nat \ Pending' : id \in notes <=> id \in server.notes
                    /\ Settled(NoteOps)' =>
                         \A c \in calls' : c.op = "loadNotes" /\ c.ear = "page" /\ c.st = "ok"
                                            => c.body = server.notes
                    /\ \A c \in calls' : c.st = "ok" /\ c.op = "addNote" => c.id \in server.notes
                    /\ \A c \in calls' :
                         c.st = "ok" /\ c.op = "dropNote" => c.id \notin server.notes
  BY DEF NotesKnown
<1>1. PageHears
  BY DEF PageHears
<1>2. Pending' = Pending
  BY DEF Pending
<1>3. PageLoads' <=> PageLoads
  BY DEF PageLoads
<1>4. Settled(NoteOps)' => Settled(NoteOps)
  BY DEF Settled
<1>5. PageLoads' \/ \A id \in Nat \ Pending' : id \in notes <=> id \in server.notes
  BY <1>1, <1>2, <1>3 DEF NotesKnown, Inv
<1>6. Settled(NoteOps)' =>
        \A c \in calls' : c.op = "loadNotes" /\ c.ear = "page" /\ c.st = "ok"
                           => c.body = server.notes
  BY <1>1, <1>4 DEF NotesKnown, Inv
<1>7. /\ \A c \in calls' : c.st = "ok" /\ c.op = "addNote" => c.id \in server.notes
      /\ \A c \in calls' : c.st = "ok" /\ c.op = "dropNote" => c.id \notin server.notes
  BY <1>1 DEF NotesKnown, Inv, NoteOps
<1> QED
  BY <1>5, <1>6, <1>7

-----------------------------------------------------------------------------
(* What the user does on a page. *)

\* Nothing the invariant speaks of is touched.
LEMMA QuietInv ==
    ASSUME Inv, UNCHANGED <<page, message, calls, server, lists, made, failures>>,
           confirm' \in {None, confirm}, forms' \subseteq {"key", "telegram", "slack"}
    PROVE  Inv'
<1>1. Typed' /\ NoErrors' /\ KeysKnown'
  BY DEF Inv, Typed, NoErrors, KeysKnown, Settled, NothingHidden, lists
<1>2. IdsMade'
  BY DEF Inv, IdsMade, lists
<1>3. Unseen'
  BY DEF Inv, Unseen, NothingHidden, lists
<1>4. NotesKnown'
  BY DEF Inv, NotesKnown, PageHears, PageLoads, Pending, Settled, NothingHidden, lists
<1> QED
  BY <1>1, <1>2, <1>3, <1>4 DEF Inv

\* A row is asked about only while it is shown, and so is not being added.
LEMMA AskDeleteInv ==
    ASSUME Inv, AskDelete
    PROVE  Inv'
<1>1. PICK id \in Rows : confirm' = id
  BY DEF AskDelete
<1>2. UNCHANGED <<page, message, calls, server, lists, forms, made, failures>>
  BY DEF AskDelete
<1>3. id \in Nat
  BY DEF Rows, Inv, Typed
<1>4. Typed' /\ NoErrors' /\ KeysKnown'
  BY <1>1, <1>2, <1>3 DEF Inv, Typed, NoErrors, KeysKnown, Settled, NothingHidden, lists
<1>5. page # "keys" => page = "notes" /\ id \in notes
  BY DEF Rows
<1>6. IdsMade'
  BY <1>1, <1>2, <1>5 DEF Inv, IdsMade, lists
<1>7. Unseen'
  BY <1>1, <1>2, <1>5 DEF Inv, Unseen, NothingHidden, lists
<1>8. NotesKnown'
  BY <1>2 DEF Inv, NotesKnown, PageHears, PageLoads, Pending, Settled, NothingHidden, lists
<1> QED
  BY <1>4, <1>6, <1>7, <1>8 DEF Inv

\* A change that is sent is not made yet.
LEMMA SentStays ==
    ASSUME Inv, NEW c \in CallType, c.op \in KeyOps \cup NoteOps, c.st = "sent",
           calls' = calls \cup {c}, UNCHANGED <<page, message, server, lists, failures>>
    PROVE  NoErrors' /\ KeysKnown' /\ NotesKnown'
<1>1. UNCHANGED <<keys, notes, raced>> /\ (NothingHidden' <=> NothingHidden)
  BY DEF lists, NothingHidden
<1>2. NoErrors'
  BY DEF Inv, NoErrors
<1>3. KeysKnown'
  BY <1>1, KeysStay
<1>4. PageHears' => NothingHidden /\ ~message
  BY <1>1 DEF PageHears
<1>5. NotesKnown'
  <2>1. c.op # "loadNotes"
    BY DEF KeyOps, NoteOps
  <2>2. \A d \in calls \cup calls' :
          d.op = "loadNotes" /\ d.ear = "page" => (d \in calls <=> d \in calls')
    BY <2>1
  <2> QED
    BY <1>1, <1>4, <2>2, NotesStay
<1> QED
  BY <1>2, <1>3, <1>5

\* A channel that is added gets an id nobody has seen.
LEMMA HandleSubmitInv ==
    ASSUME Inv, HandleSubmit
    PROVE  Inv'
<1>1. PICK f \in forms :
        calls' = calls \cup {Call(IF f = "key" THEN "addKey" ELSE "addNote", made + 1, f)}
  BY DEF HandleSubmit
<1> DEFINE n == Call(IF f = "key" THEN "addKey" ELSE "addNote", made + 1, f)
<1>2. /\ made' = made + 1
      /\ UNCHANGED <<page, message, server, lists, failures, forms, confirm>>
  BY DEF HandleSubmit, screen
<1>3. made \in Nat /\ f \in {"key", "telegram", "slack"}
  BY DEF Inv, Typed
<1>4. /\ n \in CallType /\ n.op \in {"addKey", "addNote"}
      /\ n.id = made + 1 /\ n.st = "sent" /\ n.ear = "page"
  <2>1. Call("addKey", made + 1, f) \in CallType /\ Call("addNote", made + 1, f) \in CallType
    <3> HIDE DEF n
    <3>1. made + 1 \in Nat
      BY <1>3
    <3>2. f \in {"", "key", "telegram", "slack"}
      BY <1>3
    <3>3. Call("addKey", made + 1, f) \in CallType
      BY <3>1, <3>2 DEF Call, CallType, KeyOps
    <3>4. Call("addNote", made + 1, f) \in CallType
      BY <3>1, <3>2 DEF Call, CallType, NoteOps
    <3> QED
      BY <3>3, <3>4
  <2>2. n = Call(IF f = "key" THEN "addKey" ELSE "addNote", made + 1, f)
    OBVIOUS
  <2> HIDE DEF n
  <2>3. n = Call("addKey", made + 1, f) \/ n = Call("addNote", made + 1, f)
    BY <2>2
  <2> QED
    BY <2>1, <2>3 DEF Call
<1>5. calls' = calls \cup {n}
  BY <1>1
<1> HIDE DEF n
<1>6. NoErrors' /\ KeysKnown' /\ NotesKnown'
  BY <1>2, <1>4, <1>5, SentStays DEF KeyOps, NoteOps
<1>7. Typed'
  BY <1>2, <1>3, <1>4, <1>5 DEF Inv, Typed, lists
<1>8. UNCHANGED <<keys, notes, raced>> /\ (NothingHidden' <=> NothingHidden)
  BY <1>2 DEF lists, NothingHidden
<1>9. 1..made \subseteq 1..made' /\ made + 1 \in 1..made' /\ made + 1 \notin 1..made
  BY <1>2, <1>3
<1>10. IdsMade'
  <2>1. /\ server'.notes \subseteq 1..made' /\ notes' \subseteq 1..made'
        /\ confirm' # None /\ page' # "keys" => page' = "notes" /\ confirm' \in 1..made'
    BY <1>2, <1>8, <1>9 DEF Inv, IdsMade
  <2>2. \A c \in calls' : c.op \in NoteOps => c.id \in 1..made'
    BY <1>4, <1>5, <1>9 DEF Inv, IdsMade
  <2>3. \A c \in calls' : c.op = "loadNotes" => c.body \subseteq 1..made'
    BY <1>4, <1>5, <1>9 DEF Inv, IdsMade
  <2>4. \A c \in calls : c.op = "addNote" => c.id # made + 1
    BY <1>9 DEF Inv, IdsMade, NoteOps
  <2>5. \A c, d \in calls' : c.op = "addNote" /\ d.op = "addNote" /\ c.id = d.id => c = d
    BY <1>4, <1>5, <2>4 DEF Inv, IdsMade
  <2> QED
    BY <2>1, <2>2, <2>3, <2>5 DEF IdsMade
<1>11. Unseen'
  <2> SUFFICES ASSUME NothingHidden', page' = "notes", NEW c \in calls', c.op = "addNote",
                      c.ear = "page"
               PROVE  /\ c.id \notin notes' /\ (confirm' # None => confirm' # c.id)
                      /\ \A d \in calls' : d.op = "dropNote" => d.id # c.id
    BY DEF Unseen
  <2>1. CASE c = n
    <3>1. c.id \notin notes'
      BY <1>4, <1>8, <1>9, <2>1 DEF Inv, IdsMade
    <3>2. confirm' # None => confirm' # c.id
      BY <1>2, <1>4, <1>9, <2>1 DEF Inv, IdsMade
    <3>3. \A d \in calls' : d.op = "dropNote" => d.id # c.id
      BY <1>4, <1>5, <1>9, <2>1 DEF Inv, IdsMade, NoteOps
    <3> QED
      BY <3>1, <3>2, <3>3
  <2>2. CASE c \in calls
    <3>1. /\ c.id \notin notes /\ (confirm # None => confirm # c.id)
          /\ \A d \in calls : d.op = "dropNote" => d.id # c.id
      BY <1>2, <1>8, <2>2 DEF Inv, Unseen
    <3> QED
      BY <1>2, <1>4, <1>5, <1>8, <3>1
  <2> QED
    BY <1>5, <2>1, <2>2
<1> QED
  BY <1>6, <1>7, <1>10, <1>11 DEF Inv

\* A channel that is deleted has been shown, and so is not being added.
LEMMA HandleDeleteInv ==
    ASSUME Inv, HandleDelete
    PROVE  Inv'
<1> DEFINE n == Call(IF page = "keys" THEN "dropKey" ELSE "dropNote", confirm, "")
<1>1. /\ confirm # None /\ confirm' = None /\ calls' = calls \cup {n}
      /\ UNCHANGED <<page, message, server, lists, failures, forms, made>>
  BY DEF HandleDelete
<1>2. confirm \in Nat
  BY <1>1 DEF Inv, Typed
<1>3. /\ n \in CallType /\ n.op = (IF page = "keys" THEN "dropKey" ELSE "dropNote")
      /\ n.id = confirm /\ n.st = "sent" /\ n.ear = "page"
  BY <1>2 DEF Call, CallType, KeyOps, NoteOps
<1> HIDE DEF n
<1>4. NoErrors' /\ KeysKnown' /\ NotesKnown'
  <2>1. n.op \in KeyOps \cup NoteOps
    BY <1>3 DEF KeyOps, NoteOps
  <2> QED
    BY <1>1, <1>3, <2>1, SentStays
<1>5. Typed'
  BY <1>1, <1>3 DEF Inv, Typed, lists
<1>6. UNCHANGED <<keys, notes, raced>> /\ (NothingHidden' <=> NothingHidden)
  BY <1>1 DEF lists, NothingHidden
<1>7. IdsMade'
  <2>1. /\ server'.notes \subseteq 1..made' /\ notes' \subseteq 1..made'
    BY <1>1, <1>6 DEF Inv, IdsMade
  <2>2. n.op \in NoteOps => n.id \in 1..made
    BY <1>1, <1>3 DEF Inv, IdsMade, NoteOps
  <2>3. \A c \in calls' : c.op \in NoteOps => c.id \in 1..made'
    BY <1>1, <2>2 DEF Inv, IdsMade
  <2>4. \A c \in calls' : c.op = "loadNotes" => c.body \subseteq 1..made'
    BY <1>1, <1>3 DEF Inv, IdsMade
  <2>5. \A c, d \in calls' : c.op = "addNote" /\ d.op = "addNote" /\ c.id = d.id => c = d
    BY <1>1, <1>3 DEF Inv, IdsMade
  <2> QED
    BY <1>1, <2>1, <2>3, <2>4, <2>5 DEF IdsMade
<1>8. Unseen'
  <2> SUFFICES ASSUME NothingHidden', page' = "notes", NEW c \in calls', c.op = "addNote",
                      c.ear = "page"
               PROVE  /\ c.id \notin notes'
                      /\ \A d \in calls' : d.op = "dropNote" => d.id # c.id
    BY <1>1 DEF Unseen
  <2>1. c \in calls
    BY <1>1, <1>3
  <2>2. /\ c.id \notin notes /\ confirm # c.id
        /\ \A d \in calls : d.op = "dropNote" => d.id # c.id
    BY <1>1, <1>6, <2>1 DEF Inv, Unseen
  <2> QED
    BY <1>1, <1>3, <1>6, <2>2
<1> QED
  BY <1>4, <1>5, <1>7, <1>8 DEF Inv

-----------------------------------------------------------------------------
(* The manager answers. *)

\* An answered call is the same call; while nothing has failed it was refused, or
\* it was served and its change, if it asked for one, was made.
LEMMA HandleRequestInv ==
    ASSUME Inv, HandleRequest
    PROVE  Inv'
<1>1. PICK c \in {d \in calls : d.st = "sent"}, answer \in Answers(signedIn), fails \in BOOLEAN :
        LET spent == (signedIn /\ answer # "user") \/ answer = "throws" \/ fails
            st == CASE answer = "none" -> "401"
                    [] answer = "user" /\ ~fails -> "ok"
                    [] OTHER -> "error"
        IN /\ spent => failures < MaxFailures
           /\ failures' = IF spent THEN failures + 1 ELSE failures
           /\ server' \in {IF answer = "user" THEN Changed(c) ELSE server} \cup
                          (IF fails THEN {server} ELSE {})
           /\ calls' = (calls \ {c}) \cup {[c EXCEPT !.st = st, !.body = Body(c)]}
           /\ UNCHANGED <<session, page, message, timer, lists, screen, made, acts>>
  BY DEF HandleRequest
<1> DEFINE st == CASE answer = "none" -> "401"
                   [] answer = "user" /\ ~fails -> "ok"
                   [] OTHER -> "error"
           d == [c EXCEPT !.st = st, !.body = Body(c)]
<1>2. c \in calls /\ c \in CallType /\ c.st = "sent" /\ failures \in Nat /\ made \in Nat
  BY DEF Inv, Typed
<1>3. calls' = (calls \ {c}) \cup {d}
  BY <1>1
<1>4. UNCHANGED <<page, message, keys, notes, raced, forms, confirm, made>>
  BY <1>1 DEF lists, screen
<1>5. server' = server \/ server' = Changed(c)
  BY <1>1
<1>6. failures' \in Nat /\ (failures' = 0 => failures = 0)
  BY <1>1, <1>2
<1>7. failures' = 0 =>
        (st = "401" /\ server' = server) \/ (st = "ok" /\ server' = Changed(c))
  <2> SUFFICES ASSUME failures' = 0
               PROVE  (st = "401" /\ server' = server) \/ (st = "ok" /\ server' = Changed(c))
    OBVIOUS
  <2>1. ~((signedIn /\ answer # "user") \/ answer = "throws" \/ fails)
    BY <1>1, <1>2
  <2>2. answer \in {"user", "none", "throws"}
    BY DEF Answers
  <2>3. answer = "user" \/ answer = "none"
    BY <2>1, <2>2
  <2>4. CASE answer = "user"
    BY <1>1, <2>1, <2>4
  <2>5. CASE answer = "none"
    BY <1>1, <2>1, <2>5
  <2> QED
    BY <2>3, <2>4, <2>5
<1>8. st \in {"401", "ok", "error"}
  OBVIOUS
<1>9. server \in [keys : SUBSET Nat, notes : SUBSET Nat]
  BY DEF Inv, Typed
<1>10. Body(c) \in SUBSET Nat
  BY <1>9 DEF Body
<1>11. /\ d \in CallType /\ d.op = c.op /\ d.id = c.id /\ d.ear = c.ear
       /\ d.st = st /\ d.body = Body(c)
  <2> DEFINE body == Body(c)
  <2>1. body \in SUBSET Nat
    BY <1>10
  <2> HIDE DEF st, body
  <2>2. d = [c EXCEPT !.st = st, !.body = body]
    BY DEF body
  <2> HIDE DEF d
  <2>3. /\ d \in CallType /\ d.op = c.op /\ d.id = c.id /\ d.ear = c.ear
        /\ d.st = st /\ d.body = body
    <3>1. d \in CallType
      BY <1>2, <1>8, <2>1, <2>2 DEF CallType
    <3>2. d.op = c.op /\ d.id = c.id /\ d.ear = c.ear
      BY <1>2, <2>2 DEF CallType
    <3>3. d.st = st /\ d.body = body
      BY <1>2, <2>2 DEF CallType
    <3> QED
      BY <3>1, <3>2, <3>3
  <2> QED
    BY <2>3 DEF body
<1>12. /\ c.op \in {"loadKeys", "addKey", "dropKey"} => Changed(c).notes = server.notes
       /\ c.op \in {"loadNotes", "addNote", "dropNote"} => Changed(c).keys = server.keys
       /\ c.op \in {"loadKeys", "loadNotes"} => Changed(c) = server
       /\ c.op = "addNote" => Changed(c).notes = server.notes \cup {c.id}
       /\ c.op = "dropNote" => Changed(c).notes = server.notes \ {c.id}
  BY <1>9 DEF Changed
<1>13. server' \in [keys : SUBSET Nat, notes : SUBSET Nat]
  <2>1. c.id \in Nat
    BY <1>2 DEF CallType
  <2>2. Changed(c) \in [keys : SUBSET Nat, notes : SUBSET Nat]
    BY <1>9, <2>1 DEF Changed
  <2> QED
    BY <1>5, <1>9, <2>2
<1> HIDE DEF d, st
<1>14. Typed'
  BY <1>3, <1>4, <1>6, <1>11, <1>13 DEF Inv, Typed
<1>15. NoErrors'
  BY <1>3, <1>6, <1>7, <1>11 DEF Inv, NoErrors
<1>16. NothingHidden' => NothingHidden
  BY <1>4, <1>6 DEF NothingHidden
<1>17. c.op \in KeyOps \cup NoteOps \cup {"loadKeys", "loadNotes"}
  BY <1>2 DEF CallType
<1>18. KeysKnown'
  <2> SUFFICES ASSUME NothingHidden', Settled(KeyOps)'
               PROVE  /\ keys.data # None /\ ~keys.invalid => keys.data = server'.keys
                      /\ \A e \in calls' : e.op = "loadKeys" /\ e.st = "ok" /\ e.ear # "none"
                                              => e.body = server'.keys
    BY <1>4 DEF KeysKnown
  <2>1. failures' = 0
    BY DEF NothingHidden
  <2>2. c.op \in KeyOps => st # "ok"
    BY <1>3, <1>11 DEF Settled
  <2>3. server'.keys = server.keys
    BY <1>7, <1>12, <1>17, <2>1, <2>2 DEF KeyOps, NoteOps
  <2>4. Settled(KeyOps)
    BY <1>2, <1>3 DEF Settled
  <2>5. /\ keys.data # None /\ ~keys.invalid => keys.data = server.keys
        /\ \A e \in calls : e.op = "loadKeys" /\ e.st = "ok" /\ e.ear # "none"
                               => e.body = server.keys
    BY <1>16, <2>4 DEF Inv, KeysKnown
  <2>6. c.op = "loadKeys" => d.body = server.keys
    BY <1>11 DEF Body
  <2> QED
    BY <1>3, <1>11, <2>3, <2>5, <2>6
<1>19. IdsMade'
  <2>1. c.op \in NoteOps => c.id \in 1..made
    BY <1>2 DEF Inv, IdsMade
  <2>2. Changed(c).notes \subseteq 1..made
    BY <1>12, <1>17, <2>1 DEF Inv, IdsMade, KeyOps, NoteOps
  <2>3. /\ server'.notes \subseteq 1..made' /\ notes' \subseteq 1..made'
        /\ confirm' # None /\ page' # "keys" => page' = "notes" /\ confirm' \in 1..made'
    BY <1>4, <1>5, <2>2 DEF Inv, IdsMade
  <2>4. \A e \in calls' : e.op \in NoteOps => e.id \in 1..made'
    BY <1>3, <1>4, <1>11, <2>1 DEF Inv, IdsMade
  <2>5. \A e \in calls' : e.op = "loadNotes" => e.body \subseteq 1..made'
    <3>1. c.op = "loadNotes" => Body(c) \subseteq 1..made
      BY DEF Body, Inv, IdsMade
    <3> QED
      BY <1>3, <1>4, <1>11, <3>1 DEF Inv, IdsMade
  <2>6. \A e, f \in calls' : e.op = "addNote" /\ f.op = "addNote" /\ e.id = f.id => e = f
    <3>1. \A e, f \in calls : e.op = "addNote" /\ f.op = "addNote" /\ e.id = f.id => e = f
      BY DEF Inv, IdsMade
    <3>2. \A e \in calls \ {c} : ~(e.op = "addNote" /\ c.op = "addNote" /\ e.id = c.id)
      BY <1>2, <3>1
    <3> QED
      BY <1>3, <1>11, <3>1, <3>2
  <2> QED
    BY <2>3, <2>4, <2>5, <2>6 DEF IdsMade
<1>20. Unseen'
  <2> SUFFICES ASSUME NothingHidden', page = "notes", NEW e \in calls', e.op = "addNote",
                      e.ear = "page"
               PROVE  /\ e.id \notin notes /\ (confirm # None => confirm # e.id)
                      /\ \A f \in calls' : f.op = "dropNote" => f.id # e.id
    BY <1>4 DEF Unseen
  <2>1. PICK g \in calls : g.op = e.op /\ g.ear = e.ear /\ g.id = e.id
    BY <1>2, <1>3, <1>11
  <2>2. /\ g.id \notin notes /\ (confirm # None => confirm # g.id)
        /\ \A f \in calls : f.op = "dropNote" => f.id # g.id
    BY <1>16, <2>1 DEF Inv, Unseen
  <2> QED
    BY <1>2, <1>3, <1>11, <2>1, <2>2
<1>21. NotesKnown'
  <2> SUFFICES ASSUME PageHears'
               PROVE  NotesKnown'
    BY DEF NotesKnown
  <2>1. failures' = 0 /\ NothingHidden /\ ~message /\ page = "notes"
    BY <1>4, <1>16 DEF PageHears, NothingHidden
  <2>2. PageHears
    BY <1>2, <1>3, <2>1 DEF PageHears
  <2>3. /\ PageLoads \/ \A id \in Nat \ Pending : id \in notes <=> id \in server.notes
        /\ Settled(NoteOps) =>
             \A e \in calls : e.op = "loadNotes" /\ e.ear = "page" /\ e.st = "ok"
                                => e.body = server.notes
        /\ \A e \in calls : e.st = "ok" /\ e.op = "addNote" => e.id \in server.notes
        /\ \A e \in calls : e.st = "ok" /\ e.op = "dropNote" => e.id \notin server.notes
    BY <2>2 DEF Inv, NotesKnown
  <2>4. PageLoads => PageLoads'
    BY <1>2, <1>3, <1>11 DEF PageLoads
  <2>5. Pending \subseteq Pending' /\ (c.op \in NoteOps /\ st = "ok" => c.id \in Pending')
    <3>1. \A e \in calls : e.op \in NoteOps /\ e.st = "ok" => e \in calls'
      BY <1>2, <1>3
    <3>2. Pending \subseteq Pending'
      BY <3>1 DEF Pending
    <3>3. d \in calls'
      BY <1>3
    <3> QED
      BY <1>11, <3>2, <3>3 DEF Pending
  <2>6. ~(c.op \in NoteOps /\ st = "ok") => server'.notes = server.notes
    BY <1>7, <1>12, <1>17, <2>1 DEF KeyOps, NoteOps
  <2>7. c.op \in NoteOps /\ st = "ok" =>
          server'.notes = (IF c.op = "addNote" THEN server.notes \cup {c.id}
                           ELSE server.notes \ {c.id})
    BY <1>7, <1>12, <2>1 DEF NoteOps
  <2>8. PageLoads' \/ \A id \in Nat \ Pending' : id \in notes' <=> id \in server'.notes
    BY <1>4, <2>3, <2>4, <2>5, <2>6, <2>7
  <2>9. Settled(NoteOps)' =>
          \A e \in calls' : e.op = "loadNotes" /\ e.ear = "page" /\ e.st = "ok"
                             => e.body = server'.notes
    <3> SUFFICES ASSUME Settled(NoteOps)', NEW e \in calls', e.op = "loadNotes",
                        e.ear = "page", e.st = "ok"
                 PROVE  e.body = server'.notes
      OBVIOUS
    <3>1. ~(c.op \in NoteOps /\ st = "ok")
      BY <1>3, <1>11 DEF Settled
    <3>2. Settled(NoteOps)
      BY <1>2, <1>3 DEF Settled
    <3>3. c.op = "loadNotes" => d.body = server.notes
      BY <1>11 DEF Body
    <3>4. e.body = server.notes
      BY <1>3, <1>11, <2>3, <3>2, <3>3
    <3> QED
      BY <2>6, <3>1, <3>4
  <2>10. ASSUME NEW e \in calls', e.st = "ok", e.op = "addNote"
         PROVE  e.id \in server'.notes
    <3>1. CASE e = d
      BY <1>11, <2>7, <2>10, <3>1 DEF NoteOps
    <3>2. CASE e \in calls
      <4>1. e.id \in server.notes /\ e.ear = "page"
        BY <2>3, <2>10, <3>2 DEF PageHears, NoteOps
      <4>2. c.op = "dropNote" => c.id # e.id
        BY <1>2, <2>1, <2>10, <3>2, <4>1 DEF Inv, Unseen
      <4> QED
        BY <2>6, <2>7, <4>1, <4>2 DEF NoteOps
    <3> QED
      BY <1>3, <3>1, <3>2
  <2>11. ASSUME NEW e \in calls', e.st = "ok", e.op = "dropNote"
         PROVE  e.id \notin server'.notes
    <3>1. CASE e = d
      BY <1>11, <2>7, <2>11, <3>1 DEF NoteOps
    <3>2. CASE e \in calls
      <4>1. e.id \notin server.notes
        BY <2>3, <2>11, <3>2
      <4>2. c.op = "addNote" /\ st = "ok" => c.id # e.id
        <5> SUFFICES ASSUME c.op = "addNote", st = "ok"
                     PROVE  c.id # e.id
          OBVIOUS
        <5>1. d.ear = "page"
          BY <1>3, <1>11 DEF PageHears, NoteOps
        <5> QED
          BY <1>2, <1>11, <2>1, <2>11, <3>2, <5>1 DEF Inv, Unseen
      <4> QED
        BY <2>6, <2>7, <4>1, <4>2 DEF NoteOps
    <3> QED
      BY <1>3, <3>1, <3>2
  <2> QED
    BY <2>8, <2>9, <2>10, <2>11 DEF NotesKnown
<1> QED
  BY <1>14, <1>15, <1>18, <1>19, <1>20, <1>21 DEF Inv

-----------------------------------------------------------------------------
(* The answers arrive. *)

\* What holds of every call that goes, whatever it brings.
LEMMA GoneStays ==
    ASSUME Inv, NEW rest, rest \subseteq calls, calls' \subseteq rest \cup {LoadKeys},
           UNCHANGED failures
    PROVE  calls' \subseteq CallType /\ NoErrors'
<1>1. LoadKeys \in CallType /\ LoadKeys.st = "sent"
  BY DEF LoadKeys, Call, CallType
<1>2. calls' \subseteq CallType
  BY <1>1 DEF Inv, Typed
<1>3. NoErrors'
  BY <1>1 DEF Inv, NoErrors
<1> QED
  BY <1>2, <1>3

\* Of a refused call the user is told; no other one fails while nothing has failed.
LEMMA RefusalInv ==
    ASSUME Inv, NEW c \in calls, c.st # "sent", c.st # "ok", calls' = calls \ {c},
           IF c.st = "401" THEN SessionExpired ELSE UNCHANGED <<message, timer>>,
           UNCHANGED <<page, server, lists, confirm, forms, made, failures>>
    PROVE  Inv'
<1>1. UNCHANGED <<keys, notes, raced>> /\ (NothingHidden' <=> NothingHidden)
  BY DEF lists, NothingHidden
<1>2. calls' \subseteq CallType /\ NoErrors'
  BY GoneStays
<1>3. message' \in BOOLEAN
  BY DEF SessionExpired, Inv, Typed
<1>4. Typed'
  BY <1>1, <1>2, <1>3 DEF Inv, Typed
<1>5. KeysKnown'
  BY <1>1, KeysStay
<1>6. IdsMade' /\ Unseen'
  BY <1>1, ChannelsStay
<1>7. c.st \in {"sent", "ok", "401", "error"}
  BY DEF Inv, Typed, CallType
<1>8. ~PageHears'
  <2> SUFFICES ASSUME PageHears'
               PROVE  FALSE
    OBVIOUS
  <2>1. failures = 0 /\ ~message'
    BY DEF PageHears, NothingHidden
  <2>2. c.st = "401"
    BY <1>7, <2>1 DEF Inv, NoErrors
  <2> QED
    BY <2>1, <2>2 DEF SessionExpired
<1> QED
  BY <1>2, <1>4, <1>5, <1>6, <1>8 DEF Inv, NotesKnown

\* The answer of a load of the keys, while no change of them is unheard.
LEMMA LoadKeysInv ==
    ASSUME Inv, NEW c \in calls, c.st = "ok", c.ear # "none", c.op = "loadKeys",
           calls' = calls \ {c}, keys' = [data |-> c.body, invalid |-> FALSE],
           forms' \subseteq forms,
           UNCHANGED <<page, message, server, notes, raced, confirm, made, failures>>
    PROVE  Inv'
<1>1. NothingHidden' <=> NothingHidden
  BY DEF NothingHidden
<1>2. calls' \subseteq CallType /\ NoErrors'
  BY GoneStays
<1>3. c.body \in SUBSET Nat
  BY DEF Inv, Typed, CallType
<1>4. Typed'
  BY <1>2, <1>3 DEF Inv, Typed
<1>5. IdsMade' /\ Unseen'
  BY <1>1, ChannelsStay
<1>6. KeysKnown'
  <2> SUFFICES ASSUME NothingHidden', Settled(KeyOps)'
               PROVE  /\ c.body = server.keys
                      /\ \A d \in calls' : d.op = "loadKeys" /\ d.st = "ok" /\ d.ear # "none"
                                              => d.body = server.keys
    BY DEF KeysKnown
  <2>1. Settled(KeyOps)
    BY DEF Settled, KeyOps
  <2> QED
    BY <1>1, <2>1 DEF Inv, KeysKnown
<1>7. NotesKnown'
  <2>1. PageHears' => NothingHidden /\ ~message
    BY <1>1 DEF PageHears
  <2>2. \A d \in calls : d.op \in NoteOps /\ d.st = "ok" => d \in calls'
    BY DEF NoteOps
  <2>3. \A d \in calls \cup calls' :
          d.op = "loadNotes" /\ d.ear = "page" => (d \in calls <=> d \in calls')
    OBVIOUS
  <2> QED
    BY <2>1, <2>2, <2>3, NotesStay
<1> QED
  BY <1>2, <1>4, <1>5, <1>6, <1>7 DEF Inv

\* A change of the keys makes what is known of them invalid, and stops the load
\* that may not have seen it; of a load it spares the answer is still to be given,
\* or it is a race.
LEMMA ChangeKeysInv ==
    ASSUME Inv, NEW c \in calls, c.st = "ok", c.ear # "none", c.op \in KeyOps,
           Invalidate(calls \ {c}), forms' \subseteq forms,
           UNCHANGED <<page, message, server, notes, confirm, made, failures>>
    PROVE  Inv'
<1>1. NothingHidden' => NothingHidden
  BY DEF NothingHidden, Invalidate
<1>2. /\ keys' = [keys EXCEPT !.invalid = TRUE]
      /\ calls' = (IF page # "keys" \/ Spared # {} THEN calls \ {c}
                   ELSE ((calls \ {c}) \ Flying("loadKeys")) \cup {LoadKeys})
      /\ raced' = (raced \/ \E d \in Spared : d.st = "ok")
  BY DEF Invalidate, LoadKeys
<1>3. LoadKeys.op = "loadKeys" /\ LoadKeys.st = "sent"
  BY DEF LoadKeys, Call
<1>4. calls' \subseteq CallType /\ NoErrors'
  <2>1. calls' \subseteq (calls \ {c}) \cup {LoadKeys}
    BY <1>2
  <2> QED
    BY <2>1, GoneStays
<1>5. Typed'
  <2>1. keys' \in [data : {None} \cup SUBSET Nat, invalid : BOOLEAN] /\ raced' \in BOOLEAN
    BY <1>2 DEF Inv, Typed
  <2> QED
    BY <1>4, <2>1 DEF Inv, Typed
<1>6. \A d \in calls \cup calls' :
        d.op \in NoteOps \cup {"loadNotes"} => (d \in calls <=> d \in calls')
  BY <1>2, <1>3 DEF KeyOps, NoteOps, Flying
<1>7. IdsMade' /\ Unseen'
  BY <1>1, <1>6, ChannelsStay
<1>8. KeysKnown'
  <2> SUFFICES ASSUME NothingHidden', NEW d \in calls', d.op = "loadKeys", d.st = "ok",
                      d.ear # "none"
               PROVE  FALSE
    <3>1. keys'.invalid
      BY <1>2 DEF Inv, Typed
    <3> QED
      BY <3>1 DEF KeysKnown
  <2>1. \A e \in Spared : e.st # "ok"
    BY <1>2 DEF NothingHidden
  <2>2. CASE page # "keys" \/ Spared # {}
    <3>1. d \in Flying("loadKeys")
      BY <1>2, <2>2 DEF Flying
    <3>2. d \in Spared
      BY <2>2, <3>1 DEF Spared
    <3> QED
      BY <2>1, <3>2
  <2>3. CASE page = "keys" /\ Spared = {}
    BY <1>2, <1>3, <2>3 DEF Flying
  <2> QED
    BY <2>2, <2>3
<1>9. NotesKnown'
  <2>1. PageHears' => NothingHidden /\ ~message
    BY <1>1 DEF PageHears
  <2>2. \A d \in calls : d.op \in NoteOps /\ d.st = "ok" => d \in calls'
    BY <1>6
  <2>3. \A d \in calls' : d.op \in NoteOps /\ d.st = "ok" => d \in calls
    BY <1>6
  <2>4. \A d \in calls \cup calls' :
          d.op = "loadNotes" /\ d.ear = "page" => (d \in calls <=> d \in calls')
    BY <1>6
  <2> QED
    BY <2>1, <2>2, <2>3, <2>4, NotesStay
<1> QED
  BY <1>4, <1>5, <1>7, <1>8, <1>9 DEF Inv

\* The channels loaded are the manager's when no change of them is on its way.
LEMMA LoadNotesInv ==
    ASSUME Inv, NEW c \in calls, c.st = "ok", c.ear # "none", c.op = "loadNotes",
           calls' = calls \ {c}, notes' = IF c.ear = "page" THEN c.body ELSE notes,
           raced' = (raced \/ Flying("addNote") \cup Flying("dropNote") # {}),
           forms' \subseteq forms,
           UNCHANGED <<page, message, server, keys, confirm, made, failures>>
    PROVE  Inv'
<1>1. NothingHidden' => /\ NothingHidden
                        /\ \A d \in calls : d.op \in NoteOps => d.ear = "none"
  BY DEF NothingHidden, Flying, NoteOps
<1>2. calls' \subseteq CallType /\ NoErrors'
  BY GoneStays
<1>3. c.body \in SUBSET Nat /\ c.body \subseteq 1..made
  BY DEF Inv, Typed, CallType, IdsMade
<1>4. Typed'
  <2>1. notes' \subseteq Nat
    BY <1>3 DEF Inv, Typed
  <2>2. raced' \in BOOLEAN
    BY DEF Inv, Typed
  <2> QED
    BY <1>2, <2>1, <2>2 DEF Inv, Typed
<1>5. KeysKnown'
  <2>1. \A d \in calls : d.op \in KeyOps /\ d.st = "ok" => d \in calls'
    BY DEF KeyOps
  <2> QED
    BY <1>1, <2>1, KeysStay
<1>6. IdsMade'
  <2>1. notes' \subseteq 1..made
    BY <1>3 DEF Inv, IdsMade
  <2> QED
    BY <2>1 DEF Inv, IdsMade
<1>7. Unseen'
  BY <1>1 DEF Unseen, NoteOps
<1>8. NotesKnown'
  <2> SUFFICES ASSUME PageHears'
               PROVE  NotesKnown'
    BY DEF NotesKnown
  <2>1. NothingHidden /\ ~message /\ page = "notes"
    BY <1>1 DEF PageHears
  <2>2. \A d \in calls : d.op \in NoteOps => d.st # "ok"
    <3> TAKE d \in calls
    <3> HAVE d.op \in NoteOps
    <3>1. d \in calls' /\ d.ear = "none"
      BY <1>1 DEF PageHears, NoteOps
    <3> QED
      BY <3>1 DEF PageHears
  <2>3. PageHears /\ Settled(NoteOps)
    BY <2>1, <2>2 DEF PageHears, Settled
  <2>4. /\ PageLoads \/ \A id \in Nat \ Pending : id \in notes <=> id \in server.notes
        /\ \A d \in calls : d.op = "loadNotes" /\ d.ear = "page" /\ d.st = "ok"
                               => d.body = server.notes
    BY <2>3 DEF Inv, NotesKnown
  <2>5. Pending = {}
    BY <2>2 DEF Pending
  <2>6. PageLoads' \/ \A id \in Nat \ Pending' : id \in notes' <=> id \in server.notes
    <3>1. CASE c.ear = "page"
      BY <2>4, <3>1
    <3>2. CASE c.ear # "page"
      <4>1. PageLoads => PageLoads'
        BY <3>2 DEF PageLoads
      <4> QED
        BY <2>4, <2>5, <3>2, <4>1
    <3> QED
      BY <3>1, <3>2
  <2> QED
    BY <2>2, <2>4, <2>6 DEF NotesKnown, NoteOps
<1> QED
  BY <1>2, <1>4, <1>5, <1>6, <1>7, <1>8 DEF Inv

\* A change of the channels is made in place, or it is a race.
LEMMA ChangeNotesInv ==
    ASSUME Inv, NEW c \in calls, c.st = "ok", c.ear # "none", c.op \in NoteOps,
           calls' = calls \ {c},
           notes' = CASE c.ear # "page" -> notes
                      [] c.ear = "page" /\ c.op = "addNote" -> notes \cup {c.id}
                      [] OTHER -> notes \ {c.id},
           raced' = (raced \/ c.ear # "page" \/ Flying("loadNotes") # {}),
           forms' \subseteq forms,
           UNCHANGED <<page, message, server, keys, confirm, made, failures>>
    PROVE  Inv'
<1>1. NothingHidden' => NothingHidden /\ c.ear = "page" /\ Flying("loadNotes") = {}
  BY DEF NothingHidden
<1>2. /\ c.ear # "page" => notes' = notes
      /\ c.ear = "page" /\ c.op = "addNote" => notes' = notes \cup {c.id}
      /\ c.ear = "page" /\ c.op = "dropNote" => notes' = notes \ {c.id}
  BY DEF NoteOps
<1>3. c.op = "addNote" \/ c.op = "dropNote"
  BY DEF NoteOps
<1>4. calls' \subseteq CallType /\ NoErrors'
  BY GoneStays
<1>5. c.id \in Nat /\ c.id \in 1..made
  BY DEF Inv, Typed, CallType, IdsMade
<1>6. Typed'
  <2>1. notes' \subseteq Nat
    BY <1>2, <1>3, <1>5 DEF Inv, Typed
  <2>2. raced' \in BOOLEAN
    BY DEF Inv, Typed
  <2> QED
    BY <1>4, <2>1, <2>2 DEF Inv, Typed
<1>7. KeysKnown'
  <2>1. \A d \in calls : d.op \in KeyOps /\ d.st = "ok" => d \in calls'
    BY DEF KeyOps, NoteOps
  <2> QED
    BY <1>1, <2>1, KeysStay
<1>8. IdsMade'
  <2>1. notes' \subseteq 1..made
    BY <1>2, <1>3, <1>5 DEF Inv, IdsMade
  <2> QED
    BY <2>1 DEF Inv, IdsMade
<1>9. Unseen'
  <2> SUFFICES ASSUME NothingHidden', page = "notes", NEW d \in calls', d.op = "addNote",
                      d.ear = "page"
               PROVE  /\ d.id \notin notes' /\ (confirm # None => confirm # d.id)
                      /\ \A e \in calls' : e.op = "dropNote" => e.id # d.id
    BY DEF Unseen
  <2>1. /\ d.id \notin notes /\ (confirm # None => confirm # d.id)
        /\ \A e \in calls : e.op = "dropNote" => e.id # d.id
    BY <1>1 DEF Inv, Unseen
  <2>2. c.op = "addNote" => c.id # d.id
    BY DEF Inv, IdsMade
  <2> QED
    BY <1>2, <1>3, <2>1, <2>2
<1>10. NotesKnown'
  <2> SUFFICES ASSUME PageHears'
               PROVE  NotesKnown'
    BY DEF NotesKnown
  <2>1. /\ NothingHidden /\ ~message /\ page = "notes" /\ c.ear = "page"
        /\ Flying("loadNotes") = {}
    BY <1>1 DEF PageHears
  <2>2. PageHears
    BY <2>1 DEF PageHears
  <2>3. ~PageLoads
    BY <2>1 DEF PageLoads, Flying
  <2>4. /\ \A id \in Nat \ Pending : id \in notes <=> id \in server.notes
        /\ \A d \in calls : d.st = "ok" /\ d.op = "addNote" => d.id \in server.notes
        /\ \A d \in calls : d.st = "ok" /\ d.op = "dropNote" => d.id \notin server.notes
    BY <2>2, <2>3 DEF Inv, NotesKnown
  <2>5. ASSUME NEW id \in Nat, id \notin Pending'
        PROVE  id \in notes' <=> id \in server.notes
    <3>1. CASE id = c.id
      BY <1>2, <1>3, <2>1, <2>4, <3>1
    <3>2. CASE id # c.id
      <4>1. id \notin Pending
        BY <2>5, <3>2 DEF Pending
      <4> QED
        BY <1>2, <1>3, <2>1, <2>4, <3>2, <4>1
    <3> QED
      BY <3>1, <3>2
  <2>6. \A d \in calls' : d.op = "loadNotes" /\ d.ear = "page" => FALSE
    BY <2>3 DEF PageLoads
  <2> QED
    BY <2>4, <2>5, <2>6 DEF NotesKnown
<1> QED
  BY <1>4, <1>6, <1>7, <1>8, <1>9, <1>10 DEF Inv

LEMMA ArriveInv ==
    ASSUME Inv, Arrive
    PROVE  Inv'
<1>1. PICK c \in {d \in calls : d.st # "sent" /\ d.ear # "none"} :
        /\ IF c.st = "ok" THEN Apply(c, calls \ {c})
           ELSE calls' = calls \ {c} /\ UNCHANGED lists
        /\ IF c.st = "401" THEN SessionExpired ELSE UNCHANGED <<message, timer>>
        /\ forms' = IF c.st = "ok" /\ c.ear = "page" THEN forms \ {c.form} ELSE forms
        /\ UNCHANGED <<session, page, server, confirm, made, acts, failures>>
  BY DEF Arrive
<1>2. c \in calls /\ c.st # "sent" /\ c.ear # "none"
  OBVIOUS
<1>3. UNCHANGED <<page, server, confirm, made, failures>> /\ forms' \subseteq forms
  BY <1>1
<1>4. CASE c.st # "ok"
  <2>1. UNCHANGED forms
    BY <1>1, <1>4
  <2> QED
    BY <1>1, <1>2, <1>3, <1>4, <2>1, RefusalInv
<1>5. CASE c.st = "ok"
  <2>1. UNCHANGED message /\ Apply(c, calls \ {c})
    BY <1>1, <1>5
  <2>2. c.op \in KeyOps \cup NoteOps \cup {"loadKeys", "loadNotes"}
    BY DEF Inv, Typed, CallType
  <2>3. CASE c.op = "loadKeys"
    <3>1. /\ calls' = calls \ {c} /\ keys' = [data |-> c.body, invalid |-> FALSE]
          /\ UNCHANGED <<notes, raced>>
      BY <2>1, <2>3 DEF Apply
    <3> QED
      BY <1>2, <1>3, <1>5, <2>1, <2>3, <3>1, LoadKeysInv
  <2>4. CASE c.op \in KeyOps
    <3>1. Invalidate(calls \ {c}) /\ UNCHANGED notes
      BY <2>1, <2>4 DEF Apply, KeyOps
    <3> QED
      BY <1>2, <1>3, <1>5, <2>1, <2>4, <3>1, ChangeKeysInv
  <2>5. CASE c.op = "loadNotes"
    <3>1. /\ calls' = calls \ {c} /\ UNCHANGED keys
          /\ notes' = IF c.ear = "page" THEN c.body ELSE notes
          /\ raced' = (raced \/ Flying("addNote") \cup Flying("dropNote") # {})
      BY <2>1, <2>5 DEF Apply
    <3> QED
      BY <1>2, <1>3, <1>5, <2>1, <2>5, <3>1, LoadNotesInv
  <2>6. CASE c.op \in NoteOps
    <3>1. /\ calls' = calls \ {c} /\ UNCHANGED keys
          /\ notes' = CASE c.ear # "page" -> notes
                        [] c.ear = "page" /\ c.op = "addNote" -> notes \cup {c.id}
                        [] OTHER -> notes \ {c.id}
          /\ raced' = (raced \/ c.ear # "page" \/ Flying("loadNotes") # {})
      BY <2>1, <2>6 DEF Apply, NoteOps
    <3> QED
      BY <1>2, <1>3, <1>5, <2>1, <2>6, <3>1, ChangeNotesInv
  <2> QED
    BY <2>2, <2>3, <2>4, <2>5, <2>6
<1> QED
  BY <1>4, <1>5

\* A change nobody hears of is a race.
LEMMA ArriveNowhereInv ==
    ASSUME Inv, ArriveNowhere
    PROVE  Inv'
<1>1. PICK c \in {d \in calls : d.st # "sent" /\ d.ear = "none"} :
        /\ calls' = calls \ {c}
        /\ raced' = (raced \/ c.op \in {"addKey", "dropKey", "addNote", "dropNote"})
        /\ UNCHANGED <<session, page, message, timer, server, keys, notes, screen, made, acts,
                       failures>>
  BY DEF ArriveNowhere
<1>2. c \in calls /\ c.ear = "none" /\ calls' = calls \ {c}
  BY <1>1
<1>3. UNCHANGED <<page, message, server, keys, notes, forms, confirm, made, failures>>
  BY <1>1 DEF screen
<1>4. NothingHidden' => NothingHidden /\ c.op \notin KeyOps \cup NoteOps
  BY <1>1, <1>3 DEF NothingHidden, KeyOps, NoteOps
<1>5. calls' \subseteq CallType /\ NoErrors'
  BY <1>2, <1>3, GoneStays
<1>6. Typed'
  <2>1. raced' \in BOOLEAN
    BY <1>1 DEF Inv, Typed
  <2> QED
    BY <1>3, <1>5, <2>1 DEF Inv, Typed
<1>7. KeysKnown'
  <2>1. NothingHidden' => \A d \in calls : d.op \in KeyOps /\ d.st = "ok" => d \in calls'
    BY <1>2, <1>4
  <2> QED
    BY <1>2, <1>3, <1>4, <2>1, KeysStay
<1>8. IdsMade' /\ Unseen'
  BY <1>2, <1>3, <1>4, ChannelsStay
<1>9. NotesKnown'
  <2>1. PageHears' => NothingHidden /\ ~message
    BY <1>3, <1>4 DEF PageHears
  <2>2. PageHears' => \A d \in calls : d.op \in NoteOps /\ d.st = "ok" => d \in calls'
    BY <1>2, <1>4 DEF PageHears
  <2>3. \A d \in calls \cup calls' :
          d.op = "loadNotes" /\ d.ear = "page" => (d \in calls <=> d \in calls')
    BY <1>2
  <2> QED
    BY <1>2, <1>3, <2>1, <2>2, <2>3, NotesStay
<1> QED
  BY <1>5, <1>6, <1>7, <1>8, <1>9 DEF Inv

-----------------------------------------------------------------------------
(* The lists. *)

LEMMA StepInv == Inv /\ [Next]_vars => Inv'
<1> SUFFICES ASSUME Inv, [Next]_vars
             PROVE  Inv'
  OBVIOUS
<1>1. CASE Navigate \/ SignInAction \/ SignUpAction \/ Confirm \/ HandleSignOut \/ TimerFires
  BY <1>1, OpeningInv
<1>2. forms \subseteq {"key", "telegram", "slack"}
  BY DEF Inv, Typed
<1>3. CASE Expire
  <2>1. UNCHANGED <<page, message, calls, server, lists, made, failures, forms, confirm>>
    BY <1>3 DEF Expire, screen
  <2> QED
    BY <1>2, <2>1, QuietInv
<1>4. CASE HandleRequest
  BY <1>4, HandleRequestInv
<1>5. CASE Arrive
  BY <1>5, ArriveInv
<1>6. CASE ArriveNowhere
  BY <1>6, ArriveNowhereInv
<1>7. CASE Toggle
  <2>1. UNCHANGED <<page, message, calls, server, lists, made, failures, confirm>>
    BY <1>7 DEF Toggle
  <2>2. forms' \subseteq {"key", "telegram", "slack"}
    <3>1. PICK f \in FormsOf(page) : forms' = IF f \in forms THEN forms \ {f} ELSE forms \cup {f}
      BY <1>7 DEF Toggle
    <3>2. f \in {"key", "telegram", "slack"}
      BY DEF FormsOf
    <3> QED
      BY <1>2, <3>1, <3>2
  <2> QED
    BY <2>1, <2>2, QuietInv
<1>8. CASE HandleSubmit
  BY <1>8, HandleSubmitInv
<1>9. CASE AskDelete
  BY <1>9, AskDeleteInv
<1>10. CASE CancelDelete
  <2>1. /\ UNCHANGED <<page, message, calls, server, lists, made, failures, forms>>
        /\ confirm' = None
    BY <1>10 DEF CancelDelete
  <2> QED
    BY <1>2, <2>1, QuietInv
<1>11. CASE HandleDelete
  BY <1>11, HandleDeleteInv
<1>12. CASE UNCHANGED vars
  <2>1. UNCHANGED <<page, message, calls, server, lists, made, failures, forms, confirm>>
    BY <1>12 DEF vars, screen
  <2> QED
    BY <1>2, <2>1, QuietInv
<1> QED
  BY <1>1, <1>3, <1>4, <1>5, <1>6, <1>7, <1>8, <1>9, <1>10, <1>11, <1>12 DEF Next

\* With no call on its way no change is unheard and no load is due.
LEMMA InvShows == Inv => ListsTrueWhenIdle
<1> SUFFICES ASSUME Inv, calls = {}, NothingHidden
             PROVE  /\ page = "keys" /\ keys.data # None /\ ~keys.invalid => keys.data = server.keys
                    /\ page = "notes" /\ ~message => notes = server.notes
  BY DEF ListsTrueWhenIdle, NothingHidden
<1>1. keys.data # None /\ ~keys.invalid => keys.data = server.keys
  BY DEF Inv, KeysKnown, Settled
<1>2. ASSUME page = "notes", ~message
      PROVE  notes = server.notes
  <2>1. PageHears /\ ~PageLoads /\ Pending = {}
    BY <1>2 DEF PageHears, PageLoads, Pending
  <2>2. \A id \in Nat : id \in notes <=> id \in server.notes
    BY <2>1 DEF Inv, NotesKnown
  <2>3. notes \subseteq Nat /\ server.notes \subseteq Nat
    BY DEF Inv, Typed
  <2> QED
    BY <2>2, <2>3
<1> QED
  BY <1>1, <1>2

\* While nothing is on its way and nothing has failed, the settings show the keys
\* and the channels the manager has, whatever was added, deleted, left, reloaded or
\* signed out of before, for any number of them: a change stops the load it
\* overtakes.  Not so, until the next reload, after a change that met an answer of a
\* load it does not stop, or that nobody heard of (raced).
THEOREM ListsAreTrue == Spec => []ListsTrueWhenIdle
<1>1. Init => Inv
  BY InitInv
<1>2. Inv /\ [Next]_vars => Inv'
  BY StepInv
<1>3. Inv => ListsTrueWhenIdle
  BY InvShows
<1> QED
  BY <1>1, <1>2, <1>3, PTL DEF Spec
=============================================================================
