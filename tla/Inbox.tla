-------------------------------- MODULE Inbox --------------------------------
(***************************************************************************)
(* The inbox: incoming private messages, the conversations they belong to  *)
(* and the contacts they are matched with (backend/app/services/inbox.py), *)
(* fed by the engine's listener over a Redis channel to which EVERY API     *)
(* worker process subscribes (services/inbox_consumer.py, main.py).        *)
(*                                                                         *)
(* A message is handled by each worker, in its own database session, in    *)
(* the order in which it was published.  A session writes the columns whose *)
(* value it has changed from the one it had loaded (db/session.py:          *)
(* expire_on_commit and autoflush are off), so "mem" holds what was loaded. *)
(* A handler that raises is rolled back and logged: its message is gone.    *)
(*                                                                         *)
(* Message rows, the unread counter and the archived flag are left out, and *)
(* so are conversations without a peer id, which no incoming message finds. *)
(***************************************************************************)
EXTENDS Naturals, Sequences, FiniteSets

CONSTANTS
    Accounts, Peers,    \* the accounts that listen; Telegram users that write to them
    Named,              \* the peers that have a public username
    Contacts,           \* ids of the rows of contacts that may exist
    NoContact,          \* NULL
    Imports,            \* the contact tables to start from, see ContactRows
    Workers,            \* the consumers, one per API process
    Requests,           \* other sessions: an agent's request, a sender's tick
    Statuses,           \* what an agent may set a conversation to
    Changes,            \* the columns an edit of a contact may set, see ChangeRows
    Doings,             \* what the rest of the system may do, see Others
    MaxPending,         \* bound on the messages a worker is behind
    MaxEdits,           \* bound on the edits by agents and managers
    MaxCrashes          \* bound on the processes and connections that die

StageValues == {"new", "contacted", "replied", "opted_out"}
Identifiers == {"phone", "username", "id"}

\* A contact: the Telegram user it stands for, which of that user's identifiers the
\* row holds, consent, opted_out, and its stage, "absent" when there is no row.
ContactRows ==
    [of : Peers, knows : SUBSET Identifiers, consent : BOOLEAN, optedOut : BOOLEAN,
     stage : StageValues \cup {"absent"}]

\* What a request sets of a contact: each column to a value, or not at all.
ChangeRows ==
    [stage : StageValues \cup {"same"}, consent : {"same", "yes", "no"},
     optedOut : {"same", "yes", "no"}]

NoChange == [stage |-> "same", consent |-> "same", optedOut |-> "same"]

ASSUME InboxAssumption ==
    /\ Accounts # {} /\ Peers # {}
    /\ Named \subseteq Peers
    /\ NoContact \notin Contacts
    /\ Imports \subseteq [Contacts -> ContactRows]
    /\ \A table \in Imports, c \in Contacts : table[c].stage = "absent" => ~table[c].optedOut
    /\ Workers \cap Requests = {}
    /\ Statuses \subseteq StageValues \cup {"blocked"}
    /\ Changes \subseteq ChangeRows
    /\ \A change \in Changes : change.stage = "opted_out" => change.optedOut = "yes"
    /\ Doings \subseteq {"agent", "edit", "save", "resolve", "outreach"}
    /\ MaxPending \in Nat
    /\ MaxEdits \in Nat
    /\ MaxCrashes \in Nat

Sessions == Workers \cup Requests

VARIABLES
    contact,            \* contacts
    conversation,       \* conversations, unique(account_id, peer_id)
    queue,              \* what a worker's subscription has not yet yielded
    listening,          \* the workers whose consumer task is alive
    pc, mem,            \* the sessions
    stop,               \* an observer's: how far a peer's last word, a stop, has come
    edits, crashes

database == <<contact, conversation>>
sessions == <<pc, mem>>
channel  == <<queue, listening>>
bounds   == <<edits, crashes>>
vars == <<database, channel, sessions, stop, bounds>>

Events == [account : Accounts, peer : Peers, text : {"hello", "stop"}]

Conversations ==
    [status : StageValues \cup {"blocked", "absent"}, contact : Contacts \cup {NoContact}]

NoConversation == [status |-> "absent", contact |-> NoContact]
NewConversation == [NoConversation EXCEPT !.status = "new"]

\* "doing" is what the session is for; "contact", "stage", "consent" and "optedOut" the
\* contact loaded and its columns, "found" the conversation's; "fresh" says that the session
\* has inserted the conversation and not yet committed, "gone" that the one it has found
\* was deleted; "typed" and "change" are what was entered.
Memory ==
    [doing : {"nothing", "incoming", "outreach", "save", "edit"}, event : Events,
     contact : Contacts \cup {NoContact}, stage : StageValues \cup {"absent"},
     consent : BOOLEAN, optedOut : BOOLEAN, found : Conversations, fresh : BOOLEAN,
     gone : BOOLEAN, typed : SUBSET {"phone", "username"}, change : ChangeRows]

Forgotten == [doing |-> "nothing", event |-> CHOOSE e \in Events : TRUE, contact |-> NoContact,
              stage |-> "absent", consent |-> FALSE, optedOut |-> FALSE,
              found |-> NoConversation, fresh |-> FALSE, gone |-> FALSE, typed |-> {},
              change |-> NoChange]

TypeOK ==
    /\ contact \in [Contacts -> ContactRows]
    /\ conversation \in [Accounts \X Peers -> Conversations]
    /\ queue \in [Workers -> Seq(Events)]
    /\ listening \in SUBSET Workers
    /\ pc \in [Sessions -> {"idle", "find", "insert", "commit"}]
    /\ mem \in [Sessions -> Memory]
    /\ stop \in [Accounts \X Peers -> {"none", "said", "heard"}]
    /\ edits \in Nat
    /\ crashes \in Nat

Init ==
    /\ contact \in Imports
    /\ conversation = [k \in Accounts \X Peers |-> NoConversation]
    /\ queue = [w \in Workers |-> <<>>]
    /\ listening = Workers
    /\ pc = [s \in Sessions |-> "idle"]
    /\ mem = [s \in Sessions |-> Forgotten]
    /\ stop = [k \in Accounts \X Peers |-> "none"]
    /\ edits = 0
    /\ crashes = 0

-----------------------------------------------------------------------------
(* Looking up.                                                              *)

Rows(p) == {c \in Contacts : contact[c].stage # "absent" /\ contact[c].of = p}

Holding(p, ids) == {c \in Rows(p) : contact[c].knows \cap ids # {}}

\* By Telegram id first, by the username the message carries if none has the id.
Matches(p) ==
    IF Holding(p, {"id"}) = {} /\ p \in Named
    THEN Holding(p, {"username"}) ELSE Holding(p, {"id"})

\* One row is expected: with several of them the lookup raises.
IsMatch(p, c) == IF Matches(p) = {} THEN c = NoContact ELSE Matches(p) = {c}
Ambiguous(p) == Cardinality(Matches(p)) > 1

\* A session's memory with that contact loaded.
WithContact(m, c) ==
    IF c = NoContact THEN m
    ELSE [m EXCEPT !.contact = c, !.stage = contact[c].stage,
                   !.consent = contact[c].consent, !.optedOut = contact[c].optedOut]

Exists(k) == conversation[k].status # "absent"
Key(m) == <<m.event.account, m.event.peer>>

-----------------------------------------------------------------------------
(* The listener and the sessions' common steps.                             *)

\* Something else has been done to the rows of these peers: nothing is claimed of
\* their stops any more.
Interfere(peers) == stop' = [k \in DOMAIN stop |-> IF k[2] \in peers THEN "none" ELSE stop[k]]

\* The engine publishes a private message to all the workers that listen.
Publish(e) ==
    /\ listening # {}
    /\ \A w \in Workers : Len(queue[w]) < MaxPending
    /\ queue' = [w \in Workers |-> IF w \in listening THEN Append(queue[w], e) ELSE queue[w]]
    /\ IF e.text = "stop"
       THEN stop' = [stop EXCEPT ![<<e.account, e.peer>>] = "said"]
       ELSE Interfere({e.peer})
    /\ UNCHANGED <<database, listening, sessions, bounds>>

Close(s) ==
    /\ pc' = [pc EXCEPT ![s] = "idle"]
    /\ mem' = [mem EXCEPT ![s] = Forgotten]

\* A statement of the session raises: the session is rolled back.
Fail(s) == Close(s) /\ UNCHANGED <<database, stop>>

Dropped(w) ==
    /\ queue' = [queue EXCEPT ![w] = Tail(@)]
    /\ Interfere({Head(queue[w]).peer})

\* get_or_create_conversation: the row is found, or is going to be inserted.
Lookup(s, m) ==
    LET k == Key(m) IN
    /\ pc' = [pc EXCEPT ![s] = IF Exists(k) THEN "commit" ELSE "insert"]
    /\ mem' = [mem EXCEPT ![s] = IF Exists(k) THEN [m EXCEPT !.found = conversation[k]] ELSE m]

\* A worker takes its next message and looks for the peer's contact and conversation.
TakeMessage(w) ==
    /\ pc[w] = "idle"
    /\ queue[w] # <<>>
    /\ LET e == Head(queue[w]) IN
       \/ /\ \E c \in Contacts \cup {NoContact} :
                /\ IsMatch(e.peer, c)
                /\ Lookup(w, WithContact([Forgotten EXCEPT !.doing = "incoming", !.event = e], c))
          /\ queue' = [queue EXCEPT ![w] = Tail(@)]
          /\ UNCHANGED stop
       \/ /\ Ambiguous(e.peer)
          /\ Dropped(w)
          /\ UNCHANGED sessions
    /\ UNCHANGED <<database, listening, bounds>>

Inserting(r, k) == mem[r].fresh /\ Key(mem[r]) = k

\* The insert waits for another session's uncommitted row of the same key, and raises
\* if there is a row by now.
InsertConversation(s) ==
    LET k == Key(mem[s]) IN
    /\ pc[s] = "insert"
    /\ \A r \in Sessions \ {s} : ~Inserting(r, k)
    /\ IF Exists(k)
       THEN Fail(s)
       ELSE /\ pc' = [pc EXCEPT ![s] = "commit"]
            /\ mem' = [mem EXCEPT ![s].fresh = TRUE, ![s].found = NewConversation]
            /\ UNCHANGED <<database, stop>>
    /\ UNCHANGED <<channel, bounds>>

-----------------------------------------------------------------------------
(* Commits.                                                                 *)

\* A column is written if its value differs from the one loaded.
Written(new, loaded, current) == IF new = loaded THEN current ELSE new

\* A conversation that has no contact yet is linked to the one found.
Linked(m) == IF m.found.contact = NoContact THEN m.contact ELSE m.found.contact

\* The conversation after a commit of m: the row inserted, or the current one with the
\* columns that m has changed.
Stored(m, status) ==
    LET now == conversation[Key(m)] IN
    IF m.fresh THEN [status |-> status, contact |-> Linked(m)]
    ELSE [status  |-> Written(status, m.found.status, now.status),
          contact |-> Written(Linked(m), m.found.contact, now.contact)]

\* Mutant: a stage the table does not allow.
Answer_BadStage(m) == IF m.event.text = "stop" THEN "stopped" ELSE "replied"

Answer(m) == IF m.event.text = "stop" THEN "opted_out" ELSE "replied"

\* Mutant: the stop of a contact that is opted out already changes nothing.
Moves_OnlyOnce(m) ==
    (m.event.text = "stop" /\ ~m.optedOut) \/ m.stage \in {"new", "contacted"}

Moves(m) == m.event.text = "stop" \/ m.stage \in {"new", "contacted"}

\* Mutant: all columns are written, also those the handler has not changed.
AfterIncoming_AllColumns(m) ==
    [contact[m.contact] EXCEPT
        !.stage = IF Moves(m) THEN Answer(m) ELSE m.stage,
        !.optedOut = m.optedOut \/ m.event.text = "stop"]

AfterIncoming(m) ==
    [contact[m.contact] EXCEPT
        !.stage = IF Moves(m) THEN Written(Answer(m), m.stage, @) ELSE @,
        !.optedOut = IF m.event.text = "stop" THEN Written(TRUE, m.optedOut, @) ELSE @]

\* record_incoming's commit.
CommitIncoming(w) ==
    LET m == mem[w]
        k == Key(m)
    IN  /\ pc[w] = "commit"
        /\ m.doing = "incoming"
        /\ IF m.gone
           THEN Fail(w)
           ELSE /\ conversation' = [conversation EXCEPT ![k] =
                     Stored(m, IF Moves(m) THEN Answer(m) ELSE m.found.status)]
                /\ contact' = IF m.contact = NoContact THEN contact
                              ELSE [contact EXCEPT ![m.contact] = AfterIncoming(m)]
                /\ stop' = [stop EXCEPT ![k] =
                               IF m.event.text = "stop" /\ @ = "said" THEN "heard" ELSE @]
                /\ Close(w)
        /\ UNCHANGED <<channel, bounds>>

-----------------------------------------------------------------------------
(* Outreach, by a tick of the sender or of a campaign: the contact is loaded, *)
(* messaged, and the message recorded.                                      *)

Eligible(c) == contact[c].stage # "absent" /\ contact[c].consent /\ ~contact[c].optedOut

\* A contact without a Telegram id gets a conversation without a peer id.
LoadForOutreach(r, a, c) ==
    LET e == [account |-> a, peer |-> contact[c].of, text |-> "hello"] IN
    /\ pc[r] = "idle"
    /\ Eligible(c)
    /\ mem' = [mem EXCEPT ![r] =
          WithContact([Forgotten EXCEPT !.doing = "outreach", !.event = e], c)]
    /\ pc' = [pc EXCEPT ![r] = IF "id" \in contact[c].knows THEN "find" ELSE "commit"]
    /\ UNCHANGED <<database, channel, stop, bounds>>

\* The engine has sent the message: its conversation is looked for.
RecordOutreach(r) ==
    /\ pc[r] = "find"
    /\ Lookup(r, mem[r])
    /\ UNCHANGED <<database, channel, stop, bounds>>

\* The message is recorded; a contact loaded as new becomes a contacted one.
CommitOutreach(r) ==
    LET m == mem[r]
        addressed == m.found # NoConversation
    IN  /\ pc[r] = "commit"
        /\ m.doing = "outreach"
        /\ IF addressed /\ m.gone
           THEN Fail(r)
           ELSE /\ conversation' = IF addressed
                     THEN [conversation EXCEPT ![Key(m)] = Stored(m, m.found.status)]
                     ELSE conversation
                /\ contact' = [contact EXCEPT ![m.contact].stage =
                                   IF m.stage = "new" THEN "contacted" ELSE @]
                /\ Close(r)
                /\ UNCHANGED stop
        /\ UNCHANGED <<channel, bounds>>

-----------------------------------------------------------------------------
(* What agents and managers do.                                             *)

Edit == edits < MaxEdits /\ edits' = edits + 1 /\ UNCHANGED crashes

SetStatus(k, status) ==
    /\ Edit
    /\ Exists(k)
    /\ conversation' = [conversation EXCEPT ![k].status = status]
    /\ contact' = LET c == conversation[k].contact IN
                  IF c = NoContact \/ status = "blocked" THEN contact
                  ELSE [contact EXCEPT ![c].stage = status,
                                       ![c].optedOut = @ \/ status = "opted_out"]
    /\ Interfere({k[2]})
    /\ UNCHANGED <<channel, sessions>>

\* Sessions that have found the row fail when they come to update it.
DeleteConversation(k) ==
    /\ Edit
    /\ Exists(k)
    /\ conversation' = [conversation EXCEPT ![k] = NoConversation]
    /\ mem' = [s \in Sessions |->
          IF pc[s] = "commit" /\ ~mem[s].fresh /\ Key(mem[s]) = k
          THEN [mem[s] EXCEPT !.gone = TRUE] ELSE mem[s]]
    /\ Interfere({k[2]})
    /\ UNCHANGED <<contact, channel, pc>>

\* An agent's PATCH of a contact, or a row of a manager's bulk request: the row is loaded,
\* the columns asked for are set, and the session commits.
LoadForEdit(r, c, change) ==
    /\ pc[r] = "idle"
    /\ Edit
    /\ contact[c].stage # "absent"
    /\ mem' = [mem EXCEPT ![r] =
          WithContact([Forgotten EXCEPT !.doing = "edit", !.event.peer = contact[c].of,
                                        !.change = change], c)]
    /\ pc' = [pc EXCEPT ![r] = "commit"]
    /\ UNCHANGED <<database, channel, stop>>

\* A column set to yes or no, as it is after the commit.
Flag(asked, loaded, current) ==
    IF asked = "same" THEN current ELSE Written(asked = "yes", loaded, current)

AfterEdit(m) ==
    [contact[m.contact] EXCEPT
        !.stage = IF m.change.stage = "same" THEN @ ELSE Written(m.change.stage, m.stage, @),
        !.consent = Flag(m.change.consent, m.consent, @),
        !.optedOut = Flag(m.change.optedOut, m.optedOut, @)]

CommitEdit(r) ==
    LET m == mem[r] IN
    /\ pc[r] = "commit"
    /\ m.doing = "edit"
    /\ contact' = [contact EXCEPT ![m.contact] = AfterEdit(m)]
    /\ Interfere({m.event.peer})
    /\ Close(r)
    /\ UNCHANGED <<conversation, channel, bounds>>

\* The engine looks the contact up: the row holds the Telegram id, or none any more.
Resolve(c, resolved) ==
    /\ Edit
    /\ contact[c].stage # "absent"
    /\ contact[c].knows \cap {"phone", "username"} # {}
    /\ contact' = [contact EXCEPT ![c].knows =
                      IF resolved THEN @ \cup {"id"} ELSE @ \ {"id"}]
    /\ Interfere({contact[c].of})
    /\ UNCHANGED <<conversation, channel, sessions>>

\* save_peer_as_contact looks for a row with the identifiers typed, else for the peer's.
\* Another row with one of them is a conflict, which ends the request.
LoadForSave(r, k, typed) ==
    LET p == k[2]
        known == Holding(p, typed)
    IN  /\ pc[r] = "idle"
        /\ Edit
        /\ Exists(k)
        /\ conversation[k].contact = NoContact
        /\ "username" \in typed => p \in Named
        /\ \E c \in Contacts \cup {NoContact} :
            /\ IF known = {} THEN IsMatch(p, c) ELSE known = {c}
            /\ mem' = [mem EXCEPT ![r] =
                  [Forgotten EXCEPT !.doing = "save", !.contact = c, !.typed = typed,
                       !.event = [account |-> k[1], peer |-> p, text |-> "hello"],
                       !.found = conversation[k]]]
        /\ pc' = [pc EXCEPT ![r] = "commit"]
        /\ UNCHANGED <<database, channel, stop>>

\* A new row for the peer of m: the peer wrote first, which counts as consent.
SavedRow(m) ==
    [of |-> m.event.peer,
     knows |-> {"id"} \cup m.typed \cup (IF m.event.peer \in Named THEN {"username"} ELSE {}),
     consent |-> TRUE, optedOut |-> FALSE,
     stage |-> IF m.found.status = "blocked" THEN "replied" ELSE m.found.status]

\* Contacts bounds the rows: a request that finds no free one is given up.
CommitSave(r) ==
    LET m == mem[r]
        free == {c \in Contacts : contact[c].stage = "absent"}
    IN  /\ pc[r] = "commit"
        /\ m.doing = "save"
        /\ IF m.gone \/ (m.contact = NoContact /\ free = {})
           THEN Fail(r)
           ELSE \E c \in IF m.contact = NoContact THEN free ELSE {m.contact} :
                /\ contact' = [contact EXCEPT ![c] =
                      IF m.contact = NoContact THEN SavedRow(m)
                      ELSE [contact[c] EXCEPT !.knows = @ \cup m.typed \cup {"id"}]]
                /\ conversation' = [conversation EXCEPT ![Key(m)].contact = c]
                /\ Interfere({m.event.peer})
                /\ Close(r)
        /\ UNCHANGED <<channel, bounds>>

-----------------------------------------------------------------------------
(* Failures.                                                                *)

Waiting(w) == {queue[w][i].peer : i \in DOMAIN queue[w]}

\* The process of a session dies; a worker's starts again with an empty subscription.
Crash(s) ==
    /\ s \in Workers \/ pc[s] # "idle"
    /\ crashes < MaxCrashes
    /\ crashes' = crashes + 1
    /\ Close(s)
    /\ IF s \in Workers
       THEN /\ queue' = [queue EXCEPT ![s] = <<>>]
            /\ listening' = listening \cup {s}
            /\ Interfere(Waiting(s) \cup {mem[s].event.peer})
       ELSE UNCHANGED <<channel, stop>>
    /\ UNCHANGED <<database, edits>>

\* The connection to Redis breaks: the consumer's task ends, and nothing restarts it.
Disconnect(w) ==
    /\ crashes < MaxCrashes
    /\ pc[w] = "idle"
    /\ w \in listening
    /\ crashes' = crashes + 1
    /\ listening' = listening \ {w}
    /\ queue' = [queue EXCEPT ![w] = <<>>]
    /\ Interfere(Waiting(w))
    /\ UNCHANGED <<database, sessions, edits>>

-----------------------------------------------------------------------------

SessionStep(s) ==
    \/ InsertConversation(s)
    \/ s \in Workers /\ (TakeMessage(s) \/ CommitIncoming(s))
    \/ s \in Requests /\
          (RecordOutreach(s) \/ CommitOutreach(s) \/ CommitSave(s) \/ CommitEdit(s))

Keys == Accounts \X Peers

Others ==
    \/ \E e \in Events : Publish(e)
    \/ "agent" \in Doings /\ \E k \in Keys :
            DeleteConversation(k) \/ \E status \in Statuses : SetStatus(k, status)
    \/ "edit" \in Doings /\ \E r \in Requests, c \in Contacts, change \in Changes :
            LoadForEdit(r, c, change)
    \/ "resolve" \in Doings /\ \E c \in Contacts, resolved \in BOOLEAN : Resolve(c, resolved)
    \/ "save" \in Doings /\ \E r \in Requests, k \in Keys, typed \in SUBSET {"phone", "username"} :
            LoadForSave(r, k, typed)
    \/ "outreach" \in Doings /\ \E r \in Requests, a \in Accounts, c \in Contacts :
            LoadForOutreach(r, a, c)

Next ==
    \/ Others
    \/ \E s \in Sessions : SessionStep(s) \/ Crash(s)
    \/ \E w \in Workers : Disconnect(w)

Spec == Init /\ [][Next]_vars

-----------------------------------------------------------------------------
(* Properties.                                                              *)

Quiet == /\ \A s \in Sessions : pc[s] = "idle"
         /\ \A w \in Workers : queue[w] = <<>>

\* The account is the only one the peer has a conversation with.
OnlyOne(k) == \A j \in Keys \ {k} : j[2] = k[2] => ~Exists(j)

\* Workers handle the same messages at different speeds, and a slow one may write the
\* answer to an older message over a newer stop.  When all of them are through, a stop
\* that one of them has committed is what the database says: the conversation is opted
\* out, and so is the contact the peer is matched with.  Its stage says so too (unless a
\* tick that had loaded it has put it back to contacted) for a peer that writes to one
\* account; a slow answer to another account's message may write over the stage for good.
StopTakesHold ==
    Quiet => \A k \in Keys : stop[k] = "heard" =>
        /\ conversation[k].status = "opted_out"
        /\ \A c \in Contacts : IsMatch(k[2], c) =>
              /\ contact[c].optedOut
              /\ OnlyOne(k) => contact[c].stage \in {"opted_out", "contacted"}

\* The step is the commit of a request that had loaded the contact as opted out and was
\* asked to take that back.
Revokes(r, c) ==
    /\ pc[r] = "commit" /\ pc'[r] = "idle"
    /\ mem[r].doing = "edit" /\ mem[r].contact = c
    /\ mem[r].optedOut /\ mem[r].change.optedOut = "no"

\* A contact that opted out stays out until an agent or a manager who has it before them as
\* opted out says otherwise: no commit of a handler, a tick, a save or an edit that had
\* loaded the row before the stop takes it back, because a session writes only what it has
\* changed.
OptOutStays ==
    [][\A c \in Contacts :
          contact[c].optedOut /\ ~contact'[c].optedOut => \E r \in Requests : Revokes(r, c)]_vars

\* "Opt-outs are honored automatically and permanently" (README.md:9): when all workers
\* are through, no contact that stands for a peer whose last word was stop may be messaged.
OptOutHonored ==
    Quiet => \A k \in Keys : stop[k] # "none" =>
        \A c \in Rows(k[2]) : ~Eligible(c)
=============================================================================
