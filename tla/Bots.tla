--------------------------------- MODULE Bots ---------------------------------
(***************************************************************************)
(* One hosted bot: its row and its subscribers' messages in the backend      *)
(* (backend/app/services/bots.py, api/bots.py, services/bot_consumer.py) and *)
(* the tasks that poll Telegram for it in the engine                         *)
(* (backend/engine/bots_manager.py).                                        *)
(*                                                                         *)
(* Every worker hears every event and writes it down.  There is one           *)
(* subscriber; names, the count of unread messages (see Threads, which has    *)
(* the same code), replies, posts and broadcasts are left out.               *)
(***************************************************************************)
EXTENDS Naturals, Sequences, FiniteSets

CONSTANTS
    BtRequests,
    BtWorkers,          \* the workers that listen for events
    BtTexts,            \* events 1..n: those that are texts, the others are /start
    BtEvents,
    BtMaxRequests,      \* bound on the requests started
    BtMaxFaults         \* bound on restarts of the engine and calls that fail

ASSUME BotsAssumption ==
    /\ BtWorkers # {} /\ IsFiniteSet(BtEvents)
    /\ BtEvents = 1..Cardinality(BtEvents) /\ BtTexts \subseteq BtEvents
    /\ BtMaxRequests \in Nat /\ BtMaxFaults \in Nat

VARIABLES
    btStatus,           \* the row's status; "none" once it is removed
    btHeld,             \* the task the manager knows (_tasks); 0 if none
    btPollers,          \* the tasks that poll
    btPc, btMem,        \* requests: the step, and the status loaded
    btNextEvent,        \* the next event of Telegram
    btQueue,            \* what each worker has yet to handle
    btLoaded,           \* what a worker has loaded for the event it handles
    btSubscriber, btConversation,
    btCopies,           \* how often each event was written down
    btStarts,           \* an observer's: tasks made while another start was under way
    btRaced,            \* an observer's: two requests were under way at once
    btRequests, btFaults

btRow == <<btStatus>>
btEngine == <<btHeld, btPollers, btStarts>>
btSessions == <<btPc, btMem>>
btInbox == <<btSubscriber, btConversation, btCopies>>
btEvents == <<btNextEvent, btQueue, btLoaded>>
btVars == <<btRow, btEngine, btSessions, btEvents, btInbox, btRaced, btRequests, btFaults>>

BtStatuses == {"none", "stopped", "running"}
BtSteps == {"idle", "halt", "poll", "stop", "remove", "started", "stopped", "removed"}
BtNotLoaded == [subscriber |-> FALSE, conversation |-> FALSE, busy |-> FALSE]

BtTypeOK ==
    /\ btStatus \in BtStatuses
    /\ btHeld \in 0..BtMaxRequests
    /\ btPollers \subseteq 1..BtMaxRequests
    /\ btStarts \subseteq 1..BtMaxRequests
    /\ btPc \in [BtRequests -> BtSteps]
    /\ btMem \in [BtRequests -> BtStatuses]
    /\ btNextEvent \in 1..(Cardinality(BtEvents) + 1)
    /\ \A w \in BtWorkers : btQueue[w] \in Seq(BtEvents)
    /\ btLoaded \in [BtWorkers -> [subscriber : BOOLEAN, conversation : BOOLEAN, busy : BOOLEAN]]
    /\ btSubscriber \in BOOLEAN /\ btConversation \in BOOLEAN
    /\ btCopies \in [BtEvents -> 0..Cardinality(BtWorkers)]
    /\ btRaced \in BOOLEAN
    /\ btRequests \in 0..BtMaxRequests
    /\ btFaults \in 0..BtMaxFaults

BtInit ==
    /\ btStatus = "stopped"
    /\ btHeld = 0
    /\ btPollers = {}
    /\ btStarts = {}
    /\ btPc = [r \in BtRequests |-> "idle"]
    /\ btMem = [r \in BtRequests |-> "none"]
    /\ btNextEvent = 1
    /\ btQueue = [w \in BtWorkers |-> <<>>]
    /\ btLoaded = [w \in BtWorkers |-> BtNotLoaded]
    /\ btSubscriber = FALSE
    /\ btConversation = FALSE
    /\ btCopies = [e \in BtEvents |-> 0]
    /\ btRaced = FALSE
    /\ btRequests = 0
    /\ btFaults = 0

-----------------------------------------------------------------------------
(* Starting, stopping and removing.                                         *)

BtAt(r, step) ==
    /\ btPc' = [btPc EXCEPT ![r] = step]
    /\ UNCHANGED btMem

BtBegin(r, step) ==
    /\ btPc[r] = "idle"
    /\ btStatus # "none"
    /\ btRequests < BtMaxRequests
    /\ btRequests' = btRequests + 1
    /\ btPc' = [btPc EXCEPT ![r] = step]
    /\ btMem' = [btMem EXCEPT ![r] = btStatus]
    /\ btRaced' = (btRaced \/ \E q \in BtRequests \ {r} : btPc[q] # "idle")
    /\ UNCHANGED <<btRow, btEngine, btEvents, btInbox, btFaults>>

\* Mutant: the task that runs is left alone.
BtHalted_Not == UNCHANGED <<btHeld, btPollers>>

\* BotManager.stop, the task it knows of
BtHalted ==
    /\ btPollers' = btPollers \ {btHeld}
    /\ btHeld' = 0

\* BotManager.start: stop first ...
BtHalt(r) ==
    /\ btPc[r] = "halt"
    /\ BtHalted
    /\ BtAt(r, "poll")
    /\ UNCHANGED <<btRow, btStarts, btEvents, btInbox, btRaced, btRequests, btFaults>>

\* ... ask Telegram, then poll.  A task the manager has known before is forgotten.
BtPoll(r) ==
    LET new == CHOOSE p \in 1..BtMaxRequests : p \notin btStarts \cup btPollers IN
    /\ btPc[r] = "poll"
    /\ btHeld' = new
    /\ btPollers' = btPollers \cup {new}
    /\ btStarts' = IF \E q \in BtRequests \ {r} : btPc[q] \in {"halt", "poll"}
                   THEN btStarts \cup {new} ELSE btStarts
    /\ BtAt(r, "started")
    /\ UNCHANGED <<btRow, btEvents, btInbox, btRaced, btRequests, btFaults>>

BtStop(r) ==
    /\ btPc[r] \in {"stop", "remove"}
    /\ BtHalted
    /\ BtAt(r, IF btPc[r] = "stop" THEN "stopped" ELSE "removed")
    /\ UNCHANGED <<btRow, btStarts, btEvents, btInbox, btRaced, btRequests, btFaults>>

BtAfterFailure(step) ==
    CASE step = "stop" -> "stopped" [] step = "remove" -> "removed"
      [] step \in {"halt", "poll", "started"} -> "idle" [] OTHER -> step

\* Telegram or the engine cannot be reached, or the answer is late: a start is given up, a
\* stop and a removal go on.
BtFail(r) ==
    /\ btPc[r] \in {"halt", "poll", "stop", "remove", "started"}
    /\ btFaults < BtMaxFaults
    /\ btFaults' = btFaults + 1
    /\ BtAt(r, BtAfterFailure(btPc[r]))
    /\ UNCHANGED <<btRow, btEngine, btEvents, btInbox, btRaced, btRequests>>

\* The engine restarts and starts no bot again.
BtEngineRestart ==
    /\ btFaults < BtMaxFaults
    /\ btFaults' = btFaults + 1
    /\ btHeld' = 0
    /\ btPollers' = {}
    /\ btPc' = [r \in BtRequests |-> IF btPc[r] = "started" THEN "started" ELSE BtAfterFailure(btPc[r])]
    /\ UNCHANGED <<btRow, btStarts, btMem, btEvents, btInbox, btRaced, btRequests>>

\* Mutant: a status that the enum lacks.
BtOutcome_Misspelt(step) ==
    CASE step = "started" -> "running" [] step = "stopped" -> "halted" [] OTHER -> "none"

BtOutcome(step) ==
    CASE step = "started" -> "running" [] step = "stopped" -> "stopped" [] OTHER -> "none"

\* The commit of start_bot, stop_bot and remove_bot: a status that differs from the one
\* loaded is written; with a row go its subscribers and their messages.  The update of a
\* row that is gone fails.
BtCommit(r) ==
    LET status == BtOutcome(btPc[r]) IN
    /\ btPc[r] \in {"started", "stopped", "removed"}
    /\ btStatus' = IF btStatus = "none" \/ status = btMem[r] THEN btStatus ELSE status
    /\ IF btStatus' = "none"
       THEN /\ btSubscriber' = FALSE /\ btConversation' = FALSE
            /\ btCopies' = [e \in BtEvents |-> 0]
       ELSE UNCHANGED btInbox
    /\ BtAt(r, "idle")
    /\ UNCHANGED <<btEngine, btEvents, btRaced, btRequests, btFaults>>

-----------------------------------------------------------------------------
(* Messages of the subscriber.                                              *)

\* Telegram gives an update to one of the tasks that poll; it is published to all workers.
BtUpdate ==
    /\ btPollers # {}
    /\ btNextEvent \in BtEvents
    /\ btNextEvent' = btNextEvent + 1
    /\ btQueue' = [w \in BtWorkers |-> Append(btQueue[w], btNextEvent)]
    /\ UNCHANGED <<btRow, btEngine, btSessions, btLoaded, btInbox, btRaced, btRequests, btFaults>>

\* The handler looks for the subscriber and the conversation ...
BtLoad(w) ==
    /\ btQueue[w] # <<>> /\ ~btLoaded[w].busy
    /\ btLoaded' = [btLoaded EXCEPT ![w] =
          [subscriber |-> btSubscriber, conversation |-> btConversation, busy |-> TRUE]]
    /\ UNCHANGED <<btRow, btEngine, btSessions, btNextEvent, btQueue, btInbox, btRaced, btRequests, btFaults>>

\* Somebody else has inserted the row meanwhile.
BtClash(e, loaded) ==
    \/ ~loaded.subscriber /\ btSubscriber
    \/ e \in BtTexts /\ ~loaded.conversation /\ btConversation

\* ... and writes; what violates a constraint is dropped (upsert_subscriber,
\* record_incoming, _handle).
BtSave(w) ==
    LET e == Head(btQueue[w])
        m == btLoaded[w]
    IN  /\ m.busy
        /\ IF btStatus = "none" \/ BtClash(e, m) THEN UNCHANGED btInbox
           ELSE /\ btSubscriber' = TRUE
                /\ btConversation' = (btConversation \/ e \in BtTexts)
                /\ btCopies' = IF e \in BtTexts THEN [btCopies EXCEPT ![e] = @ + 1] ELSE btCopies
        /\ btQueue' = [btQueue EXCEPT ![w] = Tail(@)]
        /\ btLoaded' = [btLoaded EXCEPT ![w] = BtNotLoaded]
        /\ UNCHANGED <<btRow, btEngine, btSessions, btNextEvent, btRaced, btRequests, btFaults>>

BtNext ==
    \/ \E r \in BtRequests :
          \/ \E step \in {"halt", "stop", "remove"} : BtBegin(r, step)
          \/ BtHalt(r) \/ BtPoll(r) \/ BtStop(r) \/ BtFail(r) \/ BtCommit(r)
    \/ BtEngineRestart
    \/ BtUpdate
    \/ \E w \in BtWorkers : BtLoad(w) \/ BtSave(w)

BtSpec == BtInit /\ [][BtNext]_btVars

-----------------------------------------------------------------------------
(* Properties.                                                              *)

\* A task polls behind the manager's back, so that no stop ends it, only if two starts were
\* under way at once: start stops the bot, waits for Telegram and then takes its place
\* (bots_manager.py:76-82).
PollersAccounted == btPollers \ {btHeld} # {} => btStarts # {}

\* The status tells whether the bot is polled for, once nothing is under way, unless two
\* requests were or the engine has failed.
StatusIsTrue ==
    btFaults = 0 /\ ~btRaced /\ (\A r \in BtRequests : btPc[r] = "idle") =>
        (btStatus = "running" <=> btPollers # {})

\* Every worker writes every message down, and the one that loses the race for the first
\* message of a subscriber drops its copy.  Still a message that all have handled is there.
HandledIsSaved ==
    btStatus # "none" =>
        \A e \in BtTexts : e < btNextEvent /\ (\A w \in BtWorkers : btQueue[w] = <<>> \/ Head(btQueue[w]) > e)
                               => btCopies[e] >= 1

\* A bot is polled for when and only when the panel says so, and what it gets is kept.
BotsHold == PollersAccounted /\ StatusIsTrue /\ HandledIsSaved
=============================================================================
