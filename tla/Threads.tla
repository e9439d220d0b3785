------------------------------- MODULE Threads -------------------------------
(***************************************************************************)
(* The messages of one conversation (backend/app/services/inbox.py,        *)
(* inbox_consumer.py, api/inbox.py): every worker stores each message that  *)
(* arrives, and requests of the staff read, answer and delete what is there *)
(* in sessions of their own.  Consent, stages and statuses are in Inbox.    *)
(*                                                                         *)
(* A row gets its number when it is flushed and is seen when it is          *)
(* committed.  Whoever is not permitted is refused and changes nothing;     *)
(* archiving changes which list shows the conversation, and is left out.    *)
(***************************************************************************)
EXTENDS Naturals, FiniteSets, FiniteSetsExt

CONSTANTS
    ThWorkers, ThRequests,  \* sessions: the consumers of the API's workers, and requests
    ThMessages,             \* 1..n, in the order of the channel
    ThReplies,
    NoContent,
    ThPageSize,             \* DEFAULT_THREAD_LIMIT
    ThMaxThreads,           \* bound on the conversations made with the peer
    ThMaxRequests,          \* bound on the requests started
    ThMaxFaults             \* bound on late answers and crashes

ASSUME ThreadsAssumption ==
    /\ IsFiniteSet(ThMessages) /\ ThMessages = 1..Cardinality(ThMessages)
    /\ IsFiniteSet(ThWorkers) /\ ThWorkers # {}
    /\ NoContent \notin ThMessages \cup ThReplies
    /\ {ThMaxThreads, ThMaxRequests, ThMaxFaults} \subseteq Nat
    /\ ThWorkers \cap ThRequests = {}
    /\ ThReplies \cap ThMessages = {}
    /\ ThPageSize \in Nat \ {0}

VARIABLES
    thread,             \* the conversation: its id, 0 when there is none, and unread_count
    thRows,             \* messages that are committed
    thIds,              \* numbers given out, to conversations and to messages
    thAt,               \* per worker, the messages of the channel it has taken
    thPc, thMem,        \* the sessions
    thPage,             \* the browser that has the conversation open
    thSkewed,           \* an observer's: unread_count was overwritten by a stale session
    thCopies, thDoubts, \* an observer's: times a reply was sent, and an answer was lost
    thExcused,          \* an observer's: messages a crash, a deletion or a tick has cost
    thStored,           \* an observer's: what was ever committed
    thRequests, thFaults

thSessions == <<thPc, thMem>>
thObserved == <<thSkewed, thCopies, thDoubts, thExcused, thStored>>
thBounds == <<thRequests, thFaults>>
thVars == <<thread, thRows, thIds, thAt, thSessions, thPage, thObserved, thBounds>>

ThSessions == ThWorkers \cup ThRequests
ThMaxRows == Cardinality(ThMessages) * Cardinality(ThWorkers) + ThMaxRequests

ThRowRecords ==
    [id : 1..ThMaxRows, thread : 1..ThMaxThreads, of : ThMessages \cup ThReplies,
     seen : BOOLEAN]

ThMemory ==
    [thread : 0..ThMaxThreads, unread : 0..ThMaxRows, of : ThMessages \cup ThReplies \cup {NoContent},
     id : 0..ThMaxRows]

ThForgotten == [thread |-> 0, unread |-> 0, of |-> NoContent, id |-> 0]

NoThread == [id |-> 0, unread |-> 0]

\* The pages shown; what was there to show when the first one was read; whether the button
\* for older messages is offered.
ThPages ==
    [thread : 0..ThMaxThreads, shown : SUBSET (1..ThMaxRows), there : SUBSET (1..ThMaxRows),
     more : BOOLEAN]

ThTypeOK ==
    /\ thread \in [id : 0..ThMaxThreads, unread : 0..ThMaxRows]
    /\ thRows \subseteq ThRowRecords
    /\ thIds \in [threads : 0..ThMaxThreads, rows : 0..ThMaxRows]
    /\ thAt \in [ThWorkers -> {0} \cup ThMessages]
    /\ thPc \in [ThSessions -> {"idle", "store", "flushed", "read", "delete", "ask", "record"}]
    /\ thMem \in [ThSessions -> ThMemory]
    /\ thPage \in ThPages
    /\ thSkewed \in BOOLEAN
    /\ thCopies \in [ThReplies -> Nat]
    /\ thDoubts \in [ThReplies -> Nat]
    /\ thExcused \subseteq ThMessages
    /\ thStored \subseteq ThMessages \cup ThReplies

ThInit ==
    /\ thread = NoThread
    /\ thRows = {}
    /\ thIds = [threads |-> 0, rows |-> 0]
    /\ thAt = [w \in ThWorkers |-> 0]
    /\ thPc = [s \in ThSessions |-> "idle"]
    /\ thMem = [s \in ThSessions |-> ThForgotten]
    /\ thPage = [thread |-> 0, shown |-> {}, there |-> {}, more |-> FALSE]
    /\ thSkewed = FALSE
    /\ thCopies = [p \in ThReplies |-> 0]
    /\ thDoubts = [p \in ThReplies |-> 0]
    /\ thExcused = {}
    /\ thStored = {}
    /\ thRequests = 0
    /\ thFaults = 0

-----------------------------------------------------------------------------

ThTo(s, step, mem) ==
    /\ thPc' = [thPc EXCEPT ![s] = step]
    /\ thMem' = [thMem EXCEPT ![s] = mem]

ThClose(s) == ThTo(s, "idle", ThForgotten)

ThLoaded(of) == [thread |-> thread.id, unread |-> thread.unread, of |-> of, id |-> 0]

Incoming(rows) == {row \in rows : row.of \in ThMessages}

\* unread_count is overwritten with what follows from the value loaded.
ThWriteUnread(s, value) ==
    /\ thread' = [thread EXCEPT !.unread = value]
    /\ thSkewed' = (thSkewed \/ thread.unread # thMem[s].unread)

ThInsert(s) ==
    thRows' = thRows \cup
        {[id |-> thMem[s].id, thread |-> thread.id, of |-> thMem[s].of, seen |-> FALSE]}

-----------------------------------------------------------------------------
(* What arrives (record_incoming, in each worker's consumer).               *)

\* Mutant: a queue of work instead of a channel: one worker takes the message for all.
ThTaken_Once(w, m) == [v \in ThWorkers |-> m]

ThTaken(w, m) == [thAt EXCEPT ![w] = m]

\* The conversation is looked up, for the next message of the channel.
ThReceive(w) ==
    LET m == thAt[w] + 1 IN
    /\ thPc[w] = "idle"
    /\ m \in ThMessages
    /\ thAt' = ThTaken(w, m)
    /\ ThTo(w, "store", ThLoaded(m))
    /\ UNCHANGED <<thread, thRows, thIds, thPage, thObserved, thBounds>>

\* An insert is given its number, whether it will be committed or not.
ThFlush(s) ==
    /\ thPc[s] \in {"store", "record"}
    /\ thIds.rows < ThMaxRows
    /\ thIds' = [thIds EXCEPT !.rows = @ + 1]
    /\ ThTo(s, "flushed", [thMem[s] EXCEPT !.id = thIds.rows + 1])
    /\ UNCHANGED <<thread, thRows, thAt, thPage, thObserved, thBounds>>

ThCounted(loaded) == loaded + 1

\* The conversation found is still there: the message and the count are committed.
ThStore(w) ==
    /\ thPc[w] = "flushed" /\ w \in ThWorkers
    /\ thMem[w].thread # 0 /\ thread.id = thMem[w].thread
    /\ ThInsert(w)
    /\ ThWriteUnread(w, ThCounted(thMem[w].unread))
    /\ thStored' = thStored \cup {thMem[w].of}
    /\ ThClose(w)
    /\ UNCHANGED <<thIds, thAt, thPage, thCopies, thDoubts, thExcused, thBounds>>

\* None was found, and there is none: it is made with its first message.
ThStoreFirst(w) ==
    LET n == thIds.threads + 1 IN
    /\ thPc[w] = "flushed" /\ w \in ThWorkers
    /\ thMem[w].thread = 0 /\ thread.id = 0
    /\ n <= ThMaxThreads
    /\ thIds' = [thIds EXCEPT !.threads = n]
    /\ thread' = [id |-> n, unread |-> ThCounted(0)]
    /\ thRows' = thRows \cup
          {[id |-> thMem[w].id, thread |-> n, of |-> thMem[w].of, seen |-> FALSE]}
    /\ thSkewed' = FALSE
    /\ thStored' = thStored \cup {thMem[w].of}
    /\ ThClose(w)
    /\ UNCHANGED <<thAt, thPage, thCopies, thDoubts, thExcused, thBounds>>

\* Another session has made one first (a unique constraint), or the one found was deleted
\* (a foreign key): the commit fails, and the consumer logs it and goes on.
ThStoreFails(w) ==
    /\ thPc[w] = "flushed" /\ w \in ThWorkers
    /\ thread.id # thMem[w].thread
    /\ ThClose(w)
    /\ UNCHANGED <<thread, thRows, thIds, thAt, thPage, thObserved, thBounds>>

-----------------------------------------------------------------------------
(* Requests.                                                                *)

ThRequest(s) ==
    /\ thPc[s] = "idle" /\ s \in ThRequests
    /\ thread.id # 0
    /\ thRequests < ThMaxRequests
    /\ thRequests' = thRequests + 1

ThBeginRead(s) ==
    /\ ThRequest(s)
    /\ ThTo(s, "read", ThLoaded(NoContent))
    /\ UNCHANGED <<thread, thRows, thIds, thAt, thPage, thObserved, thFaults>>

\* mark_read, bulk_read: the column is written if it has changed.
ThMarkRead(s) ==
    /\ thPc[s] = "read"
    /\ IF thread.id = thMem[s].thread /\ thMem[s].unread # 0
       THEN /\ ThWriteUnread(s, 0)
            /\ thRows' = {[row EXCEPT !.seen = TRUE] : row \in thRows}
       ELSE UNCHANGED <<thread, thSkewed, thRows>>
    /\ ThClose(s)
    /\ UNCHANGED <<thIds, thAt, thPage, thCopies, thDoubts, thExcused, thStored, thBounds>>

ThBeginDelete(s) ==
    /\ ThRequest(s)
    /\ ThTo(s, "delete", ThLoaded(NoContent))
    /\ UNCHANGED <<thread, thRows, thIds, thAt, thPage, thObserved, thFaults>>

\* Messages that a consumer is handling find their conversation gone, or another one made;
\* one that some consumer has dropped is not carried over to the next conversation either.
InHand == {thMem[w].of : w \in {v \in ThWorkers : thPc[v] # "idle"}}

Unsettled == {m \in ThMessages \ thStored : \E w \in ThWorkers : thAt[w] >= m}

\* delete_conversation
ThDelete(s) ==
    /\ thPc[s] = "delete"
    /\ IF thread.id = thMem[s].thread
       THEN /\ thread' = NoThread
            /\ thRows' = {}
            /\ thSkewed' = FALSE
            /\ thExcused' = thExcused \cup Unsettled
       ELSE UNCHANGED <<thread, thRows, thSkewed, thExcused>>
    /\ ThClose(s)
    /\ UNCHANGED <<thIds, thAt, thPage, thCopies, thDoubts, thStored, thBounds>>

\* send_reply, send_media: nobody sends a reply again that he has been told is sent.
ThBeginReply(s, p) ==
    /\ ThRequest(s)
    /\ p \notin thStored
    /\ \A q \in ThRequests : thMem[q].of # p
    /\ ThTo(s, "ask", ThLoaded(p))
    /\ UNCHANGED <<thread, thRows, thIds, thAt, thPage, thObserved, thFaults>>

ThAfterRefusal(s) == ThClose(s)

\* The engine sends it, refuses, or cannot be reached.
ThSend(s, sent) ==
    /\ thPc[s] = "ask"
    /\ IF sent THEN /\ thCopies' = [thCopies EXCEPT ![thMem[s].of] = @ + 1]
                    /\ ThTo(s, "record", thMem[s])
               ELSE ThAfterRefusal(s) /\ UNCHANGED thCopies
    /\ UNCHANGED <<thread, thRows, thIds, thAt, thPage, thSkewed, thDoubts, thExcused, thStored,
                   thBounds>>

\* It sends it, but the answer comes too late.
ThSendLate(s) ==
    /\ thPc[s] = "ask"
    /\ thFaults < ThMaxFaults
    /\ thFaults' = thFaults + 1
    /\ thCopies' = [thCopies EXCEPT ![thMem[s].of] = @ + 1]
    /\ thDoubts' = [thDoubts EXCEPT ![thMem[s].of] = @ + 1]
    /\ ThClose(s)
    /\ UNCHANGED <<thread, thRows, thIds, thAt, thPage, thSkewed, thExcused, thStored, thRequests>>

\* record_outgoing; a conversation deleted meanwhile cannot be written to.
ThRecord(s) ==
    /\ thPc[s] = "flushed" /\ s \in ThRequests
    /\ IF thread.id = thMem[s].thread
       THEN /\ ThInsert(s)
            /\ thStored' = thStored \cup {thMem[s].of}
            /\ UNCHANGED thDoubts
       ELSE /\ thDoubts' = [thDoubts EXCEPT ![thMem[s].of] = @ + 1]
            /\ UNCHANGED <<thRows, thStored>>
    /\ ThClose(s)
    /\ UNCHANGED <<thread, thIds, thAt, thPage, thSkewed, thCopies, thExcused, thBounds>>

-----------------------------------------------------------------------------
(* Reading a thread in pages: the newest first, then older ones.            *)

IdsOf(n) == {row.id : row \in {r \in thRows : r.thread = n}}

Newest(ids) == {i \in ids : Cardinality({j \in ids : j > i}) < ThPageSize}

\* get_thread with before_id
ThOlder(ids, oldest) == Newest({i \in ids : i < oldest})

\* has_older_messages
HasOlder(page) == page # {} /\ \E i \in IdsOf(thread.id) : i < Min(page)

ThOpen ==
    LET page == Newest(IdsOf(thread.id)) IN
    /\ thread.id # 0
    /\ thPage.thread # thread.id
    /\ thPage' = [thread |-> thread.id, shown |-> page, there |-> IdsOf(thread.id),
                  more |-> HasOlder(page)]
    /\ UNCHANGED <<thread, thRows, thIds, thAt, thSessions, thObserved, thBounds>>

ThLoadOlder ==
    LET page == ThOlder(IdsOf(thread.id), Min(thPage.shown)) IN
    /\ thPage.more /\ thread.id = thPage.thread
    /\ thPage' = [thPage EXCEPT !.shown = @ \cup page, !.more = HasOlder(page)]
    /\ UNCHANGED <<thread, thRows, thIds, thAt, thSessions, thObserved, thBounds>>

-----------------------------------------------------------------------------

\* A sender's tick makes the conversation when it messages the peer.
ThTick ==
    LET n == thIds.threads + 1 IN
    /\ thread.id = 0 /\ n <= ThMaxThreads
    /\ thIds' = [thIds EXCEPT !.threads = n]
    /\ thread' = [id |-> n, unread |-> 0]
    /\ thExcused' = thExcused \cup InHand
    /\ UNCHANGED <<thRows, thAt, thSessions, thPage, thSkewed, thCopies, thDoubts, thStored, thBounds>>

\* The process of a session dies; what it had not committed is gone.
ThCrash(s) ==
    /\ thPc[s] # "idle"
    /\ thFaults < ThMaxFaults
    /\ thFaults' = thFaults + 1
    /\ IF s \in ThWorkers
       THEN thExcused' = thExcused \cup {thMem[s].of} /\ UNCHANGED thDoubts
       ELSE /\ thDoubts' = IF thMem[s].of \in ThReplies
                           THEN [thDoubts EXCEPT ![thMem[s].of] = @ + 1] ELSE thDoubts
            /\ UNCHANGED thExcused
    /\ ThClose(s)
    /\ UNCHANGED <<thread, thRows, thIds, thAt, thPage, thSkewed, thCopies, thStored, thRequests>>

ThNext ==
    \/ \E w \in ThWorkers : ThReceive(w) \/ ThStore(w) \/ ThStoreFirst(w) \/ ThStoreFails(w)
    \/ \E s \in ThRequests :
          \/ ThBeginRead(s) \/ ThMarkRead(s) \/ ThBeginDelete(s) \/ ThDelete(s)
          \/ \E p \in ThReplies : ThBeginReply(s, p)
          \/ \E sent \in BOOLEAN : ThSend(s, sent)
          \/ ThSendLate(s) \/ ThRecord(s)
    \/ \E s \in ThSessions : ThFlush(s) \/ ThCrash(s)
    \/ ThOpen \/ ThLoadOlder \/ ThTick

ThSpec == ThInit /\ [][ThNext]_thVars

-----------------------------------------------------------------------------
(* Properties.                                                              *)

\* The badge of a conversation is the number of stored messages that nobody has opened,
\* until a session that had loaded the count before another one wrote it writes it over.
UnreadIsUnseen ==
    ~thSkewed => thread.unread = Cardinality({row \in Incoming(thRows) : ~row.seen})

\* A reply is sent once more than its answers were lost at most, though whoever sent it may
\* try again; one that was sent is in the thread unless an answer, a process or the
\* conversation was lost; and one in the thread was sent.
RepliesAccounted ==
    \A p \in ThReplies :
        /\ thCopies[p] <= 1 + thDoubts[p]
        /\ thCopies[p] > 0 /\ (\A s \in ThRequests : thMem[s].of # p) =>
              p \in thStored \/ thDoubts[p] > 0
        /\ p \in thStored => thCopies[p] > 0

\* A message that every worker has been through is stored by one of them, though the one
\* that loses the race to make the conversation drops it: unless a worker crashed with it,
\* the conversation was deleted after a worker had taken it and before one had stored it, or
\* a sender's tick made the conversation while a worker had it in hand.
MessageKept ==
    \A m \in ThMessages :
        (\A w \in ThWorkers : thAt[w] >= m /\ thMem[w].of # m) => m \in thStored \cup thExcused

\* The pages leave out none of the messages that were there when the thread was opened:
\* none from the oldest shown on, and none at all when no older ones are offered.
PagesLeaveNothingOut ==
    thread.id # 0 /\ thPage.thread = thread.id =>
        /\ \A i \in thPage.there : (\E j \in thPage.shown : j <= i) => i \in thPage.shown
        /\ ~thPage.more => thPage.there \subseteq thPage.shown

\* The inbox tells its agents the truth: badges, replies, messages and pages.
ThreadsHold == UnreadIsUnseen /\ RepliesAccounted /\ MessageKept /\ PagesLeaveNothingOut
=============================================================================
