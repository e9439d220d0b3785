----------------------------- MODULE InboxProofs ----------------------------
(***************************************************************************)
(* Theorems about Inbox, for any accounts, peers, contacts, workers and    *)
(* requests, and any number of edits and crashes.                          *)
(***************************************************************************)
EXTENDS Inbox, TLAPS

PcValues == {"idle", "find", "insert", "commit"}

LEMMA ForgottenType == Forgotten \in Memory
<1>1. Events # {}
  <2>1. PICK a \in Accounts, p \in Peers : TRUE
    BY InboxAssumption
  <2>. QED
    BY <2>1, [account |-> a, peer |-> p, text |-> "stop"] \in Events DEF Events
<1>2. (CHOOSE e \in Events : TRUE) \in Events
  BY <1>1
<1>. QED
  BY <1>2 DEF Forgotten, Memory, NoConversation, Conversations, NoChange, ChangeRows

LEMMA KeyType ==
  ASSUME NEW m \in Memory
  PROVE  Key(m) \in Accounts \X Peers
  BY DEF Key, Memory, Events

LEMMA WithContactType ==
  ASSUME TypeOK, NEW m \in Memory, NEW c \in Contacts \cup {NoContact}
  PROVE  WithContact(m, c) \in Memory
<1>1. CASE c = NoContact
  BY <1>1 DEF WithContact
<1>2. CASE c # NoContact
  <2>1. contact[c] \in ContactRows
    BY <1>2 DEF TypeOK
  <2>. QED
    BY <1>2, <2>1 DEF WithContact, Memory, ContactRows
<1>. QED
  BY <1>1, <1>2

LEMMA CloseType ==
  ASSUME TypeOK, NEW s \in Sessions, Close(s)
  PROVE  pc' \in [Sessions -> PcValues] /\ mem' \in [Sessions -> Memory]
  BY ForgottenType DEF Close, TypeOK, PcValues

LEMMA LookupType ==
  ASSUME TypeOK, NEW s \in Sessions, NEW m \in Memory, Lookup(s, m)
  PROVE  pc' \in [Sessions -> PcValues] /\ mem' \in [Sessions -> Memory]
<1>1. conversation[Key(m)] \in Conversations
  BY KeyType DEF TypeOK
<1>2. [m EXCEPT !.found = conversation[Key(m)]] \in Memory
  BY <1>1 DEF Memory
<1>. QED
  BY <1>2 DEF Lookup, TypeOK, PcValues

LEMMA InterfereType ==
  ASSUME TypeOK, NEW peers, Interfere(peers)
  PROVE  stop' \in [Accounts \X Peers -> {"none", "said", "heard"}]
  BY DEF Interfere, TypeOK

LEMMA StoredType ==
  ASSUME TypeOK, NEW m \in Memory, NEW status \in StageValues \cup {"blocked", "absent"}
  PROVE  Stored(m, status) \in Conversations
<1>1. conversation[Key(m)] \in Conversations
  BY KeyType DEF TypeOK
<1>2. m.found \in Conversations /\ m.contact \in Contacts \cup {NoContact}
  BY DEF Memory
<1>3. Linked(m) \in Contacts \cup {NoContact}
  BY <1>2 DEF Linked, Conversations
<1>. QED
  BY <1>1, <1>2, <1>3 DEF Stored, Written, Conversations

\* Changes of a row's columns.
LEMMA RowChanges ==
  ASSUME NEW row \in ContactRows
  PROVE  /\ \A stage \in StageValues \cup {"absent"} : [row EXCEPT !.stage = stage] \in ContactRows
         /\ \A stage \in StageValues \cup {"absent"}, out \in BOOLEAN :
                [row EXCEPT !.stage = stage, !.optedOut = out] \in ContactRows
         /\ \A knows \in SUBSET Identifiers : [row EXCEPT !.knows = knows] \in ContactRows
  BY DEF ContactRows

LEMMA InitType == Init => TypeOK
<1>. SUFFICES ASSUME Init PROVE TypeOK
  OBVIOUS
<1>1. contact \in [Contacts -> ContactRows]
  BY InboxAssumption DEF Init
<1>2. conversation \in [Accounts \X Peers -> Conversations]
  BY DEF Init, NoConversation, Conversations
<1>3. queue \in [Workers -> Seq(Events)]
  BY DEF Init
<1>. QED
  BY <1>1, <1>2, <1>3, ForgottenType DEF Init, TypeOK

-----------------------------------------------------------------------------
(* One lemma per group of actions: each keeps the types.                    *)

LEMMA PublishKeepsType ==
  ASSUME TypeOK, NEW e \in Events, Publish(e)
  PROVE  TypeOK'
<1>1. queue' \in [Workers -> Seq(Events)]
  BY DEF Publish, TypeOK
<1>2. stop' \in [Accounts \X Peers -> {"none", "said", "heard"}]
  BY InterfereType DEF Publish, TypeOK
<1>. QED
  BY <1>1, <1>2 DEF Publish, TypeOK, database, sessions, bounds

LEMMA TakeMessageKeepsType ==
  ASSUME TypeOK, NEW w \in Workers, TakeMessage(w)
  PROVE  TypeOK'
<1>1. w \in Sessions
  BY DEF Sessions
<1>2. queue[w] \in Seq(Events) /\ queue[w] # << >>
  BY DEF TakeMessage, TypeOK
<1>3. Head(queue[w]) \in Events /\ Tail(queue[w]) \in Seq(Events)
  BY <1>2
<1>4. [queue EXCEPT ![w] = Tail(@)] \in [Workers -> Seq(Events)]
  BY <1>3 DEF TypeOK
<1>5. CASE \E c \in Contacts \cup {NoContact} :
              /\ IsMatch(Head(queue[w]).peer, c)
              /\ Lookup(w, WithContact([Forgotten EXCEPT !.doing = "incoming",
                                                         !.event = Head(queue[w])], c))
              /\ queue' = [queue EXCEPT ![w] = Tail(@)]
              /\ UNCHANGED stop
  <2>1. PICK c \in Contacts \cup {NoContact} :
              Lookup(w, WithContact([Forgotten EXCEPT !.doing = "incoming",
                                                      !.event = Head(queue[w])], c))
    BY <1>5
  <2>2. [Forgotten EXCEPT !.doing = "incoming", !.event = Head(queue[w])] \in Memory
    BY <1>3, ForgottenType DEF Memory
  <2>3. WithContact([Forgotten EXCEPT !.doing = "incoming", !.event = Head(queue[w])], c)
            \in Memory
    BY <2>2, WithContactType
  <2>4. pc' \in [Sessions -> PcValues] /\ mem' \in [Sessions -> Memory]
    BY <1>1, <2>1, <2>3, LookupType
  <2>. QED
    BY <1>4, <1>5, <2>4 DEF TakeMessage, TypeOK, PcValues, database, bounds
<1>6. CASE Dropped(w) /\ UNCHANGED sessions
  <2>1. stop' \in [Accounts \X Peers -> {"none", "said", "heard"}]
    BY <1>6, InterfereType DEF Dropped
  <2>. QED
    BY <1>4, <1>6, <2>1 DEF TakeMessage, Dropped, TypeOK, database, sessions, bounds
<1>. QED
  BY <1>5, <1>6 DEF TakeMessage

LEMMA InsertKeepsType ==
  ASSUME TypeOK, NEW s \in Sessions, InsertConversation(s)
  PROVE  TypeOK'
<1>1. CASE Fail(s)
  BY <1>1, CloseType DEF InsertConversation, Fail, TypeOK, PcValues, database, channel, bounds
<1>2. CASE /\ pc' = [pc EXCEPT ![s] = "commit"]
           /\ mem' = [mem EXCEPT ![s].fresh = TRUE, ![s].found = NewConversation]
           /\ UNCHANGED <<database, stop>>
  <2>1. NewConversation \in Conversations
    BY DEF NewConversation, NoConversation, Conversations, StageValues
  <2>2. mem[s] \in Memory
    BY DEF TypeOK
  <2>3. mem' \in [Sessions -> Memory]
    BY <1>2, <2>1, <2>2 DEF TypeOK, Memory
  <2>. QED
    BY <1>2, <2>3 DEF InsertConversation, TypeOK, database, channel, bounds
<1>. QED
  BY <1>1, <1>2 DEF InsertConversation

LEMMA AfterIncomingType ==
  ASSUME TypeOK, NEW m \in Memory, m.contact # NoContact
  PROVE  AfterIncoming(m) \in ContactRows
<1>1. contact[m.contact] \in ContactRows
  BY DEF TypeOK, Memory
<1>2. Answer(m) \in StageValues
  BY DEF Answer, StageValues
<1>. QED
  BY <1>1, <1>2 DEF AfterIncoming, Written, ContactRows

LEMMA CommitIncomingKeepsType ==
  ASSUME TypeOK, NEW w \in Workers, CommitIncoming(w)
  PROVE  TypeOK'
<1>. DEFINE m == mem[w]
<1>1. w \in Sessions /\ m \in Memory
  BY DEF Sessions, TypeOK
<1>2. CASE Fail(w)
  BY <1>1, <1>2, CloseType
     DEF CommitIncoming, Fail, TypeOK, PcValues, database, channel, bounds
<1>3. CASE ~m.gone
  <2>1. (IF Moves(m) THEN Answer(m) ELSE m.found.status) \in StageValues \cup {"blocked", "absent"}
    BY <1>1 DEF Answer, StageValues, Memory, Conversations
  <2>2. conversation' \in [Accounts \X Peers -> Conversations]
    <3>1. conversation' = [conversation EXCEPT ![Key(m)] =
              Stored(m, IF Moves(m) THEN Answer(m) ELSE m.found.status)]
      BY <1>3 DEF CommitIncoming
    <3>2. Stored(m, IF Moves(m) THEN Answer(m) ELSE m.found.status) \in Conversations
      BY <1>1, <2>1, StoredType
    <3>. HIDE DEF m
    <3>. QED
      BY <3>1, <3>2 DEF TypeOK
  <2>3. contact' \in [Contacts -> ContactRows]
    <3>1. contact' = IF m.contact = NoContact THEN contact
                     ELSE [contact EXCEPT ![m.contact] = AfterIncoming(m)]
      BY <1>3 DEF CommitIncoming
    <3>2. m.contact # NoContact => AfterIncoming(m) \in ContactRows
      BY <1>1, AfterIncomingType
    <3>. HIDE DEF m
    <3>. QED
      BY <3>1, <3>2 DEF TypeOK
  <2>4. stop' \in [Accounts \X Peers -> {"none", "said", "heard"}]
    BY <1>3 DEF CommitIncoming, TypeOK
  <2>5. Close(w)
    BY <1>3 DEF CommitIncoming
  <2>. QED
    BY <1>1, <2>2, <2>3, <2>4, <2>5, CloseType
       DEF CommitIncoming, TypeOK, PcValues, channel, bounds
<1>. QED
  BY <1>2, <1>3 DEF CommitIncoming

LEMMA CommitOutreachKeepsType ==
  ASSUME TypeOK, NEW r \in Requests, CommitOutreach(r)
  PROVE  TypeOK'
<1>. DEFINE m == mem[r]
<1>1. r \in Sessions /\ m \in Memory
  BY DEF Sessions, TypeOK
<1>2. CASE Fail(r)
  BY <1>1, <1>2, CloseType
     DEF CommitOutreach, Fail, TypeOK, PcValues, database, channel, bounds
<1>3. CASE ~Fail(r)
  <2>1. /\ conversation' = IF m.found # NoConversation
                           THEN [conversation EXCEPT ![Key(m)] = Stored(m, m.found.status)]
                           ELSE conversation
        /\ contact' = [contact EXCEPT ![m.contact].stage =
                           IF m.stage = "new" THEN "contacted" ELSE @]
        /\ Close(r)
        /\ UNCHANGED stop
    BY <1>3 DEF CommitOutreach
  <2>2. Stored(m, m.found.status) \in Conversations
    <3>1. m.found.status \in StageValues \cup {"blocked", "absent"}
      BY <1>1 DEF Memory, Conversations
    <3>. QED
      BY <1>1, <3>1, StoredType
  <2>3. pc' \in [Sessions -> PcValues] /\ mem' \in [Sessions -> Memory]
    BY <1>1, <2>1, CloseType
  <2>. HIDE DEF m
  <2>4. conversation' \in [Accounts \X Peers -> Conversations]
    BY <2>1, <2>2 DEF TypeOK
  <2>5. contact' \in [Contacts -> ContactRows]
    <3>1. ASSUME m.contact \in Contacts
          PROVE  [contact[m.contact] EXCEPT !.stage = IF m.stage = "new" THEN "contacted" ELSE @]
                     \in ContactRows
      BY <3>1 DEF TypeOK, ContactRows, StageValues
    <3>2. contact' = [contact EXCEPT ![m.contact] =
              [contact[m.contact] EXCEPT !.stage = IF m.stage = "new" THEN "contacted" ELSE @]]
      BY <2>1
    <3>. QED
      BY <3>1, <3>2 DEF TypeOK
  <2>. QED
    BY <2>1, <2>3, <2>4, <2>5 DEF CommitOutreach, TypeOK, PcValues, channel, bounds
<1>. QED
  BY <1>2, <1>3

LEMMA CommitSaveKeepsType ==
  ASSUME TypeOK, NEW r \in Requests, CommitSave(r)
  PROVE  TypeOK'
<1>. DEFINE m == mem[r]
            free == {c \in Contacts : contact[c].stage = "absent"}
<1>1. r \in Sessions /\ m \in Memory
  BY DEF Sessions, TypeOK
<1>2. CASE Fail(r)
  BY <1>1, <1>2, CloseType
     DEF CommitSave, Fail, TypeOK, PcValues, database, channel, bounds
<1>3. CASE ~Fail(r)
  <2>1. ~(m.contact = NoContact /\ free = {})
    BY <1>3 DEF CommitSave
  <2>2. PICK c \in IF m.contact = NoContact THEN free ELSE {m.contact} :
          /\ contact' = [contact EXCEPT ![c] =
                IF m.contact = NoContact THEN SavedRow(m)
                ELSE [contact[c] EXCEPT !.knows = @ \cup m.typed \cup {"id"}]]
          /\ conversation' = [conversation EXCEPT ![Key(m)].contact = c]
          /\ Interfere({m.event.peer})
          /\ Close(r)
    BY <1>3 DEF CommitSave
  <2>3. c \in Contacts
    BY <1>1, <2>2 DEF Memory
  <2>4. SavedRow(m) \in ContactRows
    BY <1>1 DEF SavedRow, Memory, Events, Conversations, ContactRows, Identifiers, StageValues
  <2>5. m.typed \subseteq Identifiers
    BY <1>1 DEF Memory, Identifiers
  <2>6. pc' \in [Sessions -> PcValues] /\ mem' \in [Sessions -> Memory]
    BY <1>1, <2>2, CloseType
  <2>7. stop' \in [Accounts \X Peers -> {"none", "said", "heard"}]
    BY <2>2, InterfereType
  <2>. HIDE DEF m
  <2>8. contact' \in [Contacts -> ContactRows]
    <3>1. contact[c] \in ContactRows
      BY <2>3 DEF TypeOK
    <3>2. contact[c].knows \cup m.typed \cup {"id"} \in SUBSET Identifiers
      BY <2>5, <3>1 DEF ContactRows, Identifiers
    <3>3. [contact[c] EXCEPT !.knows = contact[c].knows \cup m.typed \cup {"id"}] \in ContactRows
      BY <3>1, <3>2, RowChanges
    <3>. DEFINE row == IF m.contact = NoContact THEN SavedRow(m)
                 ELSE [contact[c] EXCEPT !.knows = contact[c].knows \cup m.typed \cup {"id"}]
    <3>4. row \in ContactRows
      BY <2>4, <3>3
    <3>5. contact' = [contact EXCEPT ![c] = row]
      BY <2>2
    <3>. HIDE DEF row
    <3>. QED
      BY <3>4, <3>5 DEF TypeOK
  <2>9. conversation' \in [Accounts \X Peers -> Conversations]
    BY <2>2, <2>3 DEF TypeOK, Conversations
  <2>. QED
    BY <2>6, <2>7, <2>8, <2>9 DEF CommitSave, TypeOK, PcValues, channel, bounds
<1>. QED
  BY <1>2, <1>3

\* A column that an edit has to do with: it is taken back only by a request that asks for
\* it and had loaded it set.
LEMMA FlagFacts ==
  ASSUME NEW asked \in {"same", "yes", "no"}, NEW loaded \in BOOLEAN, NEW current \in BOOLEAN
  PROVE  /\ Flag(asked, loaded, current) \in BOOLEAN
         /\ current /\ ~Flag(asked, loaded, current) => asked = "no" /\ loaded
<1>1. CASE asked = "same"
  BY <1>1 DEF Flag
<1>2. CASE asked = "yes"
  <2>1. Flag(asked, loaded, current) = IF TRUE = loaded THEN current ELSE TRUE
    BY <1>2 DEF Flag, Written
  <2>2. CASE loaded
    BY <2>1, <2>2
  <2>3. CASE ~loaded
    BY <2>1, <2>3
  <2>. QED
    BY <2>2, <2>3
<1>3. CASE asked = "no"
  <2>1. Flag(asked, loaded, current) = IF FALSE = loaded THEN current ELSE FALSE
    BY <1>3 DEF Flag, Written
  <2>2. CASE loaded
    BY <1>3, <2>1, <2>2
  <2>3. CASE ~loaded
    BY <2>1, <2>3
  <2>. QED
    BY <2>2, <2>3
<1>. QED
  BY <1>1, <1>2, <1>3

\* What the commit of an edit does to the rows.
LEMMA CommitEditRows ==
  ASSUME TypeOK, NEW r \in Requests, CommitEdit(r)
  PROVE  /\ contact' \in [Contacts -> ContactRows]
         /\ \A c \in Contacts \ {mem[r].contact} : contact'[c] = contact[c]
         /\ mem[r].contact \in Contacts =>
              /\ contact'[mem[r].contact].of = contact[mem[r].contact].of
              /\ contact'[mem[r].contact].stage \in
                     StageValues \cup {contact[mem[r].contact].stage}
              /\ contact[mem[r].contact].optedOut /\ ~contact'[mem[r].contact].optedOut =>
                     mem[r].optedOut /\ mem[r].change.optedOut = "no"
<1>. DEFINE m == mem[r]
            row == AfterEdit(m)
<1>1. r \in Sessions /\ m \in Memory
  BY DEF Sessions, TypeOK
<1>2. contact' = [contact EXCEPT ![m.contact] = row]
  BY DEF CommitEdit
<1>3. /\ m.change.stage \in StageValues \cup {"same"}
      /\ m.change.consent \in {"same", "yes", "no"}
      /\ m.change.optedOut \in {"same", "yes", "no"}
      /\ m.consent \in BOOLEAN /\ m.optedOut \in BOOLEAN
  BY <1>1 DEF Memory, ChangeRows
<1>4. ASSUME m.contact \in Contacts
      PROVE  /\ row \in ContactRows /\ row.of = contact[m.contact].of
             /\ row.stage \in StageValues \cup {contact[m.contact].stage}
             /\ contact[m.contact].optedOut /\ ~row.optedOut =>
                    m.optedOut /\ m.change.optedOut = "no"
  <2>. DEFINE old == contact[m.contact]
              stage == IF m.change.stage = "same" THEN old.stage
                       ELSE Written(m.change.stage, m.stage, old.stage)
              consent == Flag(m.change.consent, m.consent, old.consent)
              out == Flag(m.change.optedOut, m.optedOut, old.optedOut)
  <2>1. old \in ContactRows
    BY <1>4 DEF TypeOK
  <2>2. /\ old.stage \in StageValues \cup {"absent"} /\ old.consent \in BOOLEAN
        /\ old.optedOut \in BOOLEAN
    BY <2>1 DEF ContactRows
  <2>3. row = [old EXCEPT !.stage = stage, !.consent = consent, !.optedOut = out]
    BY DEF AfterEdit
  <2>4. stage \in StageValues \cup {old.stage}
    BY <1>3 DEF Written
  <2>5. consent \in BOOLEAN
    BY <1>3, <2>2, FlagFacts
  <2>6. out \in BOOLEAN /\ (old.optedOut /\ ~out => m.change.optedOut = "no" /\ m.optedOut)
    BY <1>3, <2>2, FlagFacts
  <2>. HIDE DEF stage, consent, out, row, old, m
  <2>7. row \in ContactRows /\ row.of = old.of /\ row.stage = stage /\ row.optedOut = out
    BY <2>1, <2>2, <2>3, <2>4, <2>5, <2>6 DEF ContactRows
  <2>. QED
    BY <2>4, <2>6, <2>7 DEF old
<1>. HIDE DEF row, m
<1>5. contact' \in [Contacts -> ContactRows]
  BY <1>2, <1>4 DEF TypeOK
<1>6. \A c \in Contacts \ {m.contact} : contact'[c] = contact[c]
  BY <1>2 DEF TypeOK
<1>7. m.contact \in Contacts => contact'[m.contact] = row
  BY <1>2 DEF TypeOK
<1>. QED
  BY <1>4, <1>5, <1>6, <1>7 DEF m

LEMMA CommitEditKeepsType ==
  ASSUME TypeOK, NEW r \in Requests, CommitEdit(r)
  PROVE  TypeOK'
<1>1. contact' \in [Contacts -> ContactRows]
  BY CommitEditRows
<1>2. pc' \in [Sessions -> PcValues] /\ mem' \in [Sessions -> Memory]
  BY CloseType DEF CommitEdit, Sessions
<1>3. stop' \in [Accounts \X Peers -> {"none", "said", "heard"}]
  BY InterfereType DEF CommitEdit
<1>. QED
  BY <1>1, <1>2, <1>3 DEF CommitEdit, TypeOK, PcValues, channel, bounds

\* What a request that loads a contact for an edit has in hand.
LEMMA EditInHand ==
  ASSUME TypeOK, NEW c \in Contacts, NEW change \in Changes
  PROVE  /\ [Forgotten EXCEPT !.doing = "edit", !.event.peer = contact[c].of,
                              !.change = change] \in Memory
         /\ WithContact([Forgotten EXCEPT !.doing = "edit", !.event.peer = contact[c].of,
                                          !.change = change], c) \in Memory
<1>1. Forgotten.event \in Events /\ contact[c].of \in Peers
  BY ForgottenType DEF Memory, TypeOK, ContactRows
<1>2. [Forgotten.event EXCEPT !.peer = contact[c].of] \in Events
  BY <1>1 DEF Events
<1>3. change \in ChangeRows
  BY InboxAssumption
<1>4. [Forgotten EXCEPT !.doing = "edit", !.event.peer = contact[c].of, !.change = change] \in Memory
  BY <1>2, <1>3, ForgottenType DEF Memory
<1>. QED
  BY <1>4, WithContactType

LEMMA LoadKeepsType ==
  ASSUME TypeOK,
         \/ \E r \in Requests, a \in Accounts, c \in Contacts : LoadForOutreach(r, a, c)
         \/ \E r \in Requests : RecordOutreach(r)
         \/ \E r \in Requests, k \in Keys, typed \in SUBSET {"phone", "username"} :
                LoadForSave(r, k, typed)
         \/ \E r \in Requests, c \in Contacts, change \in Changes : LoadForEdit(r, c, change)
  PROVE  TypeOK'
<1>1. ASSUME NEW r \in Requests, NEW a \in Accounts, NEW c \in Contacts,
             LoadForOutreach(r, a, c)
      PROVE  TypeOK'
  <2>. DEFINE e == [account |-> a, peer |-> contact[c].of, text |-> "hello"]
  <2>1. e \in Events
    BY DEF Events, TypeOK, ContactRows
  <2>2. [Forgotten EXCEPT !.doing = "outreach", !.event = e] \in Memory
    BY <2>1, ForgottenType DEF Memory
  <2>3. WithContact([Forgotten EXCEPT !.doing = "outreach", !.event = e], c) \in Memory
    BY <2>2, WithContactType
  <2>4. mem' \in [Sessions -> Memory]
    BY <1>1, <2>3 DEF LoadForOutreach, TypeOK
  <2>5. pc' \in [Sessions -> PcValues]
    BY <1>1 DEF LoadForOutreach, TypeOK, PcValues
  <2>. QED
    BY <1>1, <2>4, <2>5
       DEF LoadForOutreach, TypeOK, PcValues, database, channel, bounds
<1>2. ASSUME NEW r \in Requests, RecordOutreach(r)
      PROVE  TypeOK'
  <2>1. r \in Sessions /\ mem[r] \in Memory
    BY DEF Sessions, TypeOK
  <2>. QED
    BY <1>2, <2>1, LookupType
       DEF RecordOutreach, TypeOK, PcValues, database, channel, bounds
<1>3. ASSUME NEW r \in Requests, NEW k \in Keys, NEW typed \in SUBSET {"phone", "username"},
             LoadForSave(r, k, typed)
      PROVE  TypeOK'
  <2>1. PICK c \in Contacts \cup {NoContact} :
          mem' = [mem EXCEPT ![r] =
                  [Forgotten EXCEPT !.doing = "save", !.contact = c, !.typed = typed,
                       !.event = [account |-> k[1], peer |-> k[2], text |-> "hello"],
                       !.found = conversation[k]]]
    BY <1>3 DEF LoadForSave
  <2>2. [account |-> k[1], peer |-> k[2], text |-> "hello"] \in Events
    BY DEF Events, Keys
  <2>3. conversation[k] \in Conversations
    BY DEF TypeOK, Keys
  <2>4. mem' \in [Sessions -> Memory]
    BY <2>1, <2>2, <2>3, ForgottenType DEF TypeOK, Memory
  <2>5. pc' \in [Sessions -> PcValues]
    BY <1>3 DEF LoadForSave, TypeOK, PcValues
  <2>6. edits' \in Nat /\ crashes' \in Nat
    <3>1. Edit
      BY <1>3 DEF LoadForSave
    <3>. QED
      BY <3>1 DEF Edit, TypeOK
  <2>7. UNCHANGED <<database, channel, stop>>
    BY <1>3 DEF LoadForSave
  <2>. QED
    BY <2>4, <2>5, <2>6, <2>7 DEF TypeOK, PcValues, database, channel
<1>4. ASSUME NEW r \in Requests, NEW c \in Contacts, NEW change \in Changes,
             LoadForEdit(r, c, change)
      PROVE  TypeOK'
  <2>1. mem' \in [Sessions -> Memory]
    BY <1>4, EditInHand DEF LoadForEdit, TypeOK
  <2>2. pc' \in [Sessions -> PcValues]
    BY <1>4 DEF LoadForEdit, TypeOK, PcValues
  <2>3. edits' \in Nat /\ crashes' \in Nat
    <3>1. Edit
      BY <1>4 DEF LoadForEdit
    <3>. QED
      BY <3>1 DEF Edit, TypeOK
  <2>4. UNCHANGED <<database, channel, stop>>
    BY <1>4 DEF LoadForEdit
  <2>. QED
    BY <2>1, <2>2, <2>3, <2>4 DEF TypeOK, PcValues, database, channel
<1>. QED
  BY <1>1, <1>2, <1>3, <1>4

LEMMA EditKeepsType ==
  ASSUME TypeOK,
         \/ \E k \in Keys, status \in Statuses : SetStatus(k, status)
         \/ \E k \in Keys : DeleteConversation(k)
         \/ \E c \in Contacts, resolved \in BOOLEAN : Resolve(c, resolved)
  PROVE  TypeOK'
<1>. USE InterfereType
<1>1. ASSUME NEW k \in Keys, NEW status \in Statuses, SetStatus(k, status)
      PROVE  TypeOK'
  <2>1. status \in StageValues \cup {"blocked"}
    BY InboxAssumption
  <2>2. conversation' \in [Accounts \X Peers -> Conversations]
    BY <1>1, <2>1 DEF SetStatus, TypeOK, Keys, Conversations
  <2>3. conversation[k].contact \in Contacts \cup {NoContact}
    BY DEF TypeOK, Keys, Conversations
  <2>. DEFINE c == conversation[k].contact
              row == [contact[c] EXCEPT !.stage = status,
                                        !.optedOut = @ \/ status = "opted_out"]
  <2>4. contact' \in [Contacts -> ContactRows]
    <3>1. CASE c = NoContact \/ status = "blocked"
      BY <1>1, <3>1 DEF SetStatus, TypeOK
    <3>2. CASE c # NoContact /\ status # "blocked"
      <4>1. contact' = [contact EXCEPT ![c] = row]
        BY <1>1, <3>2 DEF SetStatus
      <4>2. contact[c] \in ContactRows /\ c \in Contacts
        BY <2>3, <3>2 DEF TypeOK
      <4>3. status \in StageValues \cup {"absent"}
        BY <2>1, <3>2
      <4>. DEFINE out == contact[c].optedOut \/ status = "opted_out"
      <4>4. row = [contact[c] EXCEPT !.stage = status, !.optedOut = out] /\ out \in BOOLEAN
        BY Zenon
      <4>. HIDE DEF out, row, c
      <4>5. row \in ContactRows
        BY <4>2, <4>3, <4>4, RowChanges
      <4>. QED
        BY <4>1, <4>2, <4>5 DEF TypeOK
    <3>. QED
      BY <3>1, <3>2
  <2>. HIDE DEF row
  <2>5. stop' \in [Accounts \X Peers -> {"none", "said", "heard"}]
    BY <1>1 DEF SetStatus
  <2>6. edits' \in Nat /\ crashes' \in Nat
    <3>1. Edit
      BY <1>1 DEF SetStatus
    <3>. QED
      BY <3>1 DEF Edit, TypeOK
  <2>7. UNCHANGED <<channel, sessions>>
    BY <1>1 DEF SetStatus
  <2>. QED
    BY <2>2, <2>4, <2>5, <2>6, <2>7 DEF TypeOK, sessions, channel
<1>2. ASSUME NEW k \in Keys, DeleteConversation(k)
      PROVE  TypeOK'
  <2>1. conversation' \in [Accounts \X Peers -> Conversations]
    BY <1>2 DEF DeleteConversation, TypeOK, NoConversation, Conversations
  <2>2. mem' \in [Sessions -> Memory]
    <3>1. ASSUME NEW s \in Sessions
          PROVE  [mem[s] EXCEPT !.gone = TRUE] \in Memory
      <4>1. mem[s] \in Memory
        BY DEF TypeOK
      <4>. QED
        BY <4>1 DEF Memory
    <3>. QED
      BY <1>2, <3>1 DEF DeleteConversation, TypeOK
  <2>. QED
    BY <1>2, <2>1, <2>2 DEF DeleteConversation, Edit, TypeOK, channel
<1>3. ASSUME NEW c \in Contacts, NEW resolved \in BOOLEAN, Resolve(c, resolved)
      PROVE  TypeOK'
  <2>1. contact' \in [Contacts -> ContactRows]
    <3>1. contact[c] \in ContactRows
      BY DEF TypeOK
    <3>. DEFINE knows == IF resolved THEN contact[c].knows \cup {"id"}
                         ELSE contact[c].knows \ {"id"}
    <3>2. knows \in SUBSET Identifiers
      BY <3>1 DEF ContactRows, Identifiers
    <3>3. contact' = [contact EXCEPT ![c] = [contact[c] EXCEPT !.knows = knows]]
      BY <1>3 DEF Resolve
    <3>. HIDE DEF knows
    <3>4. [contact[c] EXCEPT !.knows = knows] \in ContactRows
      BY <3>1, <3>2, RowChanges
    <3>. QED
      BY <3>3, <3>4 DEF TypeOK
  <2>. QED
    BY <1>3, <2>1 DEF Resolve, Edit, TypeOK, sessions, channel
<1>. QED
  BY <1>1, <1>2, <1>3

LEMMA FailureKeepsType ==
  ASSUME TypeOK,
         \/ \E s \in Sessions : Crash(s)
         \/ \E w \in Workers : Disconnect(w)
  PROVE  TypeOK'
<1>1. ASSUME NEW s \in Sessions, Crash(s)
      PROVE  TypeOK'
  <2>1. pc' \in [Sessions -> PcValues] /\ mem' \in [Sessions -> Memory]
    BY <1>1, CloseType DEF Crash
  <2>2. /\ queue' \in [Workers -> Seq(Events)]
        /\ listening' \in SUBSET Workers
        /\ stop' \in [Accounts \X Peers -> {"none", "said", "heard"}]
    <3>1. CASE s \in Workers
      <4>1. /\ queue' = [queue EXCEPT ![s] = <<>>]
            /\ listening' = listening \cup {s}
            /\ Interfere(Waiting(s) \cup {mem[s].event.peer})
        BY <1>1, <3>1 DEF Crash
      <4>2. stop' \in [Accounts \X Peers -> {"none", "said", "heard"}]
        BY <4>1, InterfereType
      <4>. QED
        BY <3>1, <4>1, <4>2 DEF TypeOK
    <3>2. CASE s \notin Workers
      BY <1>1, <3>2 DEF Crash, TypeOK, channel
    <3>. QED
      BY <3>1, <3>2
  <2>. QED
    BY <1>1, <2>1, <2>2 DEF Crash, TypeOK, PcValues, database
<1>2. ASSUME NEW w \in Workers, Disconnect(w)
      PROVE  TypeOK'
  BY <1>2, InterfereType DEF Disconnect, TypeOK, database, sessions
<1>. QED
  BY <1>1, <1>2

LEMMA NextType == TypeOK /\ [Next]_vars => TypeOK'
<1>. SUFFICES ASSUME TypeOK, [Next]_vars
              PROVE  TypeOK'
  OBVIOUS
<1>1. CASE Others
  BY <1>1, PublishKeepsType, EditKeepsType, LoadKeepsType DEF Others
<1>2. ASSUME NEW s \in Sessions, SessionStep(s)
      PROVE  TypeOK'
  BY <1>2, InsertKeepsType, TakeMessageKeepsType, CommitIncomingKeepsType, LoadKeepsType,
     CommitOutreachKeepsType, CommitSaveKeepsType, CommitEditKeepsType DEF SessionStep
<1>3. CASE (\E s \in Sessions : Crash(s)) \/ (\E w \in Workers : Disconnect(w))
  BY <1>3, FailureKeepsType
<1>4. CASE UNCHANGED vars
  BY <1>4 DEF TypeOK, vars, database, channel, sessions, bounds
<1>. QED
  BY <1>1, <1>2, <1>3, <1>4 DEF Next

-----------------------------------------------------------------------------
\* Every reachable state is well typed, for any number of workers that handle the same
\* messages: in particular what a slow handler writes over a newer row is a value the
\* tables' CHECK constraints allow.
THEOREM TypeCorrect == Spec => []TypeOK
  BY InitType, NextType, PTL DEF Spec

-----------------------------------------------------------------------------
(* An opt-out is taken back only by whoever has it before them.  CommitSave   *)
(* overwrites a row that was free, and an incoming stop that finds its contact *)
(* loaded sets optedOut: the former must not be opted out, the latter must exist. *)

AbsentIsOpen == \A c \in Contacts : contact[c].stage = "absent" => ~contact[c].optedOut

LoadedExists ==
    \A s \in Sessions :
        mem[s].contact # NoContact => contact[mem[s].contact].stage # "absent"

OptOutInv == TypeOK /\ AbsentIsOpen /\ LoadedExists

\* What a step may do to a contact, and to what the sessions have loaded.
RowKept(c) ==
    /\ contact[c].stage # "absent" => contact'[c].stage # "absent"
    /\ contact'[c].stage = "absent" => ~contact'[c].optedOut
    /\ contact[c].optedOut /\ ~contact'[c].optedOut => \E r \in Requests : Revokes(r, c)

LoadedKept(s) ==
    mem'[s].contact # NoContact =>
        \/ mem'[s].contact = mem[s].contact
        \/ contact[mem'[s].contact].stage # "absent"

StepKept == (\A c \in Contacts : RowKept(c)) /\ (\A s \in Sessions : LoadedKept(s))

LEMMA SameRowsKept ==
  ASSUME OptOutInv, UNCHANGED contact
  PROVE  \A c \in Contacts : RowKept(c)
  BY DEF OptOutInv, AbsentIsOpen, RowKept

LEMMA CloseKept ==
  ASSUME TypeOK, NEW r \in Sessions, Close(r) \/ UNCHANGED mem
  PROVE  \A s \in Sessions : LoadedKept(s)
  BY DEF Close, TypeOK, LoadedKept, Forgotten

LEMMA LookupKept ==
  ASSUME TypeOK, NEW r \in Sessions, NEW m, Lookup(r, m), m \in Memory,
         m.contact # NoContact =>
             m.contact = mem[r].contact \/ contact[m.contact].stage # "absent"
  PROVE  \A s \in Sessions : LoadedKept(s)
<1>1. [m EXCEPT !.found = conversation[Key(m)]].contact = m.contact
  BY DEF Memory
<1>2. mem' = [mem EXCEPT ![r] = IF Exists(Key(m))
                                THEN [m EXCEPT !.found = conversation[Key(m)]] ELSE m]
  BY DEF Lookup
<1>3. mem'[r].contact = m.contact
  BY <1>1, <1>2 DEF TypeOK
<1>4. \A s \in Sessions \ {r} : mem'[s] = mem[s]
  BY <1>2 DEF TypeOK
<1>. QED
  BY <1>3, <1>4 DEF LoadedKept

LEMMA MatchExists ==
  ASSUME NEW p, NEW c, IsMatch(p, c), c # NoContact
  PROVE  c \in Contacts /\ contact[c].stage # "absent"
  BY DEF IsMatch, Matches, Holding, Rows

LEMMA WithContactField ==
  ASSUME NEW m \in Memory, NEW c
  PROVE  WithContact(m, c).contact = IF c = NoContact THEN m.contact ELSE c
  BY DEF WithContact, Memory

LEMMA TakeMessageKept ==
  ASSUME OptOutInv, NEW w \in Workers, TakeMessage(w)
  PROVE  StepKept
<1>1. UNCHANGED contact /\ w \in Sessions
  BY DEF TakeMessage, database, Sessions
<1>2. CASE UNCHANGED sessions
  BY <1>1, <1>2, SameRowsKept, CloseKept DEF StepKept, OptOutInv, sessions
<1>3. CASE \E c \in Contacts \cup {NoContact} :
              /\ IsMatch(Head(queue[w]).peer, c)
              /\ Lookup(w, WithContact([Forgotten EXCEPT !.doing = "incoming",
                                                         !.event = Head(queue[w])], c))
  <2>. DEFINE m0 == [Forgotten EXCEPT !.doing = "incoming", !.event = Head(queue[w])]
  <2>1. PICK c \in Contacts \cup {NoContact} :
          IsMatch(Head(queue[w]).peer, c) /\ Lookup(w, WithContact(m0, c))
    BY <1>3
  <2>2. m0 \in Memory /\ m0.contact = NoContact
    <3>1. queue[w] \in Seq(Events) /\ queue[w] # << >>
      BY DEF TakeMessage, OptOutInv, TypeOK
    <3>2. Head(queue[w]) \in Events
      BY <3>1
    <3>3. m0 \in Memory
      BY <3>2, ForgottenType DEF Memory
    <3>. QED
      BY <3>3 DEF Forgotten
  <2>. HIDE DEF m0
  <2>3. WithContact(m0, c) \in Memory
    BY <2>2, WithContactType DEF OptOutInv
  <2>4. WithContact(m0, c).contact # NoContact =>
            contact[WithContact(m0, c).contact].stage # "absent"
    BY <2>1, <2>2, MatchExists, WithContactField
  <2>5. \A s \in Sessions : LoadedKept(s)
    BY <1>1, <2>1, <2>3, <2>4, LookupKept DEF OptOutInv
  <2>. QED
    BY <1>1, <2>5, SameRowsKept DEF StepKept
<1>. QED
  BY <1>2, <1>3 DEF TakeMessage

LEMMA InsertKept ==
  ASSUME OptOutInv, NEW r \in Sessions, InsertConversation(r)
  PROVE  StepKept
<1>1. UNCHANGED contact
  BY DEF InsertConversation, Fail, database
<1>2. CASE Close(r)
  BY <1>1, <1>2, SameRowsKept, CloseKept DEF StepKept, OptOutInv
<1>3. CASE mem' = [mem EXCEPT ![r].fresh = TRUE, ![r].found = NewConversation]
  <2>1. mem[r] \in Memory
    BY DEF OptOutInv, TypeOK
  <2>2. \A s \in Sessions : mem'[s].contact = mem[s].contact
    BY <1>3, <2>1 DEF OptOutInv, TypeOK, Memory
  <2>. QED
    BY <1>1, <2>2, SameRowsKept DEF StepKept, LoadedKept
<1>. QED
  BY <1>2, <1>3 DEF InsertConversation, Fail

LEMMA CommitIncomingKept ==
  ASSUME OptOutInv, NEW w \in Workers, CommitIncoming(w)
  PROVE  StepKept
<1>. DEFINE m == mem[w]
<1>1. w \in Sessions /\ m \in Memory
  BY DEF OptOutInv, TypeOK, Sessions
<1>2. \A s \in Sessions : LoadedKept(s)
  BY <1>1, CloseKept DEF CommitIncoming, Fail, OptOutInv
<1>3. CASE UNCHANGED contact
  BY <1>2, <1>3, SameRowsKept DEF StepKept
<1>4. CASE m.contact # NoContact /\ contact' = [contact EXCEPT ![m.contact] = AfterIncoming(m)]
  <2>1. m.contact \in Contacts /\ contact[m.contact] \in ContactRows
    BY <1>1, <1>4 DEF Memory, OptOutInv, TypeOK
  <2>2. contact[m.contact].stage # "absent"
    BY <1>1, <1>4 DEF OptOutInv, LoadedExists
  <2>3. Answer(m) # "absent"
    BY DEF Answer
  <2>4. AfterIncoming(m).stage # "absent"
    BY <2>1, <2>2, <2>3 DEF AfterIncoming, Written, ContactRows
  <2>5. AfterIncoming(m).optedOut = IF m.event.text = "stop" /\ m.optedOut # TRUE
                                    THEN TRUE ELSE contact[m.contact].optedOut
    BY <2>1 DEF AfterIncoming, Written, ContactRows
  <2>6. contact[m.contact].optedOut => AfterIncoming(m).optedOut
    BY <2>5
  <2>7. contact'[m.contact] = AfterIncoming(m)
    BY <1>4, <2>1 DEF OptOutInv, TypeOK
  <2>8. \A c \in Contacts \ {m.contact} : contact'[c] = contact[c]
    BY <1>4 DEF OptOutInv, TypeOK
  <2>9. RowKept(m.contact)
    BY <2>4, <2>6, <2>7 DEF RowKept
  <2>. HIDE DEF m
  <2>10. \A c \in Contacts \ {m.contact} : RowKept(c)
    BY <2>8 DEF RowKept, OptOutInv, AbsentIsOpen
  <2>. QED
    BY <1>2, <2>9, <2>10 DEF StepKept
<1>5. UNCHANGED contact
      \/ (m.contact # NoContact /\ contact' = [contact EXCEPT ![m.contact] = AfterIncoming(m)])
  BY DEF CommitIncoming, Fail, database
<1>. QED
  BY <1>3, <1>4, <1>5

LEMMA CommitOutreachKept ==
  ASSUME OptOutInv, NEW r \in Requests, CommitOutreach(r)
  PROVE  StepKept
<1>. DEFINE m == mem[r]
<1>1. r \in Sessions
  BY DEF Sessions
<1>2. \A s \in Sessions : LoadedKept(s)
  BY <1>1, CloseKept DEF CommitOutreach, Fail, OptOutInv
<1>3. CASE UNCHANGED contact
  BY <1>2, <1>3, SameRowsKept DEF StepKept
<1>4. CASE contact' = [contact EXCEPT ![m.contact].stage =
                           IF m.stage = "new" THEN "contacted" ELSE @]
  <2>. HIDE DEF m
  <2>1. ASSUME NEW c \in Contacts
        PROVE  /\ contact'[c].optedOut = contact[c].optedOut
               /\ contact'[c].stage = contact[c].stage \/ contact'[c].stage = "contacted"
    <3>1. contact[c] \in ContactRows
      BY DEF OptOutInv, TypeOK
    <3>. QED
      BY <1>4, <3>1 DEF OptOutInv, TypeOK, ContactRows
  <2>2. ASSUME NEW c \in Contacts
        PROVE  RowKept(c)
    BY <2>1 DEF RowKept, OptOutInv, AbsentIsOpen
  <2>. QED
    BY <1>2, <2>2 DEF StepKept
<1>. QED
  BY <1>3, <1>4 DEF CommitOutreach, Fail, database

LEMMA CommitSaveKept ==
  ASSUME OptOutInv, NEW r \in Requests, CommitSave(r)
  PROVE  StepKept
<1>. DEFINE m == mem[r]
            free == {c \in Contacts : contact[c].stage = "absent"}
<1>1. r \in Sessions /\ m \in Memory
  BY DEF OptOutInv, TypeOK, Sessions
<1>2. \A s \in Sessions : LoadedKept(s)
  BY <1>1, CloseKept DEF CommitSave, Fail, OptOutInv
<1>3. CASE Fail(r)
  BY <1>2, <1>3, SameRowsKept DEF StepKept, Fail, database
<1>4. CASE ~Fail(r)
  <2>1. PICK c \in IF m.contact = NoContact THEN free ELSE {m.contact} :
          contact' = [contact EXCEPT ![c] =
                IF m.contact = NoContact THEN SavedRow(m)
                ELSE [contact[c] EXCEPT !.knows = @ \cup m.typed \cup {"id"}]]
    BY <1>4 DEF CommitSave
  <2>2. c \in Contacts
    BY <1>1, <2>1 DEF Memory
  <2>3. contact[c] \in ContactRows
    BY <2>2 DEF OptOutInv, TypeOK
  <2>4. \A d \in Contacts \ {c} : contact'[d] = contact[d]
    BY <2>1 DEF OptOutInv, TypeOK
  <2>5. \A d \in Contacts \ {c} : RowKept(d)
    BY <2>4 DEF RowKept, OptOutInv, AbsentIsOpen
  <2>6. CASE m.contact = NoContact
    <3>1. contact[c].stage = "absent" /\ ~contact[c].optedOut
      BY <2>1, <2>6 DEF OptOutInv, AbsentIsOpen
    <3>2. contact'[c] = SavedRow(m)
      BY <2>1, <2>2, <2>6 DEF OptOutInv, TypeOK
    <3>3. SavedRow(m).optedOut = FALSE
      BY DEF SavedRow
    <3>. QED
      BY <1>2, <2>5, <3>1, <3>2, <3>3 DEF StepKept, RowKept
  <2>7. CASE m.contact # NoContact
    <3>1. contact'[c] = [contact[c] EXCEPT !.knows = @ \cup m.typed \cup {"id"}]
      BY <2>1, <2>2, <2>7 DEF OptOutInv, TypeOK
    <3>2. contact'[c].stage = contact[c].stage /\ contact'[c].optedOut = contact[c].optedOut
      BY <2>3, <3>1 DEF ContactRows
    <3>3. RowKept(c)
      BY <2>2, <3>2 DEF RowKept, OptOutInv, AbsentIsOpen
    <3>. QED
      BY <1>2, <2>5, <3>3 DEF StepKept
  <2>. QED
    BY <2>6, <2>7
<1>. QED
  BY <1>3, <1>4

LEMMA CommitEditKept ==
  ASSUME OptOutInv, NEW r \in Requests, CommitEdit(r)
  PROVE  StepKept
<1>. DEFINE x == mem[r].contact
<1>1. r \in Sessions /\ TypeOK
  BY DEF Sessions, OptOutInv
<1>2. \A s \in Sessions : LoadedKept(s)
  BY <1>1, CloseKept DEF CommitEdit
<1>3. /\ \A c \in Contacts \ {x} : contact'[c] = contact[c]
      /\ x \in Contacts =>
           /\ contact'[x].stage \in StageValues \cup {contact[x].stage}
           /\ contact[x].optedOut /\ ~contact'[x].optedOut =>
                  mem[r].optedOut /\ mem[r].change.optedOut = "no"
  BY <1>1, CommitEditRows
<1>4. /\ pc[r] = "commit" /\ mem[r].doing = "edit" /\ pc'[r] = "idle"
  BY <1>1 DEF CommitEdit, Close, TypeOK
<1>5. ASSUME x \in Contacts
      PROVE  RowKept(x)
  <2>1. contact[x].stage # "absent"
    <3>1. x # NoContact
      BY <1>5, InboxAssumption
    <3>. QED
      BY <1>1, <3>1 DEF OptOutInv, LoadedExists
  <2>2. contact'[x].stage # "absent"
    BY <1>3, <1>5, <2>1 DEF StageValues
  <2>3. contact[x].optedOut /\ ~contact'[x].optedOut => Revokes(r, x)
    BY <1>3, <1>4, <1>5 DEF Revokes
  <2>. QED
    BY <2>2, <2>3 DEF RowKept
<1>6. \A c \in Contacts \ {x} : RowKept(c)
  BY <1>3 DEF RowKept, OptOutInv, AbsentIsOpen
<1>. QED
  BY <1>2, <1>5, <1>6 DEF StepKept

LEMMA LoadKept ==
  ASSUME OptOutInv,
         \/ \E r \in Requests, a \in Accounts, c \in Contacts : LoadForOutreach(r, a, c)
         \/ \E r \in Requests : RecordOutreach(r)
         \/ \E r \in Requests, k \in Keys, typed \in SUBSET {"phone", "username"} :
                LoadForSave(r, k, typed)
         \/ \E r \in Requests, c \in Contacts, change \in Changes : LoadForEdit(r, c, change)
  PROVE  StepKept
<1>1. \A c \in Contacts : RowKept(c)
  BY SameRowsKept DEF LoadForOutreach, RecordOutreach, LoadForSave, LoadForEdit, database
<1>2. ASSUME NEW r \in Requests, NEW x, x \in Contacts \cup {NoContact},
             mem'[r].contact = x, x # NoContact => contact[x].stage # "absent",
             \A s \in Sessions \ {r} : mem'[s] = mem[s]
      PROVE  StepKept
  BY <1>1, <1>2 DEF StepKept, LoadedKept
<1>3. ASSUME NEW r \in Requests, NEW a \in Accounts, NEW c \in Contacts,
             LoadForOutreach(r, a, c)
      PROVE  StepKept
  <2>. DEFINE m0 == [Forgotten EXCEPT !.doing = "outreach",
                         !.event = [account |-> a, peer |-> contact[c].of, text |-> "hello"]]
  <2>1. m0 \in Memory
    <3>1. [account |-> a, peer |-> contact[c].of, text |-> "hello"] \in Events
      BY DEF Events, OptOutInv, TypeOK, ContactRows
    <3>. QED
      BY <3>1, ForgottenType DEF Memory
  <2>2. mem' = [mem EXCEPT ![r] = WithContact(m0, c)]
    BY <1>3 DEF LoadForOutreach
  <2>. HIDE DEF m0
  <2>3. c # NoContact
    BY InboxAssumption
  <2>4. WithContact(m0, c).contact = c
    BY <2>1, <2>3, WithContactField
  <2>5. mem'[r].contact = c /\ \A s \in Sessions \ {r} : mem'[s] = mem[s]
    BY <2>2, <2>4 DEF OptOutInv, TypeOK, Sessions
  <2>6. contact[c].stage # "absent"
    BY <1>3 DEF LoadForOutreach, Eligible
  <2>. QED
    BY <1>2, <2>5, <2>6
<1>4. ASSUME NEW r \in Requests, RecordOutreach(r)
      PROVE  StepKept
  <2>1. r \in Sessions /\ mem[r] \in Memory /\ Lookup(r, mem[r])
    BY <1>4 DEF OptOutInv, TypeOK, Sessions, RecordOutreach
  <2>2. \A s \in Sessions : LoadedKept(s)
    BY <2>1, LookupKept DEF OptOutInv
  <2>. QED
    BY <1>1, <2>2 DEF StepKept
<1>5. ASSUME NEW r \in Requests, NEW k \in Keys, NEW typed \in SUBSET {"phone", "username"},
             LoadForSave(r, k, typed)
      PROVE  StepKept
  <2>1. PICK c \in Contacts \cup {NoContact} :
          /\ IF Holding(k[2], typed) = {} THEN IsMatch(k[2], c) ELSE Holding(k[2], typed) = {c}
          /\ mem' = [mem EXCEPT ![r] =
                  [Forgotten EXCEPT !.doing = "save", !.contact = c, !.typed = typed,
                       !.event = [account |-> k[1], peer |-> k[2], text |-> "hello"],
                       !.found = conversation[k]]]
    BY <1>5 DEF LoadForSave
  <2>2. c # NoContact => contact[c].stage # "absent"
    <3>1. CASE Holding(k[2], typed) = {}
      BY <2>1, <3>1, MatchExists
    <3>2. CASE Holding(k[2], typed) # {}
      BY <2>1, <3>2 DEF Holding, Rows
    <3>. QED
      BY <3>1, <3>2
  <2>3. mem'[r].contact = c /\ \A s \in Sessions \ {r} : mem'[s] = mem[s]
    BY <2>1 DEF OptOutInv, TypeOK, Sessions, Forgotten
  <2>. QED
    BY <1>2, <2>2, <2>3
<1>6. ASSUME NEW r \in Requests, NEW c \in Contacts, NEW change \in Changes,
             LoadForEdit(r, c, change)
      PROVE  StepKept
  <2>. DEFINE m0 == [Forgotten EXCEPT !.doing = "edit", !.event.peer = contact[c].of,
                                      !.change = change]
  <2>1. m0 \in Memory
    BY EditInHand DEF OptOutInv
  <2>2. mem' = [mem EXCEPT ![r] = WithContact(m0, c)] /\ contact[c].stage # "absent"
    BY <1>6 DEF LoadForEdit
  <2>. HIDE DEF m0
  <2>3. WithContact(m0, c).contact = c
    BY <2>1, InboxAssumption, WithContactField
  <2>4. mem'[r].contact = c /\ \A s \in Sessions \ {r} : mem'[s] = mem[s]
    BY <2>2, <2>3 DEF OptOutInv, TypeOK, Sessions
  <2>. QED
    BY <1>2, <2>2, <2>4
<1>. QED
  BY <1>3, <1>4, <1>5, <1>6

LEMMA EditKept ==
  ASSUME OptOutInv,
         \/ \E k \in Keys, status \in Statuses : SetStatus(k, status)
         \/ \E k \in Keys : DeleteConversation(k)
         \/ \E c \in Contacts, resolved \in BOOLEAN : Resolve(c, resolved)
  PROVE  StepKept
<1>1. ASSUME UNCHANGED mem
      PROVE  \A s \in Sessions : LoadedKept(s)
  BY <1>1 DEF LoadedKept
<1>2. ASSUME NEW k \in Keys, NEW status \in Statuses, SetStatus(k, status)
      PROVE  StepKept
  <2>. DEFINE x == conversation[k].contact
  <2>1. CASE UNCHANGED contact
    BY <1>1, <1>2, <2>1, SameRowsKept DEF StepKept, SetStatus, sessions
  <2>2. CASE /\ status # "blocked"
             /\ contact' = [contact EXCEPT ![x].stage = status,
                                           ![x].optedOut = @ \/ status = "opted_out"]
    <3>1. status # "absent"
      BY InboxAssumption, <2>2 DEF StageValues
    <3>2. ASSUME NEW c \in Contacts
          PROVE  RowKept(c)
      <4>1. CASE c = x
        <5>1. contact[c] \in ContactRows
          BY DEF OptOutInv, TypeOK
        <5>2. /\ contact'[c].stage = status
              /\ contact'[c].optedOut = (contact[c].optedOut \/ status = "opted_out")
          BY <2>2, <4>1, <5>1 DEF OptOutInv, TypeOK, ContactRows
        <5>3. contact[c].optedOut => contact'[c].optedOut
          BY <5>2, Zenon
        <5>. QED
          BY <3>1, <5>2, <5>3 DEF RowKept
      <4>2. CASE c # x
        <5>1. contact'[c] = contact[c]
          BY <2>2, <4>2 DEF OptOutInv, TypeOK
        <5>. QED
          BY <5>1 DEF RowKept, OptOutInv, AbsentIsOpen
      <4>. QED
        BY <4>1, <4>2
    <3>. QED
      BY <1>1, <1>2, <3>2 DEF StepKept, SetStatus, sessions
  <2>. QED
    BY <1>2, <2>1, <2>2 DEF SetStatus
<1>3. ASSUME NEW k \in Keys, DeleteConversation(k)
      PROVE  StepKept
  <2>1. \A s \in Sessions : mem[s] \in Memory
    BY DEF OptOutInv, TypeOK
  <2>2. \A s \in Sessions : mem'[s].contact = mem[s].contact
    BY <1>3, <2>1 DEF DeleteConversation, Memory
  <2>. QED
    BY <1>3, <2>2, SameRowsKept DEF DeleteConversation, StepKept, LoadedKept
<1>4. ASSUME NEW x \in Contacts, NEW resolved \in BOOLEAN, Resolve(x, resolved)
      PROVE  StepKept
  <2>1. ASSUME NEW c \in Contacts
        PROVE  contact'[c].stage = contact[c].stage /\ contact'[c].optedOut = contact[c].optedOut
    <3>1. contact[c] \in ContactRows
      BY DEF OptOutInv, TypeOK
    <3>. QED
      BY <1>4, <3>1 DEF Resolve, OptOutInv, TypeOK, ContactRows
  <2>2. \A c \in Contacts : RowKept(c)
    BY <2>1 DEF RowKept, OptOutInv, AbsentIsOpen
  <2>. QED
    BY <1>1, <1>4, <2>2 DEF StepKept, Resolve, sessions
<1>. QED
  BY <1>2, <1>3, <1>4

LEMMA FailureKept ==
  ASSUME OptOutInv,
         \/ \E s \in Sessions : Crash(s)
         \/ \E w \in Workers : Disconnect(w)
  PROVE  StepKept
<1>1. \A c \in Contacts : RowKept(c)
  BY SameRowsKept DEF Crash, Disconnect, database
<1>2. \A s \in Sessions : LoadedKept(s)
  BY CloseKept DEF Crash, Disconnect, sessions, OptOutInv, Sessions
<1>. QED
  BY <1>1, <1>2 DEF StepKept

LEMMA NextKept == OptOutInv /\ [Next]_vars => StepKept
<1>. SUFFICES ASSUME OptOutInv, [Next]_vars
              PROVE  StepKept
  OBVIOUS
<1>1. CASE Others
  <2>1. ASSUME NEW e \in Events, Publish(e)
        PROVE  StepKept
    BY <2>1, SameRowsKept DEF Publish, StepKept, LoadedKept, database, sessions
  <2>. QED
    BY <1>1, <2>1, EditKept, LoadKept DEF Others
<1>2. ASSUME NEW s \in Sessions, SessionStep(s)
      PROVE  StepKept
  BY <1>2, InsertKept, TakeMessageKept, CommitIncomingKept, LoadKept, CommitOutreachKept,
     CommitSaveKept, CommitEditKept DEF SessionStep
<1>3. CASE (\E s \in Sessions : Crash(s)) \/ (\E w \in Workers : Disconnect(w))
  BY <1>3, FailureKept
<1>4. CASE UNCHANGED vars
  BY <1>4, SameRowsKept DEF StepKept, LoadedKept, vars, database, sessions
<1>. QED
  BY <1>1, <1>2, <1>3, <1>4 DEF Next

LEMMA InitOptOut == Init => OptOutInv
  BY InitType, InboxAssumption
     DEF Init, OptOutInv, AbsentIsOpen, LoadedExists, Forgotten

LEMMA NextOptOut == OptOutInv /\ [Next]_vars => OptOutInv'
<1>. SUFFICES ASSUME OptOutInv, [Next]_vars
              PROVE  OptOutInv'
  OBVIOUS
<1>1. TypeOK'
  BY NextType DEF OptOutInv
<1>2. StepKept
  BY NextKept
<1>3. AbsentIsOpen'
  BY <1>2 DEF StepKept, RowKept, AbsentIsOpen
<1>4. LoadedExists'
  <2>1. ASSUME NEW s \in Sessions, mem'[s].contact # NoContact
        PROVE  contact'[mem'[s].contact].stage # "absent"
    <3>1. mem'[s].contact \in Contacts
      BY <1>1, <2>1 DEF TypeOK, Memory
    <3>2. contact[mem'[s].contact].stage # "absent"
      BY <1>2, <2>1 DEF StepKept, LoadedKept, OptOutInv, LoadedExists
    <3>. QED
      BY <1>2, <3>1, <3>2 DEF StepKept, RowKept
  <2>. QED
    BY <2>1 DEF LoadedExists
<1>. QED
  BY <1>1, <1>3, <1>4 DEF OptOutInv

\* However many workers, ticks and requests hold a contact's row from before its stop,
\* none of their commits takes the opt-out back: only a request does that was asked to,
\* and had loaded the contact as opted out.
THEOREM OptOutIsKept == Spec => OptOutStays
<1>1. OptOutInv /\ [Next]_vars =>
        [\A c \in Contacts :
          contact[c].optedOut /\ ~contact'[c].optedOut => \E r \in Requests : Revokes(r, c)]_vars
  BY NextKept DEF StepKept, RowKept
<1>. QED
  BY <1>1, InitOptOut, NextOptOut, PTL DEF Spec, OptOutStays

-----------------------------------------------------------------------------
(* What the steps of a session do to it and to the rows: the facts that the   *)
(* proofs about stops need.                                                 *)

OthersRest(s) == \A r \in Sessions \ {s} : pc'[r] = pc[r] /\ mem'[r] = mem[r]

IsClosed(s) == OthersRest(s) /\ pc'[s] = "idle" /\ mem'[s] = Forgotten

LEMMA ForgottenFields ==
  /\ Forgotten.doing = "nothing"
  /\ Forgotten.contact = NoContact /\ Forgotten.found = NoConversation
  /\ Forgotten.found.contact = NoContact
  /\ Forgotten.fresh = FALSE /\ Forgotten.gone = FALSE
  BY DEF Forgotten, NoConversation

LEMMA CloseEffect ==
  ASSUME TypeOK, NEW s \in Sessions, Close(s)
  PROVE  IsClosed(s)
  BY DEF Close, IsClosed, OthersRest, TypeOK

\* What a session holds once it has looked for the conversation of what it has loaded.
Found(s, m, k) ==
    /\ OthersRest(s)
    /\ mem'[s].doing = m.doing /\ mem'[s].event = m.event
    /\ mem'[s].contact = m.contact /\ mem'[s].stage = m.stage
    /\ mem'[s].optedOut = m.optedOut /\ mem'[s].fresh = m.fresh /\ mem'[s].gone = m.gone
    /\ IF Exists(k) THEN pc'[s] = "commit" /\ mem'[s].found = conversation[k]
                    ELSE pc'[s] = "insert" /\ mem'[s].found = m.found

LEMMA LookupEffect ==
  ASSUME TypeOK, NEW s \in Sessions, NEW m \in Memory, Lookup(s, m)
  PROVE  Found(s, m, Key(m))
<1>1. CASE Exists(Key(m))
  <2>1. pc'[s] = "commit" /\ mem'[s] = [m EXCEPT !.found = conversation[Key(m)]] /\ OthersRest(s)
    BY <1>1 DEF Lookup, OthersRest, TypeOK
  <2>. QED
    BY <1>1, <2>1 DEF Found, Memory
<1>2. CASE ~Exists(Key(m))
  <2>1. pc'[s] = "insert" /\ mem'[s] = m /\ OthersRest(s)
    BY <1>2 DEF Lookup, OthersRest, TypeOK
  <2>. QED
    BY <1>2, <2>1 DEF Found
<1>. QED
  BY <1>1, <1>2

LEMMA WithContactFields ==
  ASSUME NEW m \in Memory, NEW c
  PROVE  /\ WithContact(m, c).doing = m.doing
         /\ WithContact(m, c).event = m.event /\ WithContact(m, c).found = m.found
         /\ WithContact(m, c).fresh = m.fresh /\ WithContact(m, c).gone = m.gone
         /\ WithContact(m, c).contact = IF c = NoContact THEN m.contact ELSE c
         /\ c # NoContact => /\ WithContact(m, c).stage = contact[c].stage
                             /\ WithContact(m, c).optedOut = contact[c].optedOut
<1>1. CASE c = NoContact
  BY <1>1 DEF WithContact
<1>2. CASE c # NoContact
  BY <1>2 DEF WithContact, Memory
<1>. QED
  BY <1>1, <1>2

\* A worker that has taken message e: the contact is the peer's match, as it is now.
Taken(w, e) ==
    /\ OthersRest(w)
    /\ mem'[w].doing = "incoming"
    /\ mem'[w].event = e /\ ~mem'[w].fresh /\ ~mem'[w].gone
    /\ mem'[w].contact \in Contacts \cup {NoContact}
    /\ IsMatch(e.peer, mem'[w].contact)
    /\ mem'[w].contact # NoContact =>
           /\ mem'[w].stage = contact[mem'[w].contact].stage
           /\ mem'[w].optedOut = contact[mem'[w].contact].optedOut
    /\ IF Exists(<<e.account, e.peer>>)
       THEN pc'[w] = "commit" /\ mem'[w].found = conversation[<<e.account, e.peer>>]
       ELSE pc'[w] = "insert" /\ mem'[w].found = NoConversation

LEMMA TakeEffect ==
  ASSUME TypeOK, NEW w \in Workers, TakeMessage(w)
  PROVE  /\ pc[w] = "idle" /\ queue[w] # <<>> /\ queue' = [queue EXCEPT ![w] = Tail(@)]
         /\ UNCHANGED <<contact, conversation, listening>>
         /\ \/ UNCHANGED <<pc, mem>> /\ Interfere({Head(queue[w]).peer})
            \/ UNCHANGED stop /\ Taken(w, Head(queue[w]))
<1>. DEFINE e == Head(queue[w])
            m0 == [Forgotten EXCEPT !.doing = "incoming", !.event = e]
<1>1. /\ pc[w] = "idle" /\ queue[w] # <<>> /\ queue' = [queue EXCEPT ![w] = Tail(@)]
      /\ UNCHANGED <<contact, conversation, listening>>
  BY DEF TakeMessage, Dropped, database
<1>2. w \in Sessions /\ e \in Events
  <2>1. queue[w] \in Seq(Events)
    BY DEF TypeOK
  <2>. QED
    BY <1>1, <2>1 DEF Sessions
<1>3. m0 \in Memory
  BY <1>2, ForgottenType DEF Memory
<1>4. /\ m0.doing = "incoming" /\ m0.event = e /\ m0.fresh = FALSE /\ m0.gone = FALSE
      /\ m0.contact = NoContact /\ m0.found = NoConversation
  BY DEF Forgotten
<1>5. \/ UNCHANGED <<pc, mem>> /\ Interfere({e.peer})
      \/ /\ UNCHANGED stop
         /\ \E c \in Contacts \cup {NoContact} : IsMatch(e.peer, c) /\ Lookup(w, WithContact(m0, c))
  BY DEF TakeMessage, Dropped, sessions
<1>. HIDE DEF m0
<1>6. ASSUME NEW c \in Contacts \cup {NoContact}, IsMatch(e.peer, c), Lookup(w, WithContact(m0, c))
      PROVE  Taken(w, e)
  <2>. DEFINE m == WithContact(m0, c)
  <2>1. m \in Memory
    BY <1>3, WithContactType
  <2>2. /\ m.doing = "incoming"
        /\ m.event = e /\ m.found = NoConversation /\ m.fresh = FALSE /\ m.gone = FALSE /\ m.contact = c
        /\ c # NoContact => m.stage = contact[c].stage /\ m.optedOut = contact[c].optedOut
    BY <1>3, <1>4, WithContactFields
  <2>3. Key(m) = <<e.account, e.peer>>
    BY <2>2 DEF Key
  <2>4. Found(w, m, Key(m))
    BY <1>2, <1>6, <2>1, LookupEffect
  <2>. HIDE DEF m
  <2>. QED
    BY <1>6, <2>2, <2>3, <2>4 DEF Found, Taken
<1>. QED
  BY <1>1, <1>5, <1>6

LEMMA InsertEffect ==
  ASSUME TypeOK, NEW s \in Sessions, InsertConversation(s)
  PROVE  /\ UNCHANGED <<contact, conversation, queue, listening, stop>>
         /\ pc[s] = "insert" /\ OthersRest(s)
         /\ \/ Exists(Key(mem[s])) /\ IsClosed(s)
            \/ /\ ~Exists(Key(mem[s]))
               /\ \A r \in Sessions \ {s} : ~Inserting(r, Key(mem[s]))
               /\ pc'[s] = "commit" /\ mem'[s].fresh /\ mem'[s].found = NewConversation
               /\ mem'[s].event = mem[s].event /\ mem'[s].contact = mem[s].contact
               /\ mem'[s].stage = mem[s].stage /\ mem'[s].optedOut = mem[s].optedOut
               /\ mem'[s].gone = mem[s].gone
<1>1. /\ UNCHANGED <<contact, conversation, queue, listening, stop>> /\ pc[s] = "insert"
      /\ \A r \in Sessions \ {s} : ~Inserting(r, Key(mem[s]))
  BY DEF InsertConversation, Fail, database, channel
<1>2. CASE Exists(Key(mem[s]))
  BY <1>1, <1>2, CloseEffect DEF InsertConversation, Fail, IsClosed
<1>3. CASE ~Exists(Key(mem[s]))
  <2>1. /\ pc'[s] = "commit" /\ mem'[s] = [mem[s] EXCEPT !.fresh = TRUE, !.found = NewConversation]
        /\ OthersRest(s)
    BY <1>3 DEF InsertConversation, OthersRest, TypeOK
  <2>2. mem[s] \in Memory
    BY DEF TypeOK
  <2>. QED
    BY <1>1, <1>3, <2>1, <2>2 DEF Memory
<1>. QED
  BY <1>2, <1>3

\* A handler's commit that succeeds, column by column.
Answered(w) ==
    LET m == mem[w]
        j == Key(m)
        answers == Moves(m)
    IN  /\ ~m.gone
        /\ \A i \in Keys \ {j} : conversation'[i] = conversation[i] /\ stop'[i] = stop[i]
        /\ stop'[j] = IF m.event.text = "stop" /\ stop[j] = "said" THEN "heard" ELSE stop[j]
        /\ m.fresh => conversation'[j].status = IF answers THEN Answer(m) ELSE m.found.status
        /\ ~m.fresh => conversation'[j].status =
                           IF answers /\ Answer(m) # m.found.status
                           THEN Answer(m) ELSE conversation[j].status
        /\ conversation'[j].contact \in {m.contact, m.found.contact, conversation[j].contact}
        /\ \A c \in Contacts \ {m.contact} : contact'[c] = contact[c]
        /\ m.contact \in Contacts =>
              /\ contact'[m.contact].of = contact[m.contact].of
              /\ contact'[m.contact].knows = contact[m.contact].knows
              /\ contact'[m.contact].stage =
                     IF answers /\ Answer(m) # m.stage THEN Answer(m) ELSE contact[m.contact].stage
              /\ m.event.text = "stop" /\ ~m.optedOut => contact'[m.contact].optedOut
              /\ contact[m.contact].optedOut => contact'[m.contact].optedOut

LEMMA CommitIncomingEffect ==
  ASSUME TypeOK, NEW w \in Workers, CommitIncoming(w)
  PROVE  /\ pc[w] = "commit" /\ IsClosed(w) /\ UNCHANGED <<queue, listening>>
         /\ \/ mem[w].gone /\ UNCHANGED <<contact, conversation, stop>>
            \/ Answered(w)
<1>. DEFINE m == mem[w]
            j == Key(m)
            status == IF Moves(m) THEN Answer(m) ELSE m.found.status
<1>1. w \in Sessions /\ m \in Memory /\ j \in Keys
  BY KeyType DEF Sessions, TypeOK, Keys
<1>2. pc[w] = "commit" /\ UNCHANGED <<queue, listening>> /\ Close(w)
  BY DEF CommitIncoming, Fail, channel
<1>3. IsClosed(w)
  BY <1>1, <1>2, CloseEffect
<1>4. CASE m.gone
  BY <1>2, <1>3, <1>4 DEF CommitIncoming, Fail, database
<1>5. CASE ~m.gone
  <2>1. /\ conversation' = [conversation EXCEPT ![j] = Stored(m, status)]
        /\ contact' = IF m.contact = NoContact THEN contact
                      ELSE [contact EXCEPT ![m.contact] = AfterIncoming(m)]
        /\ stop' = [stop EXCEPT ![j] =
                       IF m.event.text = "stop" /\ @ = "said" THEN "heard" ELSE @]
    BY <1>5 DEF CommitIncoming
  <2>. HIDE DEF status
  <2>2. /\ \A i \in Keys \ {j} : conversation'[i] = conversation[i] /\ stop'[i] = stop[i]
        /\ stop'[j] = IF m.event.text = "stop" /\ stop[j] = "said" THEN "heard" ELSE stop[j]
        /\ conversation'[j] = Stored(m, status)
    <3>. HIDE DEF m, j
    <3>. QED
      BY <1>1, <2>1 DEF TypeOK, Keys
  <2>3. /\ Stored(m, status).status = IF m.fresh THEN status
              ELSE IF status = m.found.status THEN conversation[j].status ELSE status
        /\ Stored(m, status).contact \in {m.contact, m.found.contact, conversation[j].contact}
    <3>. HIDE DEF m
    <3>. QED
      BY DEF Stored, Written, Linked
  <2>4. \A c \in Contacts \ {m.contact} : contact'[c] = contact[c]
    <3>. HIDE DEF m
    <3>. QED
      BY <2>1 DEF TypeOK
  <2>5. ASSUME m.contact \in Contacts
        PROVE  /\ contact'[m.contact].of = contact[m.contact].of
               /\ contact'[m.contact].knows = contact[m.contact].knows
               /\ contact'[m.contact].stage = IF Moves(m) /\ Answer(m) # m.stage
                      THEN Answer(m) ELSE contact[m.contact].stage
               /\ m.event.text = "stop" /\ ~m.optedOut => contact'[m.contact].optedOut
               /\ contact[m.contact].optedOut => contact'[m.contact].optedOut
    <3>. HIDE DEF m
    <3>1. m.contact # NoContact /\ contact[m.contact] \in ContactRows
      BY <2>5, InboxAssumption DEF TypeOK
    <3>2. contact'[m.contact] = AfterIncoming(m)
      BY <2>1, <2>5, <3>1 DEF TypeOK
    <3>3. /\ AfterIncoming(m).of = contact[m.contact].of
          /\ AfterIncoming(m).knows = contact[m.contact].knows
          /\ AfterIncoming(m).stage =
                 IF Moves(m) THEN Written(Answer(m), m.stage, contact[m.contact].stage)
                 ELSE contact[m.contact].stage
          /\ AfterIncoming(m).optedOut =
                 IF m.event.text = "stop"
                 THEN Written(TRUE, m.optedOut, contact[m.contact].optedOut)
                 ELSE contact[m.contact].optedOut
      BY <3>1 DEF AfterIncoming, ContactRows
    <3>4. m.optedOut \in BOOLEAN
      BY <1>1 DEF Memory
    <3>5. Written(TRUE, m.optedOut, contact[m.contact].optedOut) =
              IF m.optedOut THEN contact[m.contact].optedOut ELSE TRUE
      BY <3>4 DEF Written
    <3>6. /\ AfterIncoming(m).stage = IF Moves(m) /\ Answer(m) # m.stage
                 THEN Answer(m) ELSE contact[m.contact].stage
      BY <3>3 DEF Written
    <3>7. /\ m.event.text = "stop" /\ ~m.optedOut => AfterIncoming(m).optedOut
          /\ contact[m.contact].optedOut => AfterIncoming(m).optedOut
      BY <3>3, <3>5, Zenon
    <3>. QED
      BY <3>2, <3>3, <3>6, <3>7
  <2>6. Answered(w)
    BY <1>5, <2>2, <2>3, <2>4, <2>5 DEF Answered, status
  <2>. QED
    BY <1>2, <1>3, <2>6
<1>. QED
  BY <1>4, <1>5

\* The commit of a tick that succeeds.
Recorded(r) ==
    LET m == mem[r]
        j == Key(m)
    IN  /\ \A i \in Keys \ {j} : conversation'[i] = conversation[i]
        /\ m.found = NoConversation => conversation' = conversation
        /\ m.found # NoConversation => ~m.gone
        /\ m.fresh /\ m.found # NoConversation => conversation'[j].status = m.found.status
        /\ ~m.fresh => conversation'[j].status = conversation[j].status
        /\ conversation'[j].contact \in {m.contact, m.found.contact, conversation[j].contact}
        /\ \A c \in Contacts \ {m.contact} : contact'[c] = contact[c]
        /\ m.contact \in Contacts =>
              /\ contact'[m.contact].of = contact[m.contact].of
              /\ contact'[m.contact].knows = contact[m.contact].knows
              /\ contact'[m.contact].optedOut = contact[m.contact].optedOut
              /\ contact'[m.contact].stage \in {"contacted", contact[m.contact].stage}

LEMMA CommitOutreachEffect ==
  ASSUME TypeOK, NEW r \in Requests, CommitOutreach(r)
  PROVE  /\ pc[r] = "commit" /\ IsClosed(r) /\ UNCHANGED <<queue, listening, stop>>
         /\ UNCHANGED <<contact, conversation>> \/ Recorded(r)
<1>. DEFINE m == mem[r]
            j == Key(m)
<1>1. r \in Sessions /\ m \in Memory /\ j \in Keys
  BY KeyType DEF Sessions, TypeOK, Keys
<1>2. pc[r] = "commit" /\ UNCHANGED <<queue, listening, stop>> /\ Close(r)
  BY DEF CommitOutreach, Fail, channel
<1>3. IsClosed(r)
  BY <1>1, <1>2, CloseEffect
<1>4. CASE m.found # NoConversation /\ m.gone
  BY <1>2, <1>3, <1>4 DEF CommitOutreach, Fail, database
<1>5. CASE ~(m.found # NoConversation /\ m.gone)
  <2>1. /\ conversation' = IF m.found # NoConversation
                           THEN [conversation EXCEPT ![j] = Stored(m, m.found.status)]
                           ELSE conversation
        /\ contact' = [contact EXCEPT ![m.contact].stage =
                           IF m.stage = "new" THEN "contacted" ELSE @]
    BY <1>5 DEF CommitOutreach
  <2>2. /\ \A i \in Keys \ {j} : conversation'[i] = conversation[i]
        /\ m.found = NoConversation => conversation' = conversation
        /\ m.found # NoConversation => conversation'[j] = Stored(m, m.found.status)
    <3>. HIDE DEF m, j
    <3>. QED
      BY <1>1, <2>1 DEF TypeOK, Keys
  <2>3. /\ Stored(m, m.found.status).status =
               IF m.fresh THEN m.found.status ELSE conversation[j].status
        /\ Stored(m, m.found.status).contact
               \in {m.contact, m.found.contact, conversation[j].contact}
    <3>. HIDE DEF m
    <3>. QED
      BY DEF Stored, Written, Linked
  <2>4. \A c \in Contacts \ {m.contact} : contact'[c] = contact[c]
    <3>. HIDE DEF m
    <3>. QED
      BY <2>1 DEF TypeOK
  <2>5. ASSUME m.contact \in Contacts
        PROVE  /\ contact'[m.contact].of = contact[m.contact].of
               /\ contact'[m.contact].knows = contact[m.contact].knows
               /\ contact'[m.contact].optedOut = contact[m.contact].optedOut
               /\ contact'[m.contact].stage \in {"contacted", contact[m.contact].stage}
    <3>. HIDE DEF m
    <3>1. contact[m.contact] \in ContactRows
      BY <2>5 DEF TypeOK
    <3>. QED
      BY <2>1, <2>5, <3>1 DEF TypeOK, ContactRows
  <2>6. Recorded(r)
    BY <1>5, <2>2, <2>3, <2>4, <2>5 DEF Recorded
  <2>. QED
    BY <1>2, <1>3, <2>6
<1>. QED
  BY <1>4, <1>5

-----------------------------------------------------------------------------
(* What holds of the sessions and of the links between rows whatever the     *)
(* messages say.                                                            *)

RowOf(c, p) == contact[c].stage # "absent" /\ contact[c].of = p

\* A conversation's contact, and what a session has loaded, stand for the same peer.
LinksOf(s) ==
    /\ mem[s].contact # NoContact => RowOf(mem[s].contact, mem[s].event.peer)
    /\ mem[s].found.contact # NoContact => RowOf(mem[s].found.contact, mem[s].event.peer)

ConversationsLinked ==
    \A k \in Keys : conversation[k].contact # NoContact => RowOf(conversation[k].contact, k[2])

\* An uncommitted conversation is nobody else's; one that was found is still there
\* unless it has been deleted since.
SessionOk(s) ==
    /\ mem[s].fresh => /\ pc[s] = "commit" /\ mem[s].found = NewConversation
                       /\ ~Exists(Key(mem[s]))
    /\ pc[s] = "commit" /\ mem[s].found # NoConversation /\ ~mem[s].fresh /\ ~mem[s].gone
           => Exists(Key(mem[s]))
    /\ s \in Workers /\ pc[s] = "commit" => mem[s].found # NoConversation
    /\ mem[s].doing = "save" => mem[s].found.status # "absent"

Sound(s) == LinksOf(s) /\ SessionOk(s)

FreshOnce ==
    \A r, s \in Sessions : mem[r].fresh /\ mem[s].fresh /\ Key(mem[r]) = Key(mem[s]) => r = s

\* A worker whose consumer has ended handles nothing.
DeafRest == \A w \in Workers : w \notin listening => pc[w] = "idle" /\ queue[w] = <<>>

BaseInv ==
    /\ OptOutInv
    /\ ConversationsLinked
    /\ \A s \in Sessions : Sound(s)
    /\ FreshOnce
    /\ DeafRest

\* Steps: no row of a contact disappears or changes hands; the conversations that come to
\* be are those that session s had inserted.
RowsStay ==
    \A c \in Contacts : contact[c].stage # "absent" =>
        contact'[c].stage # "absent" /\ contact'[c].of = contact[c].of

Grows(s) ==
    \A k \in Keys :
        /\ Exists(k) => conversation'[k].status # "absent"
        /\ conversation'[k].status # "absent" =>
               Exists(k) \/ (mem[s].fresh /\ k = Key(mem[s]))

LEMMA LoadedTypes ==
  ASSUME TypeOK, NEW s \in Sessions
  PROVE  /\ mem[s] \in Memory /\ Key(mem[s]) \in Keys /\ mem[s].event \in Events
         /\ mem[s].contact \in Contacts \cup {NoContact}
         /\ mem[s].found \in Conversations
         /\ mem[s].found.contact \in Contacts \cup {NoContact}
         /\ Key(mem[s])[2] = mem[s].event.peer
<1>1. mem[s] \in Memory
  BY DEF TypeOK
<1>. QED
  BY <1>1, KeyType DEF Memory, Conversations, Keys, Key

LEMMA OthersStaySound ==
  ASSUME BaseInv, NEW s \in Sessions, OthersRest(s), RowsStay, Grows(s)
  PROVE  \A r \in Sessions \ {s} : Sound(r)'
<1>. SUFFICES ASSUME NEW r \in Sessions \ {s}
              PROVE  Sound(r)'
  OBVIOUS
<1>1. pc'[r] = pc[r] /\ mem'[r] = mem[r]
  BY DEF OthersRest
<1>2. TypeOK /\ Sound(r) /\ FreshOnce
  BY DEF BaseInv, OptOutInv
<1>3. /\ Key(mem[r]) \in Keys
      /\ mem[r].contact \in Contacts \cup {NoContact}
      /\ mem[r].found.contact \in Contacts \cup {NoContact}
  BY <1>2, LoadedTypes
<1>4. LinksOf(r)'
  BY <1>1, <1>2, <1>3 DEF Sound, LinksOf, RowOf, RowsStay
<1>5. Key(mem'[r]) = Key(mem[r])
  BY <1>1
<1>6. /\ Exists(Key(mem[r])) => conversation'[Key(mem[r])].status # "absent"
      /\ mem[r].fresh => ~(conversation'[Key(mem[r])].status # "absent")
  BY <1>2, <1>3 DEF Grows, FreshOnce, Sound, SessionOk
<1>7. SessionOk(r)'
  BY <1>1, <1>2, <1>5, <1>6 DEF Sound, SessionOk, Exists
<1>. QED
  BY <1>4, <1>7 DEF Sound

LEMMA ClosedIsSound ==
  ASSUME NEW s \in Sessions, IsClosed(s)
  PROVE  Sound(s)' /\ mem'[s].fresh = FALSE
  BY ForgottenFields DEF IsClosed, Sound, LinksOf, SessionOk

LEMMA FreshStaysOnce ==
  ASSUME FreshOnce, NEW s \in Sessions, OthersRest(s),
         mem'[s].fresh =>
            \A r \in Sessions \ {s} : mem[r].fresh => Key(mem[r]) # Key(mem'[s])
  PROVE  FreshOnce'
  BY DEF FreshOnce, OthersRest

LEMMA MatchIsRow ==
  ASSUME NEW p, NEW c, IsMatch(p, c), c # NoContact
  PROVE  c \in Contacts /\ RowOf(c, p)
<1>1. Matches(p) = {c}
  BY DEF IsMatch
<1>2. Matches(p) \subseteq Rows(p)
  BY DEF Matches, Holding
<1>. QED
  BY <1>1, <1>2 DEF Rows, RowOf

\* Every step but the edits (which touch a session only to mark it) is a session's:
\* nothing but its rows changes.
LEMMA SessionBase ==
  ASSUME BaseInv, TypeOK', NEW s \in Sessions, OthersRest(s), RowsStay, Grows(s),
         Sound(s)', ConversationsLinked', DeafRest',
         mem'[s].fresh =>
            \A r \in Sessions \ {s} : mem[r].fresh => Key(mem[r]) # Key(mem'[s])
  PROVE  (\A r \in Sessions : Sound(r)') /\ FreshOnce'
<1>1. \A r \in Sessions : Sound(r)'
  BY OthersStaySound
<1>2. FreshOnce'
  BY FreshStaysOnce DEF BaseInv
<1>. QED
  BY <1>1, <1>2

BaseRest ==
    /\ ConversationsLinked
    /\ \A s \in Sessions : Sound(s)
    /\ FreshOnce
    /\ DeafRest

LEMMA QuietDatabase ==
  ASSUME BaseInv, UNCHANGED <<contact, conversation>>
  PROVE  RowsStay /\ (\A s \in Sessions : Grows(s)) /\ ConversationsLinked'
<1>1. RowsStay /\ \A s \in Sessions : Grows(s)
  BY DEF RowsStay, Grows, Exists
<1>2. ConversationsLinked'
  BY DEF BaseInv, ConversationsLinked, RowOf
<1>. QED
  BY <1>1, <1>2

LEMMA PublishBase ==
  ASSUME BaseInv, NEW e \in Events, Publish(e)
  PROVE  BaseRest'
<1>1. UNCHANGED <<contact, conversation, pc, mem, listening>>
  BY DEF Publish, database, sessions
<1>2. ConversationsLinked'
  BY <1>1, QuietDatabase
<1>3. \A s \in Sessions : Sound(s)'
  BY <1>1 DEF BaseInv, Sound, LinksOf, RowOf, SessionOk, Exists, Key
<1>4. FreshOnce'
  BY <1>1 DEF BaseInv, FreshOnce, Key
<1>5. DeafRest'
  BY <1>1 DEF BaseInv, DeafRest, Publish
<1>. QED
  BY <1>2, <1>3, <1>4, <1>5 DEF BaseRest

LEMMA TakeBase ==
  ASSUME BaseInv, NEW w \in Workers, TakeMessage(w)
  PROVE  BaseRest'
<1>. DEFINE e == Head(queue[w])
            k == <<e.account, e.peer>>
<1>1. /\ pc[w] = "idle" /\ queue[w] # <<>> /\ queue' = [queue EXCEPT ![w] = Tail(@)]
      /\ UNCHANGED <<contact, conversation, listening>>
      /\ UNCHANGED <<pc, mem>> \/ Taken(w, e)
  BY TakeEffect DEF BaseInv, OptOutInv
<1>2. w \in Sessions /\ TypeOK
  BY DEF Sessions, BaseInv, OptOutInv
<1>3. e \in Events /\ k \in Keys /\ k[2] = e.peer
  <2>1. queue[w] \in Seq(Events)
    BY <1>2 DEF TypeOK
  <2>2. e \in Events
    BY <1>1, <2>1
  <2>. QED
    BY <2>2 DEF Events, Keys
<1>4. RowsStay /\ Grows(w) /\ ConversationsLinked'
  BY <1>1, <1>2, QuietDatabase
<1>5. DeafRest'
  <2>1. w \in listening
    BY <1>1 DEF BaseInv, DeafRest
  <2>2. \A v \in Workers \ {w} : queue'[v] = queue[v] /\ pc'[v] = pc[v]
    BY <1>1, <1>2 DEF TypeOK, Taken, OthersRest, Sessions
  <2>. QED
    BY <1>1, <2>1, <2>2 DEF BaseInv, DeafRest
<1>. HIDE DEF e
<1>6. CASE UNCHANGED <<pc, mem>>
  <2>1. \A s \in Sessions : Sound(s)'
    BY <1>1, <1>6 DEF BaseInv, Sound, LinksOf, RowOf, SessionOk, Exists, Key
  <2>2. FreshOnce'
    BY <1>6 DEF BaseInv, FreshOnce, Key
  <2>. QED
    BY <1>4, <1>5, <2>1, <2>2 DEF BaseRest
<1>7. CASE Taken(w, e)
  <2>1. OthersRest(w) /\ mem'[w].fresh # TRUE /\ mem'[w].event = e
    BY <1>7 DEF Taken
  <2>2. Key(mem'[w]) = k
    BY <2>1 DEF Key
  <2>. HIDE DEF k
  <2>3. mem'[w].contact # NoContact => RowOf(mem'[w].contact, e.peer)
    BY <1>7, MatchIsRow DEF Taken
  <2>4. mem'[w].found.contact # NoContact => RowOf(mem'[w].found.contact, e.peer)
    BY <1>3, <1>7 DEF Taken, BaseInv, ConversationsLinked, NoConversation, k
  <2>5. LinksOf(w)'
    BY <1>1, <2>1, <2>3, <2>4 DEF LinksOf, RowOf
  <2>6. SessionOk(w)'
    <3>1. mem'[w].found.status # "absent" => mem'[w].found # NoConversation
      BY DEF NoConversation
    <3>. QED
      BY <1>1, <1>7, <2>1, <2>2, <3>1 DEF SessionOk, Taken, Exists, k
  <2>7. \A s \in Sessions : Sound(s)'
    BY <1>2, <1>4, <2>1, <2>5, <2>6, OthersStaySound DEF Sound
  <2>8. FreshOnce'
    BY <1>2, <1>7, FreshStaysOnce DEF BaseInv, Taken
  <2>. QED
    BY <1>4, <1>5, <2>7, <2>8 DEF BaseRest
<1>. QED
  BY <1>1, <1>6, <1>7

LEMMA DeafStayDeaf ==
  ASSUME BaseInv, NEW s \in Sessions, OthersRest(s), UNCHANGED <<queue, listening>>,
         s \in Workers => pc[s] # "idle"
  PROVE  DeafRest'
  BY DEF BaseInv, DeafRest, OthersRest, Sessions

LEMMA InsertBase ==
  ASSUME BaseInv, NEW s \in Sessions, InsertConversation(s)
  PROVE  BaseRest'
<1>. DEFINE m == mem[s]
<1>1. TypeOK
  BY DEF BaseInv, OptOutInv
<1>2. UNCHANGED <<contact, conversation, queue, listening>> /\ pc[s] = "insert" /\ OthersRest(s)
  BY <1>1, InsertEffect
<1>3. RowsStay /\ Grows(s) /\ ConversationsLinked'
  BY <1>2, QuietDatabase
<1>4. DeafRest'
  BY <1>2, DeafStayDeaf
<1>5. CASE IsClosed(s)
  BY <1>2, <1>3, <1>4, <1>5, ClosedIsSound, OthersStaySound, FreshStaysOnce
     DEF BaseRest, BaseInv
<1>6. CASE /\ ~Exists(Key(m))
           /\ \A r \in Sessions \ {s} : ~Inserting(r, Key(m))
           /\ pc'[s] = "commit" /\ mem'[s].fresh /\ mem'[s].found = NewConversation
           /\ mem'[s].event = m.event /\ mem'[s].contact = m.contact
  <2>1. Key(mem'[s]) = Key(m)
    BY <1>6 DEF Key
  <2>2. NewConversation.contact = NoContact /\ NewConversation.status = "new"
    BY DEF NewConversation, NoConversation
  <2>3. NewConversation # NoConversation
    BY <2>2 DEF NoConversation
  <2>4. LinksOf(s)'
    BY <1>2, <1>6, <2>2 DEF LinksOf, RowOf, BaseInv, Sound
  <2>5. SessionOk(s)'
    BY <1>2, <1>6, <2>1, <2>2, <2>3 DEF SessionOk, Exists
  <2>6. \A r \in Sessions : Sound(r)'
    BY <1>2, <1>3, <2>4, <2>5, OthersStaySound DEF Sound
  <2>7. FreshOnce'
    BY <1>2, <1>6, <2>1, FreshStaysOnce DEF BaseInv, Inserting
  <2>. QED
    BY <1>3, <1>4, <2>6, <2>7 DEF BaseRest
<1>. QED
  BY <1>1, <1>5, <1>6, InsertEffect

\* A commit adds its own row at most, and links it to what the session has loaded.
LEMMA CommitBase ==
  ASSUME BaseInv, NEW s \in Sessions, IsClosed(s), UNCHANGED <<queue, listening>>,
         pc[s] = "commit", RowsStay, Grows(s),
         \A i \in Keys \ {Key(mem[s])} : conversation'[i].contact = conversation[i].contact,
         conversation'[Key(mem[s])].contact
            \in {mem[s].contact, mem[s].found.contact, conversation[Key(mem[s])].contact}
  PROVE  BaseRest'
<1>1. TypeOK /\ OthersRest(s)
  BY DEF BaseInv, OptOutInv, IsClosed
<1>2. DeafRest'
  BY <1>1, DeafStayDeaf
<1>3. (\A r \in Sessions : Sound(r)') /\ FreshOnce'
  BY <1>1, ClosedIsSound, OthersStaySound, FreshStaysOnce DEF BaseInv
<1>4. ConversationsLinked'
  <2>1. ASSUME NEW k \in Keys, conversation'[k].contact # NoContact
        PROVE  RowOf(conversation[k].contact, k[2])'
    <3>. DEFINE x == conversation'[k].contact
    <3>1. RowOf(x, k[2])
      <4>1. CASE k # Key(mem[s])
        BY <2>1, <4>1 DEF BaseInv, ConversationsLinked
      <4>2. CASE k = Key(mem[s])
        BY <1>1, <2>1, <4>2, LoadedTypes DEF BaseInv, ConversationsLinked, Sound, LinksOf
      <4>. QED
        BY <4>1, <4>2
    <3>2. x \in Contacts
      <4>1. conversation[k].contact \in Contacts \cup {NoContact}
        BY <1>1 DEF TypeOK, Keys, Conversations
      <4>. QED
        BY <1>1, <2>1, <4>1, LoadedTypes
    <3>. QED
      BY <3>1, <3>2 DEF RowOf, RowsStay
  <2>. QED
    BY <2>1 DEF ConversationsLinked
<1>. QED
  BY <1>2, <1>3, <1>4 DEF BaseRest

LEMMA CommitIncomingBase ==
  ASSUME BaseInv, NEW w \in Workers, CommitIncoming(w)
  PROVE  BaseRest' /\ RowsStay
<1>. DEFINE m == mem[w]
            j == Key(m)
<1>1. /\ TypeOK /\ w \in Sessions
      /\ pc[w] = "commit" /\ IsClosed(w) /\ UNCHANGED <<queue, listening>>
      /\ \/ UNCHANGED <<contact, conversation>>
         \/ Answered(w)
  BY CommitIncomingEffect DEF BaseInv, OptOutInv, Sessions
<1>2. CASE UNCHANGED <<contact, conversation>>
  BY <1>1, <1>2, QuietDatabase, CommitBase
<1>3. CASE Answered(w)
  <2>1. RowsStay
    <3>1. Answer(m) # "absent"
      BY DEF Answer
    <3>. HIDE DEF m
    <3>. QED
      BY <1>3, <3>1 DEF RowsStay, Answered, m
  <2>2. j \in Keys /\ Sound(w)
    BY <1>1, LoadedTypes DEF BaseInv
  <2>3. conversation'[j].status # "absent"
    <3>1. Answer(m) # "absent" /\ NewConversation.status # "absent"
      BY DEF Answer, NewConversation, NoConversation
    <3>2. ~m.gone /\ m.found # NoConversation
      BY <1>1, <1>3, <2>2 DEF Answered, Sound, SessionOk
    <3>3. CASE m.fresh
      BY <1>1, <1>3, <2>2, <3>1, <3>3 DEF Answered, Sound, SessionOk
    <3>4. CASE ~m.fresh
      <4>1. Exists(j)
        BY <1>1, <2>2, <3>2, <3>4 DEF Sound, SessionOk
      <4>2. conversation'[j].status \in {Answer(m), conversation[j].status}
        BY <1>3, <3>4 DEF Answered
      <4>. QED
        BY <3>1, <4>1, <4>2 DEF Exists
    <3>. QED
      BY <3>3, <3>4
  <2>4. m.fresh \/ Exists(j)
    BY <1>1, <1>3, <2>2 DEF Answered, Sound, SessionOk
  <2>5. Grows(w)
    BY <1>3, <2>2, <2>3, <2>4 DEF Grows, Answered, Exists
  <2>6. /\ \A i \in Keys \ {j} : conversation'[i].contact = conversation[i].contact
        /\ conversation'[j].contact \in {m.contact, m.found.contact, conversation[j].contact}
    BY <1>3 DEF Answered
  <2>. QED
    BY <1>1, <2>1, <2>5, <2>6, CommitBase
<1>. QED
  BY <1>1, <1>2, <1>3

LEMMA CommitOutreachBase ==
  ASSUME BaseInv, NEW r \in Requests, CommitOutreach(r)
  PROVE  BaseRest' /\ RowsStay
<1>. DEFINE m == mem[r]
            j == Key(m)
<1>1. /\ TypeOK /\ r \in Sessions
      /\ pc[r] = "commit" /\ IsClosed(r) /\ UNCHANGED <<queue, listening>>
      /\ \/ UNCHANGED <<contact, conversation>>
         \/ Recorded(r)
  BY CommitOutreachEffect DEF BaseInv, OptOutInv, Sessions
<1>2. CASE UNCHANGED <<contact, conversation>>
  BY <1>1, <1>2, QuietDatabase, CommitBase
<1>3. CASE Recorded(r)
  <2>1. RowsStay
    BY <1>3 DEF RowsStay, Recorded
  <2>2. j \in Keys /\ Sound(r)
    BY <1>1, LoadedTypes DEF BaseInv
  <2>3. m.fresh => m.found # NoConversation /\ m.found.status = "new"
    BY <2>2 DEF Sound, SessionOk, NewConversation, NoConversation
  <2>4. conversation'[j].status = conversation[j].status \/ (m.fresh /\ conversation'[j].status = "new")
    BY <1>3, <2>3 DEF Recorded
  <2>5. Grows(r)
    BY <1>3, <2>2, <2>4 DEF Grows, Recorded, Exists, Sound, SessionOk
  <2>6. /\ \A i \in Keys \ {j} : conversation'[i].contact = conversation[i].contact
        /\ conversation'[j].contact \in {m.contact, m.found.contact, conversation[j].contact}
    BY <1>3 DEF Recorded
  <2>. QED
    BY <1>1, <2>1, <2>5, <2>6, CommitBase
<1>. QED
  BY <1>1, <1>2, <1>3

\* The commit of a save: row c is the peer's, and the conversation's contact.
Saved(r, c) ==
    LET m == mem[r]
        j == Key(m)
    IN  /\ c \in Contacts
        /\ \A i \in Keys : conversation'[i].status = conversation[i].status
        /\ \A i \in Keys \ {j} : conversation'[i] = conversation[i]
        /\ conversation'[j].contact = c
        /\ \A d \in Contacts \ {c} : contact'[d] = contact[d]
        /\ contact'[c].stage # "absent" /\ contact'[c].of = m.event.peer
        /\ contact[c].stage # "absent" => contact[c].of = m.event.peer
        /\ Interfere({m.event.peer})

LEMMA CommitSaveEffect ==
  ASSUME BaseInv, NEW r \in Requests, CommitSave(r)
  PROVE  /\ pc[r] = "commit" /\ IsClosed(r) /\ UNCHANGED <<queue, listening>>
         /\ UNCHANGED <<contact, conversation, stop>> \/ \E c \in Contacts : Saved(r, c)
<1>. DEFINE m == mem[r]
            j == Key(m)
            free == {c \in Contacts : contact[c].stage = "absent"}
<1>1. TypeOK /\ r \in Sessions /\ m \in Memory /\ j \in Keys /\ Sound(r) /\ m.doing = "save"
  BY KeyType DEF Sessions, TypeOK, Keys, BaseInv, OptOutInv, CommitSave
<1>2. pc[r] = "commit" /\ UNCHANGED <<queue, listening>> /\ Close(r)
  BY DEF CommitSave, Fail, channel
<1>3. IsClosed(r)
  BY <1>1, <1>2, CloseEffect
<1>4. CASE Fail(r)
  BY <1>2, <1>3, <1>4 DEF Fail, database
<1>5. CASE ~Fail(r)
  <2>1. PICK c \in IF m.contact = NoContact THEN free ELSE {m.contact} :
          /\ contact' = [contact EXCEPT ![c] =
                IF m.contact = NoContact THEN SavedRow(m)
                ELSE [contact[c] EXCEPT !.knows = @ \cup m.typed \cup {"id"}]]
          /\ conversation' = [conversation EXCEPT ![j].contact = c]
          /\ Interfere({m.event.peer})
    BY <1>5 DEF CommitSave
  <2>2. c \in Contacts
    BY <1>1, <2>1 DEF Memory
  <2>3. m.found.status # "absent"
    BY <1>1 DEF Sound, SessionOk
  <2>4. SavedRow(m).stage # "absent" /\ SavedRow(m).of = m.event.peer
    BY <2>3 DEF SavedRow
  <2>5. m.contact # NoContact => c = m.contact /\ RowOf(c, m.event.peer)
    BY <1>1, <2>1 DEF Sound, LinksOf
  <2>6. m.contact = NoContact => contact[c].stage = "absent"
    BY <2>1
  <2>. HIDE DEF m, j
  <2>7. /\ \A d \in Contacts \ {c} : contact'[d] = contact[d]
        /\ m.contact = NoContact => contact'[c] = SavedRow(m)
        /\ m.contact # NoContact =>
              contact'[c] = [contact[c] EXCEPT !.knows = @ \cup m.typed \cup {"id"}]
    BY <1>1, <2>1, <2>2 DEF TypeOK
  <2>8. contact[c] \in ContactRows
    BY <1>1, <2>2 DEF TypeOK
  <2>9. m.contact # NoContact =>
            contact'[c].stage = contact[c].stage /\ contact'[c].of = contact[c].of
    BY <2>7, <2>8 DEF ContactRows
  <2>10. /\ contact'[c].stage # "absent" /\ contact'[c].of = m.event.peer
         /\ contact[c].stage # "absent" => contact[c].of = m.event.peer
    BY <2>4, <2>5, <2>6, <2>7, <2>9 DEF RowOf
  <2>11. /\ \A i \in Keys : conversation'[i].status = conversation[i].status
         /\ \A i \in Keys \ {j} : conversation'[i] = conversation[i]
         /\ conversation'[j].contact = c
    BY <1>1, <2>1 DEF TypeOK, Keys, Conversations
  <2>12. Saved(r, c)
    BY <2>1, <2>2, <2>7, <2>10, <2>11 DEF Saved, m, j
  <2>. QED
    BY <1>2, <1>3, <2>2, <2>12
<1>. QED
  BY <1>4, <1>5

LEMMA CommitSaveBase ==
  ASSUME BaseInv, NEW r \in Requests, CommitSave(r)
  PROVE  BaseRest' /\ RowsStay
<1>. DEFINE m == mem[r]
            j == Key(m)
<1>1. /\ TypeOK /\ r \in Sessions /\ j \in Keys /\ j[2] = m.event.peer
      /\ pc[r] = "commit" /\ IsClosed(r) /\ OthersRest(r) /\ UNCHANGED <<queue, listening>>
      /\ UNCHANGED <<contact, conversation>> \/ \E c \in Contacts : Saved(r, c)
  BY CommitSaveEffect, LoadedTypes DEF BaseInv, OptOutInv, Sessions, IsClosed
<1>2. CASE UNCHANGED <<contact, conversation>>
  BY <1>1, <1>2, QuietDatabase, CommitBase
<1>3. ASSUME NEW c \in Contacts, Saved(r, c)
      PROVE  BaseRest' /\ RowsStay
  <2>1. RowsStay
    BY <1>3 DEF RowsStay, Saved
  <2>2. Grows(r)
    BY <1>3 DEF Grows, Saved, Exists
  <2>3. (\A s \in Sessions : Sound(s)') /\ FreshOnce' /\ DeafRest'
    BY <1>1, <2>1, <2>2, ClosedIsSound, OthersStaySound, FreshStaysOnce, DeafStayDeaf DEF BaseInv
  <2>4. ConversationsLinked'
    <3>1. ASSUME NEW k \in Keys, conversation'[k].contact # NoContact
          PROVE  RowOf(conversation[k].contact, k[2])'
      <4>1. CASE k = j
        BY <1>1, <1>3, <4>1 DEF Saved, RowOf
      <4>2. CASE k # j
        <5>1. conversation'[k] = conversation[k]
          BY <1>3, <4>2 DEF Saved
        <5>2. conversation[k].contact \in Contacts \cup {NoContact}
          BY <1>1 DEF TypeOK, Keys, Conversations
        <5>. QED
          BY <2>1, <3>1, <5>1, <5>2 DEF BaseInv, ConversationsLinked, RowOf, RowsStay
      <4>. QED
        BY <4>1, <4>2
    <3>. QED
      BY <3>1 DEF ConversationsLinked
  <2>. QED
    BY <2>1, <2>3, <2>4 DEF BaseRest
<1>. QED
  BY <1>1, <1>2, <1>3

\* The commit of an edit: nothing but the row of the contact loaded changes, which stays
\* the same peer's.
LEMMA CommitEditEffect ==
  ASSUME BaseInv, NEW r \in Requests, CommitEdit(r)
  PROVE  /\ pc[r] = "commit" /\ IsClosed(r)
         /\ UNCHANGED <<conversation, queue, listening>>
         /\ Interfere({mem[r].event.peer}) /\ RowsStay
         /\ \A c \in Contacts : ~RowOf(c, mem[r].event.peer) => contact'[c] = contact[c]
         /\ \A c \in Contacts : contact[c].stage = "absent" => contact'[c] = contact[c]
         /\ \A c \in Contacts : contact'[c].of = contact[c].of
<1>. DEFINE x == mem[r].contact
<1>1. TypeOK /\ r \in Sessions /\ Sound(r)
  BY DEF BaseInv, OptOutInv, Sessions
<1>2. /\ pc[r] = "commit" /\ Close(r) /\ Interfere({mem[r].event.peer})
      /\ UNCHANGED <<conversation, queue, listening>>
  BY DEF CommitEdit, channel
<1>3. IsClosed(r)
  BY <1>1, <1>2, CloseEffect
<1>4. /\ \A c \in Contacts \ {x} : contact'[c] = contact[c]
      /\ x \in Contacts =>
           /\ contact'[x].of = contact[x].of
           /\ contact'[x].stage \in StageValues \cup {contact[x].stage}
  BY <1>1, CommitEditRows
<1>5. x \in Contacts => RowOf(x, mem[r].event.peer)
  BY <1>1, InboxAssumption DEF Sound, LinksOf
<1>. HIDE DEF x
<1>6. RowsStay
  <2>1. "absent" \notin StageValues
    BY DEF StageValues
  <2>. QED
    BY <1>4, <1>5, <2>1 DEF RowsStay, RowOf
<1>. QED
  BY <1>2, <1>3, <1>4, <1>5, <1>6 DEF RowOf

LEMMA CommitEditBase ==
  ASSUME BaseInv, NEW r \in Requests, CommitEdit(r)
  PROVE  BaseRest'
<1>1. /\ pc[r] = "commit" /\ IsClosed(r) /\ RowsStay
      /\ UNCHANGED <<conversation, queue, listening>> /\ r \in Sessions
  BY CommitEditEffect DEF Sessions
<1>2. Grows(r)
  BY <1>1 DEF Grows, Exists
<1>. QED
  BY <1>1, <1>2, CommitBase

\* A request that loads changes nothing but its own memory.
LEMMA LoadEffect ==
  ASSUME BaseInv,
         \/ \E r \in Requests, a \in Accounts, c \in Contacts : LoadForOutreach(r, a, c)
         \/ \E r \in Requests : RecordOutreach(r)
         \/ \E r \in Requests, k \in Keys, typed \in SUBSET {"phone", "username"} :
                LoadForSave(r, k, typed)
         \/ \E r \in Requests, c \in Contacts, change \in Changes : LoadForEdit(r, c, change)
  PROVE  /\ UNCHANGED <<contact, conversation, queue, listening, stop>>
         /\ \E r \in Requests : OthersRest(r) /\ mem'[r].fresh = FALSE /\ Sound(r)'
<1>1. ASSUME NEW r \in Requests, NEW a \in Accounts, NEW c \in Contacts,
             LoadForOutreach(r, a, c)
      PROVE  /\ UNCHANGED <<contact, conversation, queue, listening, stop>>
             /\ OthersRest(r) /\ mem'[r].fresh = FALSE /\ Sound(r)'
  <2>. DEFINE e == [account |-> a, peer |-> contact[c].of, text |-> "hello"]
              m0 == [Forgotten EXCEPT !.doing = "outreach", !.event = e]
              m == WithContact(m0, c)
  <2>1. r \in Sessions /\ r \notin Workers /\ TypeOK
    BY InboxAssumption DEF Sessions, BaseInv, OptOutInv
  <2>2. e \in Events
    BY <2>1 DEF Events, TypeOK, ContactRows
  <2>3. m0 \in Memory
    BY <2>2, ForgottenType DEF Memory
  <2>4. m0.doing = "outreach" /\ m0.event = e /\ m0.fresh = FALSE /\ m0.found = NoConversation
    BY DEF Forgotten
  <2>5. /\ OthersRest(r) /\ mem'[r] = m /\ pc'[r] \in {"find", "commit"}
        /\ UNCHANGED <<contact, conversation, queue, listening, stop>>
    BY <1>1, <2>1 DEF LoadForOutreach, OthersRest, TypeOK, database, channel
  <2>. HIDE DEF m0
  <2>6. c # NoContact
    BY InboxAssumption
  <2>7. /\ m.doing = "outreach" /\ m.event = e /\ m.fresh = FALSE /\ m.contact = c
        /\ m.found = NoConversation
    BY <2>3, <2>4, <2>6, WithContactFields
  <2>. HIDE DEF m
  <2>8. contact[c].stage # "absent"
    BY <1>1 DEF LoadForOutreach, Eligible
  <2>9. NoConversation.contact = NoContact
    BY DEF NoConversation
  <2>10. LinksOf(r)'
    BY <2>5, <2>7, <2>8, <2>9 DEF LinksOf, RowOf
  <2>11. SessionOk(r)'
    BY <2>1, <2>5, <2>7 DEF SessionOk
  <2>. QED
    BY <2>5, <2>7, <2>10, <2>11 DEF Sound
<1>2. ASSUME NEW r \in Requests, RecordOutreach(r)
      PROVE  /\ UNCHANGED <<contact, conversation, queue, listening, stop>>
             /\ OthersRest(r) /\ mem'[r].fresh = FALSE /\ Sound(r)'
  <2>. DEFINE m == mem[r]
              k == Key(m)
  <2>1. r \in Sessions /\ r \notin Workers /\ TypeOK
    BY InboxAssumption DEF Sessions, BaseInv, OptOutInv
  <2>2. m \in Memory /\ k \in Keys /\ k[2] = m.event.peer /\ Sound(r)
    BY <2>1, LoadedTypes DEF BaseInv
  <2>3. UNCHANGED <<contact, conversation, queue, listening, stop>> /\ Lookup(r, m) /\ pc[r] = "find"
    BY <1>2 DEF RecordOutreach, database, channel
  <2>4. Found(r, m, k)
    BY <2>1, <2>2, <2>3, LookupEffect
  <2>5. m.fresh = FALSE
    <3>1. m.fresh \in BOOLEAN
      BY <2>2 DEF Memory
    <3>. QED
      BY <2>2, <2>3, <3>1 DEF Sound, SessionOk
  <2>6. Key(mem'[r]) = k
    BY <2>4 DEF Found, Key
  <2>7. mem'[r].found = IF Exists(k) THEN conversation[k] ELSE m.found
    BY <2>4 DEF Found
  <2>. HIDE DEF m, k
  <2>8. mem'[r].found.contact # NoContact => RowOf(mem'[r].found.contact, mem'[r].event.peer)
    BY <2>2, <2>4, <2>7 DEF Found, BaseInv, ConversationsLinked, Sound, LinksOf, m
  <2>9. mem'[r].contact # NoContact => RowOf(mem'[r].contact, mem'[r].event.peer)
    BY <2>2, <2>4 DEF Found, Sound, LinksOf, m
  <2>10. LinksOf(r)'
    BY <2>3, <2>8, <2>9 DEF LinksOf, RowOf
  <2>11. SessionOk(r)'
    <3>1. mem'[r].fresh = FALSE /\ mem'[r].doing = m.doing
      BY <2>4, <2>5 DEF Found
    <3>2. pc'[r] = "commit" => Exists(k)
      BY <2>4 DEF Found
    <3>3. m.doing = "save" => mem'[r].found.status # "absent"
      BY <2>2, <2>7 DEF Sound, SessionOk, Exists, m
    <3>. QED
      BY <2>1, <2>3, <2>6, <3>1, <3>2, <3>3 DEF SessionOk, Exists
  <2>. QED
    BY <2>3, <2>4, <2>5, <2>10, <2>11 DEF Found, Sound
<1>3. ASSUME NEW r \in Requests, NEW k \in Keys, NEW typed \in SUBSET {"phone", "username"},
             LoadForSave(r, k, typed)
      PROVE  /\ UNCHANGED <<contact, conversation, queue, listening, stop>>
             /\ OthersRest(r) /\ mem'[r].fresh = FALSE /\ Sound(r)'
  <2>1. r \in Sessions /\ r \notin Workers /\ TypeOK
    BY InboxAssumption DEF Sessions, BaseInv, OptOutInv
  <2>2. PICK c \in Contacts \cup {NoContact} :
          /\ IF Holding(k[2], typed) = {} THEN IsMatch(k[2], c) ELSE Holding(k[2], typed) = {c}
          /\ mem' = [mem EXCEPT ![r] =
                  [Forgotten EXCEPT !.doing = "save", !.contact = c, !.typed = typed,
                       !.event = [account |-> k[1], peer |-> k[2], text |-> "hello"],
                       !.found = conversation[k]]]
    BY <1>3 DEF LoadForSave
  <2>3. /\ UNCHANGED <<contact, conversation, queue, listening, stop>>
        /\ pc' = [pc EXCEPT ![r] = "commit"] /\ Exists(k)
    BY <1>3 DEF LoadForSave, database, channel
  <2>4. /\ mem'[r].doing = "save" /\ mem'[r].contact = c /\ mem'[r].event.peer = k[2]
        /\ mem'[r].event.account = k[1]
        /\ mem'[r].found = conversation[k] /\ mem'[r].fresh = FALSE /\ OthersRest(r)
    BY <2>1, <2>2, <2>3 DEF TypeOK, Forgotten, OthersRest
  <2>5. k = <<k[1], k[2]>>
    BY DEF Keys
  <2>6. Key(mem'[r]) = k
    BY <2>4, <2>5 DEF Key
  <2>7. c # NoContact => RowOf(c, k[2])
    <3>1. CASE Holding(k[2], typed) = {}
      BY <2>2, <3>1, MatchIsRow
    <3>2. CASE Holding(k[2], typed) # {}
      BY <2>2, <3>2 DEF Holding, Rows, RowOf
    <3>. QED
      BY <3>1, <3>2
  <2>8. LinksOf(r)'
    BY <2>3, <2>4, <2>7 DEF LinksOf, RowOf, BaseInv, ConversationsLinked
  <2>9. SessionOk(r)'
    BY <2>1, <2>3, <2>4, <2>6 DEF SessionOk, Exists
  <2>. QED
    BY <2>3, <2>4, <2>8, <2>9 DEF Sound
<1>4. ASSUME NEW r \in Requests, NEW c \in Contacts, NEW change \in Changes,
             LoadForEdit(r, c, change)
      PROVE  /\ UNCHANGED <<contact, conversation, queue, listening, stop>>
             /\ OthersRest(r) /\ mem'[r].fresh = FALSE /\ Sound(r)'
  <2>. DEFINE m0 == [Forgotten EXCEPT !.doing = "edit", !.event.peer = contact[c].of,
                                      !.change = change]
              m == WithContact(m0, c)
  <2>1. r \in Sessions /\ r \notin Workers /\ TypeOK
    BY InboxAssumption DEF Sessions, BaseInv, OptOutInv
  <2>2. m0 \in Memory
    BY <2>1, EditInHand
  <2>3. /\ m0.doing = "edit" /\ m0.fresh = FALSE /\ m0.found = NoConversation
        /\ m0.event.peer = contact[c].of
    <3>1. Forgotten.event \in Events /\ Forgotten \in Memory
      BY ForgottenType DEF Memory
    <3>. QED
      BY <3>1, ForgottenFields DEF Memory, Events
  <2>4. /\ OthersRest(r) /\ mem'[r] = m /\ pc'[r] = "commit"
        /\ UNCHANGED <<contact, conversation, queue, listening, stop>>
        /\ contact[c].stage # "absent"
    BY <1>4, <2>1 DEF LoadForEdit, OthersRest, TypeOK, database, channel
  <2>. HIDE DEF m0
  <2>5. /\ m.doing = "edit" /\ m.event.peer = contact[c].of /\ m.fresh = FALSE
        /\ m.contact = c /\ m.found = NoConversation
    BY <2>2, <2>3, InboxAssumption, WithContactFields
  <2>. HIDE DEF m
  <2>6. LinksOf(r)'
    BY <2>4, <2>5 DEF LinksOf, RowOf, NoConversation
  <2>7. SessionOk(r)'
    BY <2>1, <2>4, <2>5 DEF SessionOk
  <2>. QED
    BY <2>4, <2>5, <2>6, <2>7 DEF Sound
<1>. QED
  BY <1>1, <1>2, <1>3, <1>4

LEMMA LoadBase ==
  ASSUME BaseInv, UNCHANGED <<contact, conversation, queue, listening, stop>>,
         NEW r \in Requests, OthersRest(r), mem'[r].fresh = FALSE, Sound(r)'
  PROVE  BaseRest'
<1>1. r \in Sessions /\ r \notin Workers
  BY InboxAssumption DEF Sessions
<1>2. RowsStay /\ Grows(r) /\ ConversationsLinked'
  BY <1>1, QuietDatabase
<1>. QED
  BY <1>1, <1>2, OthersStaySound, FreshStaysOnce, DeafStayDeaf DEF BaseRest, BaseInv

\* An edit changes rows of one peer, p, whose stops it interferes with.
Edited(p) ==
    /\ Interfere({p})
    /\ UNCHANGED <<pc, queue, listening>>
    /\ RowsStay
    /\ \A c \in Contacts : ~RowOf(c, p) => contact'[c] = contact[c]
    /\ \A j \in Keys : j[2] # p => conversation'[j] = conversation[j]
    /\ \A s \in Sessions : mem'[s].event = mem[s].event
    /\ \A s \in Sessions : mem[s].event.peer # p => mem'[s] = mem[s]

LEMMA SetStatusEdits ==
  ASSUME BaseInv, NEW k \in Keys, NEW status \in Statuses, SetStatus(k, status)
  PROVE  Edited(k[2]) /\ BaseRest'
<1>. DEFINE x == conversation[k].contact
<1>1. TypeOK /\ status # "absent"
  BY InboxAssumption DEF BaseInv, OptOutInv, StageValues
<1>2. /\ Exists(k) /\ conversation' = [conversation EXCEPT ![k].status = status]
      /\ Interfere({k[2]}) /\ UNCHANGED <<pc, mem, queue, listening>>
      /\ \/ contact' = contact
         \/ /\ x # NoContact
            /\ contact' = [contact EXCEPT ![x].stage = status,
                                          ![x].optedOut = @ \/ status = "opted_out"]
  BY DEF SetStatus, channel, sessions
<1>3. x # NoContact => RowOf(x, k[2])
  BY DEF BaseInv, ConversationsLinked
<1>4. /\ \A c \in Contacts : ~RowOf(c, k[2]) => contact'[c] = contact[c]
      /\ RowsStay
  <2>1. CASE contact' = contact
    BY <2>1 DEF RowsStay
  <2>2. CASE contact' # contact
    <3>1. x # NoContact /\ RowOf(x, k[2])
      BY <1>2, <1>3, <2>2
    <3>. HIDE DEF x
    <3>2. \A c \in Contacts \ {x} : contact'[c] = contact[c]
      BY <1>1, <1>2, <2>2 DEF TypeOK
    <3>3. x \in Contacts => contact'[x].stage = status /\ contact'[x].of = contact[x].of
      <4>. SUFFICES ASSUME x \in Contacts
                    PROVE  contact'[x].stage = status /\ contact'[x].of = contact[x].of
        OBVIOUS
      <4>1. contact[x] \in ContactRows
        BY <1>1 DEF TypeOK
      <4>. QED
        BY <1>1, <1>2, <2>2, <4>1 DEF TypeOK, ContactRows
    <3>. QED
      BY <1>1, <3>1, <3>2, <3>3 DEF RowsStay
  <2>. QED
    BY <2>1, <2>2
<1>. HIDE DEF x
<1>5. /\ \A j \in Keys \ {k} : conversation'[j] = conversation[j]
      /\ conversation'[k].status = status /\ conversation'[k].contact = conversation[k].contact
  BY <1>1, <1>2 DEF TypeOK, Keys, Conversations
<1>6. Edited(k[2])
  BY <1>2, <1>4, <1>5 DEF Edited
<1>7. \A j \in Keys : Exists(j)' <=> Exists(j)
  BY <1>1, <1>2, <1>5 DEF Exists
<1>8. \A s \in Sessions : Sound(s)'
  <2>1. ASSUME NEW s \in Sessions
        PROVE  Sound(s)'
    <3>1. mem'[s] = mem[s] /\ pc'[s] = pc[s] /\ Sound(s)
      BY <1>2 DEF BaseInv
    <3>2. /\ Key(mem[s]) \in Keys
          /\ mem[s].contact \in Contacts \cup {NoContact}
          /\ mem[s].found.contact \in Contacts \cup {NoContact}
      BY <1>1, LoadedTypes
    <3>3. LinksOf(s)'
      BY <1>4, <3>1, <3>2 DEF Sound, LinksOf, RowOf, RowsStay
    <3>4. Exists(Key(mem[s]))' <=> Exists(Key(mem[s]))
      <4>1. Key(mem'[s]) = Key(mem[s])
        BY <3>1
      <4>. QED
        BY <1>7, <3>2, <4>1 DEF Exists
    <3>5. SessionOk(s)'
      BY <3>1, <3>4 DEF Sound, SessionOk
    <3>. QED
      BY <3>3, <3>5 DEF Sound
  <2>. QED
    BY <2>1
<1>9. ConversationsLinked'
  <2>1. ASSUME NEW j \in Keys, conversation'[j].contact # NoContact
        PROVE  RowOf(conversation[j].contact, j[2])'
    <3>1. conversation'[j].contact = conversation[j].contact
      BY <1>5
    <3>2. conversation[j].contact \in Contacts \cup {NoContact}
      BY <1>1 DEF TypeOK, Keys, Conversations
    <3>. QED
      BY <1>4, <2>1, <3>1, <3>2 DEF BaseInv, ConversationsLinked, RowOf, RowsStay
  <2>. QED
    BY <2>1 DEF ConversationsLinked
<1>10. FreshOnce' /\ DeafRest'
  BY <1>2 DEF BaseInv, FreshOnce, DeafRest, Key
<1>. QED
  BY <1>6, <1>8, <1>9, <1>10 DEF BaseRest

LEMMA DeleteEdits ==
  ASSUME BaseInv, NEW k \in Keys, DeleteConversation(k)
  PROVE  Edited(k[2]) /\ BaseRest'
<1>1. TypeOK
  BY DEF BaseInv, OptOutInv
<1>2. /\ Exists(k) /\ conversation' = [conversation EXCEPT ![k] = NoConversation]
      /\ Interfere({k[2]}) /\ UNCHANGED <<contact, pc, queue, listening>>
      /\ mem' = [s \in Sessions |->
            IF pc[s] = "commit" /\ ~mem[s].fresh /\ Key(mem[s]) = k
            THEN [mem[s] EXCEPT !.gone = TRUE] ELSE mem[s]]
  BY DEF DeleteConversation, channel
<1>3. /\ \A j \in Keys \ {k} : conversation'[j] = conversation[j]
      /\ conversation'[k] = NoConversation
  BY <1>1, <1>2 DEF TypeOK, Keys
<1>4. RowsStay
  BY <1>2 DEF RowsStay
<1>5. ASSUME NEW s \in Sessions
      PROVE  /\ mem'[s].doing = mem[s].doing /\ mem'[s].event = mem[s].event
             /\ mem'[s].contact = mem[s].contact /\ mem'[s].found = mem[s].found
             /\ mem'[s].fresh = mem[s].fresh
             /\ IF pc[s] = "commit" /\ ~mem[s].fresh /\ Key(mem[s]) = k
                THEN mem'[s].gone ELSE mem'[s] = mem[s]
  <2>1. mem[s] \in Memory
    BY <1>1 DEF TypeOK
  <2>. QED
    BY <1>2, <2>1 DEF Memory
<1>6. Edited(k[2])
  <2>1. \A s \in Sessions : mem[s].event.peer # k[2] => mem'[s] = mem[s]
    BY <1>1, <1>5, LoadedTypes
  <2>. QED
    BY <1>2, <1>3, <1>4, <1>5, <2>1 DEF Edited
<1>7. \A s \in Sessions : Sound(s)'
  <2>1. ASSUME NEW s \in Sessions
        PROVE  Sound(s)'
    <3>1. Sound(s) /\ Key(mem[s]) \in Keys
      BY <1>1, LoadedTypes DEF BaseInv
    <3>2. LinksOf(s)'
      BY <1>2, <1>5, <3>1 DEF Sound, LinksOf, RowOf
    <3>3. Key(mem'[s]) = Key(mem[s])
      BY <1>5 DEF Key
    <3>4. CASE Key(mem[s]) # k
      <4>1. mem'[s] = mem[s] /\ conversation'[Key(mem[s])] = conversation[Key(mem[s])]
        BY <1>3, <1>5, <3>1, <3>4
      <4>2. SessionOk(s)'
        BY <1>2, <3>1, <4>1 DEF Sound, SessionOk, Exists
      <4>. QED
        BY <3>2, <4>2 DEF Sound
    <3>5. CASE Key(mem[s]) = k
      <4>1. ~mem[s].fresh
        BY <1>2, <3>1, <3>5 DEF Sound, SessionOk
      <4>2. SessionOk(s)'
        BY <1>2, <1>5, <3>1, <3>5, <4>1 DEF Sound, SessionOk
      <4>. QED
        BY <3>2, <4>2 DEF Sound
    <3>. QED
      BY <3>4, <3>5
  <2>. QED
    BY <2>1
<1>8. ConversationsLinked'
  BY <1>2, <1>3 DEF BaseInv, ConversationsLinked, RowOf, NoConversation
<1>9. FreshOnce'
  <2>1. \A s \in Sessions : Key(mem'[s]) = Key(mem[s])
    BY <1>5 DEF Key
  <2>. QED
    BY <1>5, <2>1 DEF BaseInv, FreshOnce
<1>10. DeafRest'
  BY <1>2 DEF BaseInv, DeafRest
<1>. QED
  BY <1>6, <1>7, <1>8, <1>9, <1>10 DEF BaseRest

\* A lookup of a contact keeps its stage and whose it is.
LEMMA ResolveEdits ==
  ASSUME BaseInv, NEW x \in Contacts, NEW resolved \in BOOLEAN, Resolve(x, resolved)
  PROVE  Edited(contact[x].of) /\ BaseRest'
<1>1. TypeOK
  BY DEF BaseInv, OptOutInv
<1>2. /\ Interfere({contact[x].of}) /\ UNCHANGED <<conversation, pc, mem, queue, listening>>
      /\ contact[x].stage # "absent"
      /\ contact' = [contact EXCEPT ![x].knows = IF resolved THEN @ \cup {"id"} ELSE @ \ {"id"}]
  BY DEF Resolve, channel, sessions
<1>3. contact[x] \in ContactRows
  BY <1>1 DEF TypeOK
<1>4. /\ \A c \in Contacts \ {x} : contact'[c] = contact[c]
      /\ contact'[x].of = contact[x].of /\ contact'[x].stage = contact[x].stage
  BY <1>1, <1>2, <1>3 DEF TypeOK, ContactRows
<1>5. RowsStay
  BY <1>4 DEF RowsStay
<1>6. Edited(contact[x].of)
  BY <1>2, <1>4, <1>5 DEF Edited, RowOf
<1>7. \A c \in Contacts, p \in Peers : RowOf(c, p) => contact'[c].stage # "absent" /\ contact'[c].of = p
  BY <1>5 DEF RowsStay, RowOf
<1>8. \A s \in Sessions : Sound(s)'
  <2>1. ASSUME NEW s \in Sessions
        PROVE  Sound(s)'
    <3>1. Sound(s) /\ mem'[s] = mem[s] /\ pc'[s] = pc[s]
      BY <1>2 DEF BaseInv
    <3>2. /\ mem[s].contact \in Contacts \cup {NoContact}
          /\ mem[s].found.contact \in Contacts \cup {NoContact}
      BY <1>1, LoadedTypes
    <3>3. LinksOf(s)'
      BY <1>5, <3>1, <3>2 DEF Sound, LinksOf, RowOf, RowsStay
    <3>4. SessionOk(s)'
      BY <1>2, <3>1 DEF Sound, SessionOk, Exists
    <3>. QED
      BY <3>3, <3>4 DEF Sound
  <2>. QED
    BY <2>1
<1>9. ConversationsLinked'
  <2>1. ASSUME NEW j \in Keys, conversation[j].contact # NoContact
        PROVE  RowOf(conversation[j].contact, j[2])'
    <3>1. conversation[j].contact \in Contacts
      BY <1>1, <2>1 DEF TypeOK, Keys, Conversations
    <3>. QED
      BY <1>2, <1>5, <2>1, <3>1 DEF BaseInv, ConversationsLinked, RowOf, RowsStay
  <2>. QED
    BY <1>2, <2>1 DEF ConversationsLinked
<1>10. FreshOnce' /\ DeafRest'
  BY <1>2 DEF BaseInv, FreshOnce, DeafRest, Key
<1>. QED
  BY <1>6, <1>8, <1>9, <1>10 DEF BaseRest

\* A process that dies, or a connection that breaks: one session is closed, or none, and
\* nothing is claimed of the stops that its worker had yet to handle.
CutOff(s) ==
    /\ UNCHANGED <<contact, conversation>>
    /\ IsClosed(s) \/ (s \in Workers /\ pc[s] = "idle" /\ UNCHANGED <<pc, mem>>)
    /\ IF s \in Workers
       THEN /\ queue' = [queue EXCEPT ![s] = <<>>]
            /\ \/ Interfere(Waiting(s) \cup {mem[s].event.peer})
               \/ pc[s] = "idle" /\ Interfere(Waiting(s))
       ELSE UNCHANGED <<queue, stop>>

LEMMA FailureBase ==
  ASSUME BaseInv, NEW s \in Sessions, Crash(s) \/ (s \in Workers /\ Disconnect(s))
  PROVE  CutOff(s) /\ BaseRest'
<1>1. TypeOK
  BY DEF BaseInv, OptOutInv
<1>2. CASE Crash(s)
  <2>1. UNCHANGED <<contact, conversation>> /\ IsClosed(s) /\ OthersRest(s)
    BY <1>1, <1>2, CloseEffect DEF Crash, database, IsClosed
  <2>2. CutOff(s)
    BY <1>2, <2>1 DEF Crash, CutOff, channel
  <2>3. DeafRest'
    <3>1. CASE s \in Workers
      <4>1. queue' = [queue EXCEPT ![s] = <<>>] /\ listening' = listening \cup {s}
        BY <1>2, <3>1 DEF Crash
      <4>. QED
        BY <1>1, <2>1, <4>1 DEF BaseInv, DeafRest, OthersRest, Sessions, TypeOK
    <3>2. CASE s \notin Workers
      BY <1>2, <2>1, <3>2, DeafStayDeaf DEF Crash, channel
    <3>. QED
      BY <3>1, <3>2
  <2>4. RowsStay /\ Grows(s) /\ ConversationsLinked'
    BY <2>1, QuietDatabase
  <2>. QED
    BY <2>1, <2>2, <2>3, <2>4, ClosedIsSound, OthersStaySound, FreshStaysOnce
       DEF BaseRest, BaseInv
<1>3. CASE s \in Workers /\ Disconnect(s)
  <2>1. /\ UNCHANGED <<contact, conversation, pc, mem>> /\ pc[s] = "idle"
        /\ queue' = [queue EXCEPT ![s] = <<>>] /\ listening' = listening \ {s}
        /\ Interfere(Waiting(s))
    BY <1>3 DEF Disconnect, database, sessions
  <2>2. CutOff(s)
    BY <1>3, <2>1 DEF CutOff
  <2>3. DeafRest'
    BY <1>1, <1>3, <2>1 DEF BaseInv, DeafRest, TypeOK
  <2>4. ConversationsLinked'
    BY <2>1, QuietDatabase
  <2>5. \A r \in Sessions : Sound(r)'
    BY <2>1 DEF BaseInv, Sound, LinksOf, RowOf, SessionOk, Exists, Key
  <2>6. FreshOnce'
    BY <2>1 DEF BaseInv, FreshOnce, Key
  <2>. QED
    BY <2>2, <2>3, <2>4, <2>5, <2>6 DEF BaseRest
<1>. QED
  BY <1>2, <1>3

LEMMA InitBase == Init => BaseInv
<1>. SUFFICES ASSUME Init PROVE BaseInv
  OBVIOUS
<1>1. OptOutInv
  BY InitOptOut
<1>2. \A k \in Keys : conversation[k] = NoConversation
  BY DEF Init, Keys
<1>3. \A s \in Sessions : mem[s] = Forgotten /\ pc[s] = "idle"
  BY DEF Init
<1>4. ConversationsLinked
  BY <1>2 DEF ConversationsLinked, NoConversation
<1>5. \A s \in Sessions : Sound(s)
  BY <1>3, ForgottenFields DEF Sound, LinksOf, SessionOk
<1>6. FreshOnce
  BY <1>3, ForgottenFields DEF FreshOnce
<1>7. DeafRest
  BY DEF Init, DeafRest
<1>. QED
  BY <1>1, <1>4, <1>5, <1>6, <1>7 DEF BaseInv

LEMMA NextBase == BaseInv /\ [Next]_vars => BaseInv'
<1>. SUFFICES ASSUME BaseInv, [Next]_vars
              PROVE  BaseInv'
  OBVIOUS
<1>1. OptOutInv'
  BY NextOptOut DEF BaseInv
<1>2. BaseRest'
  <2>1. CASE Others
    BY <2>1, PublishBase, SetStatusEdits, DeleteEdits, ResolveEdits, LoadEffect, LoadBase DEF Others
  <2>2. ASSUME NEW s \in Sessions, SessionStep(s)
        PROVE  BaseRest'
    BY <2>2, InsertBase, TakeBase, CommitIncomingBase, CommitOutreachBase, CommitSaveBase,
       CommitEditBase, LoadEffect, LoadBase DEF SessionStep
  <2>3. CASE (\E s \in Sessions : Crash(s)) \/ (\E w \in Workers : Disconnect(w))
    BY <2>3, FailureBase DEF Sessions
  <2>4. CASE UNCHANGED vars
    <3>1. UNCHANGED <<contact, conversation, pc, mem, queue, listening>>
      BY <2>4 DEF vars, database, sessions, channel
    <3>2. \A s \in Sessions : Sound(s)'
      BY <3>1 DEF BaseInv, Sound, LinksOf, RowOf, SessionOk, Exists, Key
    <3>. QED
      BY <3>1, <3>2, QuietDatabase DEF BaseInv, BaseRest, FreshOnce, DeafRest, Key
  <2>. QED
    BY <2>1, <2>2, <2>3, <2>4 DEF Next
<1>. QED
  BY <1>1, <1>2 DEF BaseInv, BaseRest

-----------------------------------------------------------------------------
(* A stop that is on its way.                                               *)

StopOf(k) == [account |-> k[1], peer |-> k[2], text |-> "stop"]

\* The stop of k is among these messages; each other word of its peer is followed by it.
Told(q, k) == \E i \in DOMAIN q : q[i] = StopOf(k)

Followed(q, k) ==
    \A i \in DOMAIN q : q[i].peer = k[2] /\ q[i].text = "hello" =>
        \E j \in DOMAIN q : i < j /\ q[j] = StopOf(k)

LEMMA NothingTold ==
  ASSUME NEW k
  PROVE  ~Told(<<>>, k) /\ Followed(<<>>, k)
  BY DEF Told, Followed

LEMMA AppendTold ==
  ASSUME NEW q \in Seq(Events), NEW e \in Events, NEW k \in Keys
  PROVE  /\ Told(Append(q, e), k) <=> Told(q, k) \/ e = StopOf(k)
         /\ Followed(q, k) /\ (e.peer # k[2] \/ e.text = "stop") => Followed(Append(q, e), k)
         /\ e = StopOf(k) => Followed(Append(q, e), k)
<1>. DEFINE a == Append(q, e)
            n == Len(q)
<1>1. n \in Nat /\ DOMAIN q = 1..n /\ DOMAIN a = 1..(n + 1) /\ a[n + 1] = e
  OBVIOUS
<1>2. \A i \in 1..n : a[i] = q[i]
  OBVIOUS
<1>. HIDE DEF a, n
<1>3. Told(a, k) <=> Told(q, k) \/ e = StopOf(k)
  <2>1. ASSUME Told(a, k) PROVE Told(q, k) \/ e = StopOf(k)
    <3>1. PICK i \in 1..(n + 1) : a[i] = StopOf(k)
      BY <1>1, <2>1 DEF Told
    <3>2. i \in 1..n \/ i = n + 1
      BY <1>1
    <3>. QED
      BY <1>1, <1>2, <3>1, <3>2 DEF Told
  <2>2. ASSUME Told(q, k) PROVE Told(a, k)
    <3>1. PICK i \in 1..n : q[i] = StopOf(k)
      BY <1>1, <2>2 DEF Told
    <3>2. i \in 1..(n + 1)
      BY <1>1
    <3>. QED
      BY <1>1, <1>2, <3>1, <3>2 DEF Told
  <2>3. ASSUME e = StopOf(k) PROVE Told(a, k)
    <3>1. n + 1 \in 1..(n + 1)
      BY <1>1
    <3>. QED
      BY <1>1, <2>3, <3>1 DEF Told
  <2>. QED
    BY <2>1, <2>2, <2>3
<1>4. ASSUME Followed(q, k), e.peer # k[2] \/ e.text = "stop"
      PROVE  Followed(a, k)
  <2>1. ASSUME NEW i \in 1..(n + 1), a[i].peer = k[2], a[i].text = "hello"
        PROVE  \E j \in 1..(n + 1) : i < j /\ a[j] = StopOf(k)
    <3>1. i # n + 1
      BY <1>1, <1>4, <2>1
    <3>2. i \in 1..n
      BY <1>1, <3>1
    <3>3. PICK j \in 1..n : i < j /\ q[j] = StopOf(k)
      BY <1>1, <1>2, <1>4, <2>1, <3>2 DEF Followed
    <3>4. j \in 1..(n + 1)
      BY <1>1
    <3>. QED
      BY <1>2, <3>3, <3>4
  <2>. QED
    BY <1>1, <2>1 DEF Followed
<1>5. ASSUME e = StopOf(k) PROVE Followed(a, k)
  <2>1. ASSUME NEW i \in 1..(n + 1), a[i].peer = k[2], a[i].text = "hello"
        PROVE  \E j \in 1..(n + 1) : i < j /\ a[j] = StopOf(k)
    <3>1. i # n + 1
      BY <1>1, <1>5, <2>1 DEF StopOf
    <3>2. i < n + 1 /\ n + 1 \in 1..(n + 1)
      BY <1>1, <3>1
    <3>. QED
      BY <1>1, <1>5, <3>2
  <2>. QED
    BY <1>1, <2>1 DEF Followed
<1>. QED
  BY <1>3, <1>4, <1>5 DEF a

LEMMA TailTold ==
  ASSUME NEW q \in Seq(Events), q # <<>>, NEW k \in Keys
  PROVE  /\ Told(q, k) <=> Head(q) = StopOf(k) \/ Told(Tail(q), k)
         /\ Followed(q, k) => Followed(Tail(q), k)
         /\ Followed(q, k) /\ Head(q).peer = k[2] /\ Head(q).text = "hello" => Told(Tail(q), k)
<1>. DEFINE t == Tail(q)
            n == Len(q)
<1>1. n \in Nat /\ n > 0 /\ DOMAIN q = 1..n /\ DOMAIN t = 1..(n - 1) /\ Head(q) = q[1]
  OBVIOUS
<1>2. \A i \in 1..(n - 1) : t[i] = q[i + 1]
  OBVIOUS
<1>. HIDE DEF t, n
<1>3. \A j \in 2..n : j - 1 \in 1..(n - 1) /\ t[j - 1] = q[j]
  <2>1. ASSUME NEW j \in 2..n PROVE j - 1 \in 1..(n - 1) /\ t[j - 1] = q[j]
    <3>1. j - 1 \in 1..(n - 1) /\ (j - 1) + 1 = j
      BY <1>1
    <3>. QED
      BY <1>2, <3>1
  <2>. QED
    BY <2>1
<1>4. ASSUME Told(q, k) PROVE q[1] = StopOf(k) \/ Told(t, k)
  <2>1. PICK i \in 1..n : q[i] = StopOf(k)
    BY <1>1, <1>4 DEF Told
  <2>2. i = 1 \/ i \in 2..n
    BY <1>1
  <2>. QED
    BY <1>1, <1>3, <2>1, <2>2 DEF Told
<1>5. ASSUME Told(t, k) PROVE Told(q, k)
  <2>1. PICK i \in 1..(n - 1) : t[i] = StopOf(k)
    BY <1>1, <1>5 DEF Told
  <2>2. i + 1 \in 1..n
    BY <1>1
  <2>. QED
    BY <1>1, <1>2, <2>1, <2>2 DEF Told
<1>6. ASSUME q[1] = StopOf(k) PROVE Told(q, k)
  <2>1. 1 \in 1..n
    BY <1>1
  <2>. QED
    BY <1>1, <1>6, <2>1 DEF Told
<1>7. ASSUME Followed(q, k) PROVE Followed(t, k)
  <2>1. ASSUME NEW i \in 1..(n - 1), t[i].peer = k[2], t[i].text = "hello"
        PROVE  \E j \in 1..(n - 1) : i < j /\ t[j] = StopOf(k)
    <3>1. i + 1 \in 1..n /\ t[i] = q[i + 1]
      BY <1>1, <1>2
    <3>2. PICK j \in 1..n : i + 1 < j /\ q[j] = StopOf(k)
      BY <1>1, <1>7, <2>1, <3>1 DEF Followed
    <3>3. j \in 2..n /\ i < j - 1
      BY <1>1, <3>2
    <3>. QED
      BY <1>3, <3>2, <3>3
  <2>. QED
    BY <1>1, <2>1 DEF Followed
<1>8. ASSUME Followed(q, k), q[1].peer = k[2], q[1].text = "hello"
      PROVE  Told(t, k)
  <2>1. 1 \in 1..n
    BY <1>1
  <2>2. PICK j \in 1..n : 1 < j /\ q[j] = StopOf(k)
    BY <1>1, <1>8, <2>1 DEF Followed
  <2>3. j \in 2..n
    BY <1>1, <2>2
  <2>. QED
    BY <1>1, <1>3, <2>2, <2>3 DEF Told
<1>. QED
  BY <1>1, <1>4, <1>5, <1>6, <1>7, <1>8 DEF t

\* Worker w is handling the stop of k, with no other of them to come; it is about to
\* commit it.
Handling(w, k) == pc[w] # "idle" /\ mem[w].event = StopOf(k) /\ ~Told(queue[w], k)

Will(w, k) == Handling(w, k) /\ pc[w] = "commit"

Fine(c) == contact[c].stage \in {"opted_out", "contacted"}

\* What w has yet to do: write the opt-out, the conversation's status, the contact's stage.
OptOwed(w, k) == Told(queue[w], k) \/ Will(w, k)
StatusOwed(w, k) == Told(queue[w], k) \/ (Will(w, k) /\ mem[w].found.status # "opted_out")
StageOwed(w, k) == Told(queue[w], k) \/ (Will(w, k) /\ mem[w].stage # "opted_out")

\* No older word of the peer will be answered after the last stop.
Caught(w, k) ==
    /\ Followed(queue[w], k)
    /\ pc[w] # "idle" /\ mem[w].event.peer = k[2] /\ mem[w].event.text = "hello"
           => Told(queue[w], k)

\* The last stop is handled with the contact that the peer has, and a worker that does
\* not write the opt-out has seen it.
HandOk(w, k) ==
    Handling(w, k) =>
        /\ IsMatch(k[2], mem[w].contact)
        /\ mem[w].contact # NoContact /\ mem[w].optedOut => contact[mem[w].contact].optedOut
        /\ ~mem[w].gone

ConversationOk(k) ==
    stop[k] = "heard" \/ (\E w \in Workers : Will(w, k) /\ mem[w].found.status = "opted_out")
        => /\ Exists(k)
           /\ conversation[k].status = "opted_out" \/ \E w \in Workers : StatusOwed(w, k)

OptOutOk(k) ==
    stop[k] = "heard" =>
        \A c \in Contacts : IsMatch(k[2], c) =>
            contact[c].optedOut \/ \E w \in Workers : OptOwed(w, k)

\* A handler that finds the stage written writes it no more: it stays, or is owed.
StageOk(k) ==
    OnlyOne(k) => \A c \in Contacts : IsMatch(k[2], c) =>
        /\ stop[k] = "heard" => Fine(c) \/ \E w \in Workers : StageOwed(w, k)
        /\ \A w \in Workers : Handling(w, k) /\ mem[w].stage = "opted_out" =>
              /\ Exists(k) /\ pc[w] = "commit" => Fine(c) \/ \E v \in Workers : StageOwed(v, k)
              /\ ~Exists(k) => Fine(c)

StopOk(k) ==
    stop[k] # "none" =>
        /\ \A w \in Workers : Caught(w, k) /\ HandOk(w, k)
        /\ ConversationOk(k)
        /\ OptOutOk(k)
        /\ StageOk(k)

\* Steps that leave the rows of a peer as they are, or better.
RowsHold(p) ==
    \A c \in Contacts :
        /\ contact'[c].stage # "absent" /\ contact'[c].of = p <=> RowOf(c, p)
        /\ RowOf(c, p) => /\ contact'[c].knows = contact[c].knows
                          /\ contact[c].optedOut => contact'[c].optedOut

RowsKeep(p) ==
    /\ RowsHold(p)
    /\ \A c \in Contacts :
          RowOf(c, p) /\ Fine(c) => contact'[c].stage \in {"opted_out", "contacted"}

KeysKeep(k) ==
    /\ Exists(k) => conversation'[k].status = conversation[k].status
    /\ \A j \in Keys : j[2] = k[2] /\ Exists(j) => conversation'[j].status # "absent"

WorkerKeep(w, k) ==
    /\ Told(queue'[w], k) <=> Told(queue[w], k)
    /\ Caught(w, k) => Caught(w, k)'
    /\ Handling(w, k)' => pc'[w] = pc[w] /\ mem'[w] = mem[w]
    /\ Will(w, k) => pc'[w] = pc[w] /\ mem'[w] = mem[w]

Frame(k) ==
    /\ stop'[k] = stop[k]
    /\ RowsKeep(k[2])
    /\ KeysKeep(k)
    /\ \A w \in Workers : WorkerKeep(w, k)

LEMMA MatchesKept ==
  ASSUME NEW p, RowsHold(p)
  PROVE  \A c : IsMatch(p, c)' <=> IsMatch(p, c)
<1>1. Rows(p)' = Rows(p)
  BY DEF RowsHold, Rows, RowOf
<1>2. \A c \in Rows(p) : contact'[c].knows = contact[c].knows
  BY DEF RowsHold, Rows, RowOf
<1>3. \A ids : Holding(p, ids)' = Holding(p, ids)
  BY <1>1, <1>2 DEF Holding
<1>4. Matches(p)' = Matches(p)
  BY <1>3 DEF Matches
<1>. QED
  BY <1>4 DEF IsMatch

LEMMA HandKept ==
  ASSUME NEW k \in Keys, NEW w \in Workers, RowsHold(k[2]), HandOk(w, k),
         Handling(w, k)' => Handling(w, k) /\ mem'[w] = mem[w]
  PROVE  HandOk(w, k)'
<1>. SUFFICES ASSUME Handling(w, k)'
              PROVE  /\ IsMatch(k[2], mem[w].contact)'
                     /\ mem'[w].contact # NoContact /\ mem'[w].optedOut =>
                            contact'[mem'[w].contact].optedOut
                     /\ ~mem'[w].gone
  BY DEF HandOk
<1>1. /\ IsMatch(k[2], mem[w].contact)
      /\ mem[w].contact # NoContact /\ mem[w].optedOut => contact[mem[w].contact].optedOut
      /\ ~mem[w].gone
      /\ mem'[w] = mem[w]
  BY DEF HandOk
<1>2. IsMatch(k[2], mem[w].contact)'
  BY <1>1, MatchesKept
<1>3. mem[w].contact # NoContact =>
          mem[w].contact \in Contacts /\ RowOf(mem[w].contact, k[2])
  BY <1>1, MatchIsRow
<1>. QED
  BY <1>1, <1>2, <1>3 DEF RowsHold

LEMMA FrameKeepsStop ==
  ASSUME NEW k \in Keys, StopOk(k), Frame(k)
  PROVE  StopOk(k)'
<1>. SUFFICES ASSUME stop'[k] # "none"
              PROVE  /\ \A w \in Workers : Caught(w, k)' /\ HandOk(w, k)'
                     /\ ConversationOk(k)' /\ OptOutOk(k)' /\ StageOk(k)'
  BY DEF StopOk
<1>1. /\ stop'[k] = stop[k] /\ stop[k] # "none"
      /\ \A w \in Workers : Caught(w, k) /\ HandOk(w, k)
      /\ ConversationOk(k) /\ OptOutOk(k) /\ StageOk(k)
  BY DEF StopOk, Frame
<1>2. \A c : IsMatch(k[2], c)' <=> IsMatch(k[2], c)
  BY MatchesKept DEF Frame, RowsKeep
<1>3. /\ \A c \in Contacts : IsMatch(k[2], c) =>
            /\ contact[c].optedOut => contact'[c].optedOut
            /\ Fine(c) => Fine(c)'
  <2>1. ASSUME NEW c \in Contacts, IsMatch(k[2], c)
        PROVE  RowOf(c, k[2])
    <3>1. c # NoContact
      BY InboxAssumption
    <3>. QED
      BY <2>1, <3>1, MatchIsRow
  <2>. QED
    BY <2>1 DEF Frame, RowsKeep, RowsHold, Fine
<1>4. ASSUME NEW w \in Workers
      PROVE  /\ Handling(w, k)' => Handling(w, k) /\ pc'[w] = pc[w] /\ mem'[w] = mem[w]
             /\ Will(w, k)' <=> Will(w, k)
             /\ Will(w, k) => mem'[w] = mem[w]
             /\ Told(queue[w], k)' <=> Told(queue[w], k)
  <2>1. WorkerKeep(w, k)
    BY DEF Frame
  <2>. QED
    BY <2>1 DEF WorkerKeep, Handling, Will
<1>5. ASSUME NEW w \in Workers
      PROVE  /\ OptOwed(w, k) => OptOwed(w, k)'
             /\ StatusOwed(w, k) => StatusOwed(w, k)'
             /\ StageOwed(w, k) => StageOwed(w, k)'
  BY <1>4 DEF OptOwed, StatusOwed, StageOwed
<1>6. ASSUME NEW w \in Workers
      PROVE  Caught(w, k)' /\ HandOk(w, k)'
  <2>1. Caught(w, k)'
    BY <1>1 DEF Frame, WorkerKeep
  <2>2. HandOk(w, k)'
    BY <1>1, <1>4, HandKept DEF Frame, RowsKeep
  <2>. QED
    BY <2>1, <2>2
<1>7. ConversationOk(k)'
  <2>. SUFFICES ASSUME \/ stop'[k] = "heard"
                       \/ \E w \in Workers : Will(w, k)' /\ mem'[w].found.status = "opted_out"
                PROVE  /\ Exists(k)'
                       /\ \/ conversation'[k].status = "opted_out"
                          \/ \E w \in Workers : StatusOwed(w, k)'
    BY DEF ConversationOk
  <2>1. /\ Exists(k)
        /\ conversation[k].status = "opted_out" \/ \E w \in Workers : StatusOwed(w, k)
    BY <1>1, <1>4 DEF ConversationOk
  <2>. QED
    BY <1>5, <2>1 DEF Frame, KeysKeep, Exists
<1>8. OptOutOk(k)'
  BY <1>1, <1>2, <1>3, <1>5 DEF OptOutOk
<1>9. StageOk(k)'
  <2>. SUFFICES ASSUME OnlyOne(k)', NEW c \in Contacts, IsMatch(k[2], c)'
                PROVE  /\ stop'[k] = "heard" => Fine(c)' \/ \E w \in Workers : StageOwed(w, k)'
                       /\ \A w \in Workers : Handling(w, k)' /\ mem'[w].stage = "opted_out" =>
                           /\ Exists(k)' /\ pc'[w] = "commit" =>
                                 Fine(c)' \/ \E v \in Workers : StageOwed(v, k)'
                           /\ ~Exists(k)' => Fine(c)'
    BY DEF StageOk
  <2>1. OnlyOne(k)
    BY DEF OnlyOne, Frame, KeysKeep, Exists
  <2>2. IsMatch(k[2], c)
    BY <1>2
  <2>3. Exists(k) => Exists(k)'
    BY DEF Frame, KeysKeep, Exists
  <2>. QED
    BY <1>1, <1>3, <1>4, <1>5, <2>1, <2>2, <2>3 DEF StageOk
<1>. QED
  BY <1>6, <1>7, <1>8, <1>9

-----------------------------------------------------------------------------
(* The steps that disturb no stop but those they interfere with.             *)

LEMMA RestingWorkerKeeps ==
  ASSUME NEW w \in Workers, NEW k, pc'[w] = pc[w], mem'[w] = mem[w], queue'[w] = queue[w]
  PROVE  WorkerKeep(w, k)
  BY DEF WorkerKeep, Caught

LEMMA SameDatabaseKeeps ==
  ASSUME NEW k, UNCHANGED <<contact, conversation>>
  PROVE  RowsKeep(k[2]) /\ KeysKeep(k)
  BY DEF RowsKeep, RowsHold, RowOf, Fine, KeysKeep, Exists

LEMMA InterfereEffect ==
  ASSUME TypeOK, NEW peers, Interfere(peers), NEW k \in Keys
  PROVE  stop'[k] = IF k[2] \in peers THEN "none" ELSE stop[k]
  BY DEF Interfere, TypeOK, Keys

LEMMA ClosedWorkerKeeps ==
  ASSUME NEW w \in Workers, NEW k, pc'[w] = "idle", queue'[w] = queue[w], ~Will(w, k)
  PROVE  WorkerKeep(w, k)
  BY DEF WorkerKeep, Caught, Handling

LEMMA LoadFrame ==
  ASSUME UNCHANGED <<contact, conversation, queue, listening, stop>>,
         NEW r \in Requests, OthersRest(r), NEW k \in Keys
  PROVE  Frame(k)
<1>1. \A w \in Workers : WorkerKeep(w, k)
  BY InboxAssumption, RestingWorkerKeeps DEF OthersRest, Sessions
<1>. QED
  BY <1>1, SameDatabaseKeeps DEF Frame

LEMMA EditFrame ==
  ASSUME BaseInv, NEW p, Edited(p), NEW k \in Keys
  PROVE  stop'[k] = "none" \/ Frame(k)
<1>. SUFFICES ASSUME k[2] # p PROVE Frame(k)
  BY InterfereEffect DEF Edited, BaseInv, OptOutInv
<1>1. stop'[k] = stop[k]
  BY InterfereEffect DEF Edited, BaseInv, OptOutInv
<1>2. RowsKeep(k[2])
  <2>1. ASSUME NEW c \in Contacts
        PROVE  \/ contact'[c] = contact[c]
               \/ ~RowOf(c, k[2]) /\ contact'[c].of = p
    BY DEF Edited, RowOf, RowsStay
  <2>. QED
    BY <2>1 DEF RowsKeep, RowsHold, RowOf, Fine
<1>3. KeysKeep(k)
  BY DEF KeysKeep, Edited, Exists
<1>4. ASSUME NEW w \in Workers
      PROVE  WorkerKeep(w, k)
  <2>1. /\ pc' = pc /\ queue' = queue /\ mem'[w].event = mem[w].event
        /\ mem[w].event.peer = k[2] => mem'[w] = mem[w]
    BY DEF Edited, Sessions
  <2>2. mem[w].event = StopOf(k) => mem[w].event.peer = k[2]
    BY DEF StopOf
  <2>. QED
    BY <2>1, <2>2 DEF WorkerKeep, Caught, Handling, Will
<1>. QED
  BY <1>1, <1>2, <1>3, <1>4 DEF Frame

LEMMA SaveFrame ==
  ASSUME BaseInv, NEW r \in Requests, CommitSave(r), NEW k \in Keys
  PROVE  stop'[k] = "none" \/ Frame(k)
<1>1. /\ TypeOK /\ OthersRest(r) /\ UNCHANGED queue
      /\ UNCHANGED <<contact, conversation, stop>> \/ \E c \in Contacts : Saved(r, c)
  BY CommitSaveEffect DEF BaseInv, OptOutInv, IsClosed
<1>2. \A w \in Workers : WorkerKeep(w, k)
  BY <1>1, InboxAssumption, RestingWorkerKeeps DEF OthersRest, Sessions
<1>3. CASE UNCHANGED <<contact, conversation, stop>>
  BY <1>2, <1>3, SameDatabaseKeeps DEF Frame
<1>4. ASSUME NEW c \in Contacts, Saved(r, c), k[2] # mem[r].event.peer
      PROVE  Frame(k)
  <2>1. stop'[k] = stop[k]
    BY <1>1, <1>4, InterfereEffect DEF Saved
  <2>2. RowsKeep(k[2])
    BY <1>4 DEF Saved, RowsKeep, RowsHold, RowOf, Fine
  <2>3. KeysKeep(k)
    BY <1>4 DEF Saved, KeysKeep, Exists
  <2>. QED
    BY <1>2, <2>1, <2>2, <2>3 DEF Frame
<1>5. ASSUME NEW c \in Contacts, Saved(r, c), k[2] = mem[r].event.peer
      PROVE  stop'[k] = "none"
  BY <1>1, <1>5, InterfereEffect DEF Saved
<1>. QED
  BY <1>1, <1>3, <1>4, <1>5

LEMMA CommitEditFrame ==
  ASSUME BaseInv, NEW r \in Requests, CommitEdit(r), NEW k \in Keys
  PROVE  stop'[k] = "none" \/ Frame(k)
<1>1. /\ TypeOK /\ OthersRest(r) /\ UNCHANGED <<conversation, queue>>
      /\ Interfere({mem[r].event.peer}) /\ RowsStay
      /\ \A c \in Contacts : ~RowOf(c, mem[r].event.peer) => contact'[c] = contact[c]
      /\ \A c \in Contacts : contact'[c].of = contact[c].of
  BY CommitEditEffect DEF BaseInv, OptOutInv, IsClosed
<1>2. CASE k[2] = mem[r].event.peer
  BY <1>1, <1>2, InterfereEffect
<1>3. CASE k[2] # mem[r].event.peer
  <2>1. stop'[k] = stop[k]
    BY <1>1, <1>3, InterfereEffect
  <2>2. RowsKeep(k[2])
    <3>1. ASSUME NEW c \in Contacts
          PROVE  \/ contact'[c] = contact[c]
                 \/ ~RowOf(c, k[2]) /\ contact'[c].of # k[2]
      BY <1>1, <1>3 DEF RowOf
    <3>. QED
      BY <3>1 DEF RowsKeep, RowsHold, RowOf, Fine
  <2>3. KeysKeep(k)
    BY <1>1 DEF KeysKeep, Exists
  <2>4. \A w \in Workers : WorkerKeep(w, k)
    BY <1>1, InboxAssumption, RestingWorkerKeeps DEF OthersRest, Sessions
  <2>. QED
    BY <2>1, <2>2, <2>3, <2>4 DEF Frame
<1>. QED
  BY <1>2, <1>3

LEMMA OutreachFrame ==
  ASSUME BaseInv, NEW r \in Requests, CommitOutreach(r), NEW k \in Keys
  PROVE  Frame(k)
<1>1. /\ TypeOK /\ r \in Sessions /\ OthersRest(r) /\ UNCHANGED <<queue, stop>>
      /\ UNCHANGED <<contact, conversation>> \/ Recorded(r)
      /\ RowsStay
  BY CommitOutreachEffect, CommitOutreachBase DEF BaseInv, OptOutInv, IsClosed, Sessions
<1>2. \A w \in Workers : WorkerKeep(w, k)
  BY <1>1, InboxAssumption, RestingWorkerKeeps DEF OthersRest, Sessions
<1>3. CASE UNCHANGED <<contact, conversation>>
  BY <1>1, <1>2, <1>3, SameDatabaseKeeps DEF Frame
<1>4. CASE Recorded(r)
  <2>. DEFINE m == mem[r]
              j == Key(m)
  <2>1. Sound(r) /\ j \in Keys /\ j[2] = m.event.peer
    BY <1>1, LoadedTypes DEF BaseInv
  <2>2. RowsKeep(k[2])
    <3>1. m.contact \in Contacts => RowOf(m.contact, m.event.peer)
      BY <2>1, InboxAssumption DEF Sound, LinksOf
    <3>. HIDE DEF m
    <3>2. ASSUME NEW c \in Contacts
          PROVE  /\ contact'[c].stage # "absent" /\ contact'[c].of = k[2] <=> RowOf(c, k[2])
                 /\ contact'[c].knows = contact[c].knows
                 /\ contact'[c].optedOut = contact[c].optedOut
                 /\ contact'[c].stage \in {"contacted", contact[c].stage}
      <4>1. CASE c = m.contact
        BY <1>4, <3>1, <4>1 DEF Recorded, RowOf, m
      <4>2. CASE c # m.contact
        BY <1>4, <4>2 DEF Recorded, RowOf, m
      <4>. QED
        BY <4>1, <4>2
    <3>. QED
      BY <3>2 DEF RowsKeep, RowsHold, Fine
  <2>3. KeysKeep(k)
    <3>1. \A i \in Keys : Exists(i) => conversation'[i].status = conversation[i].status
      <4>1. ASSUME NEW i \in Keys, Exists(i)
            PROVE  conversation'[i].status = conversation[i].status
        <5>1. CASE i # j
          BY <1>4, <5>1 DEF Recorded
        <5>2. CASE i = j
          BY <1>4, <2>1, <4>1, <5>2 DEF Recorded, Sound, SessionOk
        <5>. QED
          BY <5>1, <5>2
      <4>. QED
        BY <4>1
    <3>. QED
      BY <3>1 DEF KeysKeep, Exists
  <2>. QED
    BY <1>1, <1>2, <2>2, <2>3 DEF Frame
<1>. QED
  BY <1>1, <1>3, <1>4

LEMMA FailureFrame ==
  ASSUME BaseInv, NEW s \in Sessions, CutOff(s), NEW k \in Keys
  PROVE  stop'[k] = "none" \/ Frame(k)
<1>. SUFFICES ASSUME stop'[k] # "none" PROVE Frame(k)
  OBVIOUS
<1>1. TypeOK
  BY DEF BaseInv, OptOutInv
<1>2. UNCHANGED <<contact, conversation>> /\ OthersRest(s)
  BY DEF CutOff, IsClosed, OthersRest
<1>3. RowsKeep(k[2]) /\ KeysKeep(k)
  BY <1>2, SameDatabaseKeeps
<1>4. stop'[k] = stop[k]
  BY <1>1, InterfereEffect DEF CutOff
<1>5. \A w \in Workers : queue'[w] = IF w = s THEN <<>> ELSE queue[w]
  BY <1>1 DEF CutOff, TypeOK
<1>6. \A w \in Workers \ {s} : WorkerKeep(w, k)
  BY <1>2, <1>5, RestingWorkerKeeps DEF OthersRest, Sessions
<1>7. ASSUME s \in Workers
      PROVE  WorkerKeep(s, k)
  <2>1. k[2] \notin Waiting(s)
    BY <1>1, <1>7, InterfereEffect DEF CutOff
  <2>2. ~Told(queue[s], k)
    BY <1>7, <2>1 DEF Told, Waiting, StopOf
  <2>3. ~Told(queue'[s], k) /\ Followed(queue'[s], k)
    BY <1>5, <1>7, NothingTold
  <2>4. pc'[s] = "idle"
    BY DEF CutOff, IsClosed
  <2>5. pc[s] = "idle" \/ mem[s].event.peer # k[2]
    BY <1>1, <1>7, InterfereEffect DEF CutOff
  <2>6. ~Will(s, k)
    BY <2>5 DEF Will, Handling, StopOf
  <2>. QED
    BY <2>2, <2>3, <2>4, <2>6 DEF WorkerKeep, Caught, Handling
<1>. QED
  BY <1>3, <1>4, <1>6, <1>7 DEF Frame

-----------------------------------------------------------------------------
(* The steps that move a stop on.                                            *)

LEMMA PublishStop ==
  ASSUME BaseInv, NEW e \in Events, Publish(e), NEW k \in Keys, StopOk(k)
  PROVE  StopOk(k)'
<1>1. TypeOK /\ UNCHANGED <<contact, conversation, pc, mem>>
  BY DEF BaseInv, OptOutInv, Publish, database, sessions
<1>2. \A w \in Workers :
        /\ queue[w] \in Seq(Events)
        /\ queue'[w] = IF w \in listening THEN Append(queue[w], e) ELSE queue[w]
  BY <1>1 DEF Publish, TypeOK
<1>3. CASE e = StopOf(k)
  <2>1. stop'[k] = "said"
    <3>1. <<e.account, e.peer>> = k /\ e.text = "stop"
      BY <1>3 DEF StopOf, Keys
    <3>2. stop' = [stop EXCEPT ![k] = "said"]
      BY <3>1 DEF Publish
    <3>. QED
      BY <1>1, <3>2 DEF TypeOK, Keys
  <2>2. ASSUME NEW w \in Workers
        PROVE  ~Handling(w, k)' /\ Caught(w, k)'
    <3>1. CASE w \in listening
      <4>1. Told(queue'[w], k) /\ Followed(queue'[w], k)
        BY <1>2, <1>3, <3>1, AppendTold
      <4>. QED
        BY <4>1 DEF Handling, Caught
    <3>2. CASE w \notin listening
      <4>1. pc'[w] = "idle" /\ queue'[w] = <<>>
        BY <1>1, <1>2, <3>2 DEF BaseInv, DeafRest
      <4>. QED
        BY <4>1, NothingTold DEF Handling, Caught
    <3>. QED
      BY <3>1, <3>2
  <2>. QED
    BY <2>1, <2>2 DEF StopOk, HandOk, ConversationOk, OptOutOk, StageOk, Will
<1>4. CASE e # StopOf(k) /\ (e.peer # k[2] \/ e.text = "stop")
  <2>1. stop'[k] = stop[k]
    <3>1. CASE e.text = "stop"
      <4>1. <<e.account, e.peer>> # k
        BY <1>4, <3>1 DEF StopOf, Events, Keys
      <4>. QED
        BY <1>1, <3>1, <4>1 DEF Publish, TypeOK, Keys
    <3>2. CASE e.text # "stop"
      BY <1>1, <1>4, <3>2, InterfereEffect DEF Publish
    <3>. QED
      BY <3>1, <3>2
  <2>2. ASSUME NEW w \in Workers
        PROVE  WorkerKeep(w, k)
    <3>1. /\ Told(queue'[w], k) <=> Told(queue[w], k)
          /\ Followed(queue[w], k) => Followed(queue'[w], k)
      BY <1>2, <1>4, AppendTold
    <3>. QED
      BY <1>1, <3>1 DEF WorkerKeep, Caught
  <2>. QED
    BY <1>1, <2>1, <2>2, SameDatabaseKeeps, FrameKeepsStop DEF Frame
<1>5. CASE e.peer = k[2] /\ e.text # "stop"
  BY <1>1, <1>5, InterfereEffect DEF Publish, StopOk
<1>. QED
  BY <1>3, <1>4, <1>5

\* A worker takes the last stop of k: what it has seen of the rows decides what is owed.
LEMMA TakeLastStop ==
  ASSUME BaseInv, NEW w \in Workers, NEW k \in Keys, StopOk(k),
         UNCHANGED <<contact, conversation, stop>>, Taken(w, StopOf(k)),
         pc[w] = "idle", ~Told(queue'[w], k), Followed(queue'[w], k),
         \A v \in Workers \ {w} : queue'[v] = queue[v]
  PROVE  StopOk(k)'
<1>. SUFFICES ASSUME stop[k] # "none"
              PROVE  /\ \A v \in Workers : Caught(v, k)' /\ HandOk(v, k)'
                     /\ ConversationOk(k)' /\ OptOutOk(k)' /\ StageOk(k)'
  BY DEF StopOk
<1>1. /\ \A v \in Workers : Caught(v, k) /\ HandOk(v, k)
      /\ ConversationOk(k) /\ OptOutOk(k) /\ StageOk(k)
  BY DEF StopOk
<1>2. TypeOK /\ w \in Sessions /\ OthersRest(w)
  BY DEF BaseInv, OptOutInv, Sessions, Taken
<1>3. <<StopOf(k).account, StopOf(k).peer>> = k /\ StopOf(k).peer = k[2] /\ StopOf(k).text = "stop"
  BY DEF StopOf, Keys
<1>4. /\ mem'[w].event = StopOf(k) /\ ~mem'[w].fresh /\ ~mem'[w].gone
      /\ mem'[w].contact \in Contacts \cup {NoContact} /\ IsMatch(k[2], mem'[w].contact)
      /\ mem'[w].contact # NoContact => /\ mem'[w].stage = contact[mem'[w].contact].stage
                                        /\ mem'[w].optedOut = contact[mem'[w].contact].optedOut
      /\ Exists(k) => pc'[w] = "commit" /\ mem'[w].found = conversation[k]
      /\ ~Exists(k) => pc'[w] = "insert"
  BY <1>3 DEF Taken
<1>5. Handling(w, k)' /\ ~Handling(w, k)
  BY <1>4 DEF Handling
<1>6. Will(w, k)' <=> Exists(k)
  BY <1>4, <1>5 DEF Will
<1>7. ASSUME NEW v \in Workers \ {w}
      PROVE  pc'[v] = pc[v] /\ mem'[v] = mem[v] /\ queue'[v] = queue[v]
  BY <1>2 DEF OthersRest, Sessions
<1>8. \A v \in Workers \ {w} :
        /\ Handling(v, k)' <=> Handling(v, k)
        /\ Will(v, k)' <=> Will(v, k)
        /\ StageOwed(v, k)' <=> StageOwed(v, k)
        /\ StatusOwed(v, k)' <=> StatusOwed(v, k)
  BY <1>7 DEF Handling, Will, StageOwed, StatusOwed
<1>9. \A c : IsMatch(k[2], c)' <=> IsMatch(k[2], c)
  BY DEF IsMatch, Matches, Holding, Rows
<1>10. ASSUME NEW c \in Contacts, IsMatch(k[2], c)
       PROVE  mem'[w].contact = c
  BY <1>4, <1>10, InboxAssumption DEF IsMatch
<1>11. ASSUME NEW v \in Workers
       PROVE  Caught(v, k)' /\ HandOk(v, k)'
  <2>1. CASE v = w
    BY <1>3, <1>4, <1>9, <2>1 DEF Caught, HandOk
  <2>2. CASE v # w
    BY <1>1, <1>7, <1>8, <1>9, <2>2 DEF Caught, HandOk
  <2>. QED
    BY <2>1, <2>2
<1>12. ConversationOk(k)'
  <2>. SUFFICES ASSUME \/ stop[k] = "heard"
                       \/ \E v \in Workers : Will(v, k)' /\ mem'[v].found.status = "opted_out"
                PROVE  /\ Exists(k)
                       /\ \/ conversation[k].status = "opted_out"
                          \/ \E v \in Workers : StatusOwed(v, k)'
    BY DEF ConversationOk, Exists
  <2>1. Exists(k)
    BY <1>1, <1>6, <1>7, <1>8 DEF ConversationOk
  <2>2. CASE conversation[k].status = "opted_out"
    BY <2>1, <2>2
  <2>3. CASE conversation[k].status # "opted_out"
    BY <1>4, <1>6, <2>1, <2>3 DEF StatusOwed
  <2>. QED
    BY <2>1, <2>2, <2>3
<1>13. OptOutOk(k)'
  BY <1>1, <1>6 DEF OptOutOk, ConversationOk, OptOwed
<1>14. StageOk(k)'
  <2>. SUFFICES ASSUME OnlyOne(k), NEW c \in Contacts, IsMatch(k[2], c)
                PROVE  /\ stop[k] = "heard" => Fine(c) \/ \E v \in Workers : StageOwed(v, k)'
                       /\ \A v \in Workers : Handling(v, k)' /\ mem'[v].stage = "opted_out" =>
                           /\ Exists(k) /\ pc'[v] = "commit" =>
                                 Fine(c) \/ \E u \in Workers : StageOwed(u, k)'
                           /\ ~Exists(k) => Fine(c)
    BY <1>9 DEF StageOk, OnlyOne, Exists, Fine
  <2>1. mem'[w].stage = contact[c].stage
    BY <1>4, <1>10, InboxAssumption
  <2>2. Exists(k) => Fine(c) \/ StageOwed(w, k)'
    BY <1>6, <2>1 DEF Fine, StageOwed
  <2>3. stop[k] = "heard" => Exists(k)
    BY <1>1 DEF ConversationOk
  <2>4. ASSUME NEW v \in Workers, Handling(v, k)', mem'[v].stage = "opted_out", ~Exists(k)
        PROVE  Fine(c)
    <3>1. CASE v = w
      BY <2>1, <2>4, <3>1 DEF Fine
    <3>2. CASE v # w
      BY <1>1, <1>7, <1>8, <2>4, <3>2 DEF StageOk
    <3>. QED
      BY <3>1, <3>2
  <2>. QED
    BY <2>2, <2>3, <2>4
<1>. QED
  BY <1>11, <1>12, <1>13, <1>14

LEMMA TakeStop ==
  ASSUME BaseInv, NEW w \in Workers, TakeMessage(w), NEW k \in Keys, StopOk(k)
  PROVE  StopOk(k)'
<1>. DEFINE e == Head(queue[w])
<1>1. /\ TypeOK /\ w \in Sessions
      /\ pc[w] = "idle" /\ queue[w] # <<>> /\ queue' = [queue EXCEPT ![w] = Tail(@)]
      /\ UNCHANGED <<contact, conversation>>
      /\ \/ UNCHANGED <<pc, mem>> /\ Interfere({e.peer})
         \/ UNCHANGED stop /\ Taken(w, e)
  BY TakeEffect DEF BaseInv, OptOutInv, Sessions
<1>2. queue[w] \in Seq(Events) /\ e \in Events
  <2>1. queue[w] \in Seq(Events)
    BY <1>1 DEF TypeOK
  <2>. QED
    BY <1>1, <2>1
<1>3. queue'[w] = Tail(queue[w]) /\ \A v \in Workers \ {w} : queue'[v] = queue[v]
  BY <1>1 DEF TypeOK
<1>4. /\ Told(queue[w], k) <=> e = StopOf(k) \/ Told(queue'[w], k)
      /\ Followed(queue[w], k) => Followed(queue'[w], k)
      /\ Followed(queue[w], k) /\ e.peer = k[2] /\ e.text = "hello" => Told(queue'[w], k)
  BY <1>1, <1>2, <1>3, TailTold
<1>. HIDE DEF e
<1>5. CASE e.peer = k[2] /\ UNCHANGED <<pc, mem>> /\ Interfere({e.peer})
  BY <1>1, <1>5, InterfereEffect DEF StopOk
<1>6. CASE UNCHANGED stop /\ Taken(w, e) /\ e = StopOf(k) /\ ~Told(queue'[w], k)
  <2>1. stop[k] # "none" => Followed(queue'[w], k)
    BY <1>4 DEF StopOk, Caught
  <2>. QED
    BY <1>1, <1>3, <1>6, <2>1, TakeLastStop DEF StopOk
<1>7. CASE /\ e = StopOf(k) => Told(queue'[w], k)
           /\ (UNCHANGED stop /\ Taken(w, e))
                \/ (e.peer # k[2] /\ UNCHANGED <<pc, mem>> /\ Interfere({e.peer}))
  <2>1. stop'[k] = stop[k]
    BY <1>1, <1>7, InterfereEffect
  <2>2. ASSUME NEW v \in Workers \ {w}
        PROVE  WorkerKeep(v, k)
    <3>1. pc'[v] = pc[v] /\ mem'[v] = mem[v]
      BY <1>7 DEF Taken, OthersRest, Sessions
    <3>. QED
      BY <1>3, <3>1, RestingWorkerKeeps
  <2>3. WorkerKeep(w, k)
    <3>1. Told(queue'[w], k) <=> Told(queue[w], k)
      BY <1>4, <1>7
    <3>2. CASE UNCHANGED <<pc, mem>>
      BY <1>1, <1>4, <3>1, <3>2 DEF WorkerKeep, Caught
    <3>3. CASE Taken(w, e)
      <4>1. mem'[w].event = e
        BY <3>3 DEF Taken
      <4>2. ~Handling(w, k)'
        BY <1>7, <4>1 DEF Handling
      <4>. QED
        BY <1>1, <1>4, <3>1, <4>1, <4>2 DEF WorkerKeep, Caught, Will, Handling
    <3>. QED
      BY <1>7, <3>2, <3>3
  <2>. QED
    BY <1>1, <2>1, <2>2, <2>3, SameDatabaseKeeps, FrameKeepsStop DEF Frame
<1>8. e = StopOf(k) => e.peer = k[2]
  BY DEF StopOf
<1>. QED
  BY <1>1, <1>5, <1>6, <1>7, <1>8

LEMMA InsertStop ==
  ASSUME BaseInv, NEW s \in Sessions, InsertConversation(s), NEW k \in Keys, StopOk(k)
  PROVE  StopOk(k)'
<1>1. /\ TypeOK /\ UNCHANGED <<contact, conversation, queue, stop>>
      /\ pc[s] = "insert" /\ OthersRest(s)
      /\ \/ IsClosed(s)
         \/ /\ ~Exists(Key(mem[s]))
            /\ pc'[s] = "commit" /\ mem'[s].found = NewConversation
            /\ mem'[s].event = mem[s].event /\ mem'[s].contact = mem[s].contact
            /\ mem'[s].stage = mem[s].stage /\ mem'[s].optedOut = mem[s].optedOut
            /\ mem'[s].gone = mem[s].gone
  BY InsertEffect DEF BaseInv, OptOutInv
<1>2. \A v \in Workers \ {s} : pc'[v] = pc[v] /\ mem'[v] = mem[v] /\ queue'[v] = queue[v]
  BY <1>1 DEF OthersRest, Sessions
<1>3. CASE s \in Workers => ~Handling(s, k) \/ IsClosed(s)
  <2>1. s \in Workers => WorkerKeep(s, k)
    <3>1. ~Will(s, k)
      BY <1>1 DEF Will
    <3>2. CASE IsClosed(s)
      BY <1>1, <3>1, <3>2, ClosedWorkerKeeps DEF IsClosed
    <3>3. CASE ~IsClosed(s)
      BY <1>1, <1>3, <3>1, <3>3 DEF WorkerKeep, Caught, Handling
    <3>. QED
      BY <3>2, <3>3
  <2>2. \A w \in Workers : WorkerKeep(w, k)
    BY <1>2, <2>1, RestingWorkerKeeps
  <2>. QED
    BY <1>1, <2>2, SameDatabaseKeeps, FrameKeepsStop DEF Frame
<1>4. CASE s \in Workers /\ Handling(s, k) /\ ~IsClosed(s)
  <2>. SUFFICES ASSUME stop[k] # "none"
                PROVE  /\ \A v \in Workers : Caught(v, k)' /\ HandOk(v, k)'
                       /\ ConversationOk(k)' /\ OptOutOk(k)' /\ StageOk(k)'
    BY <1>1 DEF StopOk
  <2>1. /\ \A v \in Workers : Caught(v, k) /\ HandOk(v, k)
        /\ ConversationOk(k) /\ OptOutOk(k) /\ StageOk(k)
    BY DEF StopOk
  <2>2. ~Exists(k) /\ stop[k] # "heard"
    <3>1. Key(mem[s]) = k
      BY <1>4 DEF Handling, StopOf, Key, Keys
    <3>2. ~Exists(k)
      BY <1>1, <1>4, <3>1
    <3>. QED
      BY <2>1, <3>2 DEF ConversationOk
  <2>3. \A c : IsMatch(k[2], c)' <=> IsMatch(k[2], c)
    BY <1>1 DEF IsMatch, Matches, Holding, Rows
  <2>4. mem'[s].found.status = "new"
    BY <1>1, <1>4 DEF NewConversation, NoConversation
  <2>5. \A v \in Workers : Handling(v, k)' => Handling(v, k) /\ mem'[v].stage = mem[v].stage
    BY <1>1, <1>2, <1>4 DEF Handling
  <2>6. ASSUME NEW v \in Workers
        PROVE  Caught(v, k)' /\ HandOk(v, k)'
    <3>1. /\ mem'[v].event = mem[v].event /\ mem'[v].contact = mem[v].contact
          /\ mem'[v].optedOut = mem[v].optedOut /\ mem'[v].gone = mem[v].gone
          /\ queue'[v] = queue[v] /\ (pc'[v] # "idle" => pc[v] # "idle")
      BY <1>1, <1>2, <1>4
    <3>. QED
      BY <1>1, <2>1, <2>3, <2>5, <3>1 DEF Caught, HandOk
  <2>7. ConversationOk(k)'
    <3>1. ASSUME NEW v \in Workers, Will(v, k)', mem'[v].found.status = "opted_out"
          PROVE  FALSE
      <4>1. v # s
        BY <2>4, <3>1
      <4>2. Will(v, k) /\ mem[v].found.status = "opted_out"
        BY <1>2, <3>1, <4>1 DEF Will, Handling
      <4>. QED
        BY <2>1, <2>2, <4>2 DEF ConversationOk
    <3>. QED
      BY <1>1, <2>2, <3>1 DEF ConversationOk
  <2>8. OptOutOk(k)'
    BY <1>1, <2>2 DEF OptOutOk
  <2>9. StageOk(k)'
    <3>1. OnlyOne(k)' => OnlyOne(k)
      BY <1>1 DEF OnlyOne, Exists
    <3>2. ~Exists(k)' /\ stop'[k] # "heard" /\ \A c : Fine(c) => Fine(c)'
      BY <1>1, <2>2 DEF Exists, Fine
    <3>. QED
      BY <2>1, <2>2, <2>3, <2>5, <3>1, <3>2 DEF StageOk
  <2>. QED
    BY <2>6, <2>7, <2>8, <2>9
<1>. QED
  BY <1>3, <1>4

\* The answer to a message: the peer's rows lose nothing but, to a hello, a stage.
LEMMA AnsweredRows ==
  ASSUME BaseInv, NEW w \in Workers, Answered(w), RowsStay, NEW k \in Keys
  PROVE  /\ RowsHold(k[2])
         /\ mem[w].event.text = "stop" \/ mem[w].event.peer # k[2] => RowsKeep(k[2])
<1>. DEFINE m == mem[w]
<1>1. w \in Sessions /\ TypeOK /\ Sound(w) /\ m.event \in Events
  BY LoadedTypes DEF Sessions, BaseInv, OptOutInv
<1>2. m.contact \in Contacts => RowOf(m.contact, m.event.peer)
  BY <1>1, InboxAssumption DEF Sound, LinksOf
<1>3. /\ \A c \in Contacts \ {m.contact} : contact'[c] = contact[c]
      /\ m.contact \in Contacts =>
            /\ contact'[m.contact].of = contact[m.contact].of
            /\ contact'[m.contact].knows = contact[m.contact].knows
            /\ contact'[m.contact].stage \in {Answer(m), contact[m.contact].stage}
            /\ contact[m.contact].optedOut => contact'[m.contact].optedOut
  BY DEF Answered
<1>4. m.event.text = "stop" => Answer(m) = "opted_out"
  BY DEF Answer
<1>. HIDE DEF m
<1>5. ASSUME NEW c \in Contacts
      PROVE  /\ contact'[c].stage # "absent" /\ contact'[c].of = k[2] <=> RowOf(c, k[2])
             /\ contact'[c].knows = contact[c].knows
             /\ contact[c].optedOut => contact'[c].optedOut
  BY <1>2, <1>3 DEF RowOf, RowsStay
<1>6. RowsHold(k[2])
  BY <1>5 DEF RowsHold
<1>7. ASSUME m.event.text = "stop" \/ m.event.peer # k[2], NEW c \in Contacts,
             RowOf(c, k[2]), Fine(c)
      PROVE  contact'[c].stage \in {"opted_out", "contacted"}
  <2>1. CASE c = m.contact
    BY <1>2, <1>3, <1>4, <1>7, <2>1 DEF RowOf, Fine
  <2>2. CASE c # m.contact
    BY <1>3, <1>7, <2>2 DEF Fine
  <2>. QED
    BY <2>1, <2>2
<1>. QED
  BY <1>6, <1>7 DEF RowsKeep, m

\* The conversation that is answered exists afterwards; a stop leaves it opted out, or as
\* it is if the handler has found it opted out.
LEMMA AnsweredConversation ==
  ASSUME BaseInv, NEW w \in Workers, pc[w] = "commit", Answered(w)
  PROVE  /\ conversation'[Key(mem[w])].status # "absent"
         /\ mem[w].event.text = "stop" =>
                conversation'[Key(mem[w])].status =
                    IF ~mem[w].fresh /\ mem[w].found.status = "opted_out"
                    THEN conversation[Key(mem[w])].status ELSE "opted_out"
         /\ ~mem[w].fresh => Exists(Key(mem[w]))
<1>. DEFINE m == mem[w]
            j == Key(m)
<1>1. w \in Sessions /\ Sound(w)
  BY DEF Sessions, BaseInv
<1>2. m.found # NoConversation /\ ~m.gone
  BY <1>1 DEF Sound, SessionOk, Answered
<1>3. ~m.fresh => Exists(j)
  BY <1>1, <1>2 DEF Sound, SessionOk
<1>4. m.fresh => m.found.status = "new"
  BY <1>1 DEF Sound, SessionOk, NewConversation, NoConversation
<1>5. Answer(m) # "absent"
  BY DEF Answer
<1>6. m.event.text = "stop" => Moves(m) /\ Answer(m) = "opted_out"
  BY DEF Moves, Answer
<1>7. CASE m.fresh
  <2>1. conversation'[j].status = IF Moves(m) THEN Answer(m) ELSE m.found.status
    BY <1>7 DEF Answered
  <2>. HIDE DEF m, j
  <2>. QED
    BY <1>4, <1>5, <1>6, <1>7, <2>1 DEF m, j
<1>8. CASE ~m.fresh
  <2>1. conversation'[j].status = IF Moves(m) /\ Answer(m) # m.found.status
                                  THEN Answer(m) ELSE conversation[j].status
    BY <1>8 DEF Answered
  <2>. QED
    BY <1>3, <1>5, <1>6, <1>8, <2>1 DEF Exists
<1>. QED
  BY <1>7, <1>8

LEMMA AnsweredKeys ==
  ASSUME BaseInv, NEW w \in Workers, pc[w] = "commit", Answered(w), NEW k \in Keys
  PROVE  /\ \A j \in Keys : Exists(j) => conversation'[j].status # "absent"
         /\ k # Key(mem[w]) => KeysKeep(k)
<1>1. \A j \in Keys \ {Key(mem[w])} : conversation'[j] = conversation[j]
  BY DEF Answered
<1>2. conversation'[Key(mem[w])].status # "absent"
  BY AnsweredConversation
<1>. QED
  BY <1>1, <1>2 DEF KeysKeep, Exists

\* A worker that still has the stop of k to come may answer an older word of its peer:
\* everything is owed by that worker.
LEMMA AnswerBeforeStop ==
  ASSUME BaseInv, NEW w \in Workers, pc[w] = "commit", IsClosed(w), UNCHANGED queue,
         Answered(w), RowsStay, NEW k \in Keys, StopOk(k),
         mem[w].event.peer = k[2],
         mem[w].event.text = "hello" \/ (mem[w].event = StopOf(k) /\ Told(queue[w], k))
  PROVE  StopOk(k)'
<1>1. w \in Sessions /\ TypeOK /\ OthersRest(w) /\ pc'[w] = "idle"
  BY DEF Sessions, BaseInv, OptOutInv, IsClosed
<1>2. Key(mem[w]) \in Keys /\ Key(mem[w])[2] = k[2]
  BY <1>1, LoadedTypes
<1>3. stop'[k] # "none" => stop[k] # "none"
  BY <1>2 DEF Answered
<1>. SUFFICES ASSUME stop[k] # "none"
              PROVE  /\ \A v \in Workers : Caught(v, k)' /\ HandOk(v, k)'
                     /\ ConversationOk(k)' /\ OptOutOk(k)' /\ StageOk(k)'
  BY <1>3 DEF StopOk
<1>4. /\ \A v \in Workers : Caught(v, k) /\ HandOk(v, k)
      /\ ConversationOk(k) /\ OptOutOk(k) /\ StageOk(k)
  BY DEF StopOk
<1>5. Told(queue[w], k)
  BY <1>4 DEF Caught
<1>6. Told(queue[w], k)'
  BY <1>5
<1>7. \A v \in Workers \ {w} : pc'[v] = pc[v] /\ mem'[v] = mem[v]
  BY <1>1 DEF OthersRest, Sessions
<1>8. \A v \in Workers : Handling(v, k)' => v # w /\ Handling(v, k) /\ pc'[v] = pc[v] /\ mem'[v] = mem[v]
  BY <1>1, <1>7 DEF Handling
<1>9. RowsHold(k[2])
  BY AnsweredRows
<1>10. \A j \in Keys : Exists(j) => conversation'[j].status # "absent"
  BY AnsweredKeys
<1>11. conversation'[Key(mem[w])].status # "absent"
  BY AnsweredConversation
<1>12. ASSUME NEW v \in Workers
       PROVE  Caught(v, k)' /\ HandOk(v, k)'
  <2>1. Caught(v, k)'
    BY <1>1, <1>4, <1>7 DEF Caught
  <2>2. HandOk(v, k)'
    BY <1>4, <1>8, <1>9, HandKept
  <2>. QED
    BY <2>1, <2>2
<1>13. ConversationOk(k)'
  <2>1. StatusOwed(w, k)'
    BY <1>6 DEF StatusOwed
  <2>2. CASE Key(mem[w]) = k
    BY <1>11, <2>1, <2>2 DEF ConversationOk, Exists
  <2>3. CASE Key(mem[w]) # k
    <3>1. stop'[k] = stop[k]
      BY <2>3 DEF Answered
    <3>2. \A v \in Workers : Will(v, k)' => Will(v, k) /\ mem'[v] = mem[v]
      BY <1>8 DEF Will
    <3>. QED
      BY <1>4, <1>10, <2>1, <3>1, <3>2 DEF ConversationOk, Exists
  <2>. QED
    BY <2>2, <2>3
<1>14. OptOutOk(k)'
  BY <1>6 DEF OptOutOk, OptOwed
<1>15. StageOk(k)'
  <2>1. StageOwed(w, k)'
    BY <1>6 DEF StageOwed
  <2>2. CASE Key(mem[w]) = k
    BY <1>11, <2>1, <2>2 DEF StageOk, Exists
  <2>3. CASE Key(mem[w]) # k
    BY <1>2, <1>11, <2>3 DEF StageOk, OnlyOne, Exists
  <2>. QED
    BY <2>2, <2>3
<1>. QED
  BY <1>12, <1>13, <1>14, <1>15

\* The last stop is committed: what was not owed by another worker is written.
LEMMA AnswerLastStop ==
  ASSUME BaseInv, NEW w \in Workers, IsClosed(w), UNCHANGED queue, Answered(w), RowsStay,
         NEW k \in Keys, StopOk(k), Will(w, k)
  PROVE  StopOk(k)'
<1>. DEFINE m == mem[w]
<1>1. /\ w \in Sessions /\ TypeOK /\ OthersRest(w) /\ pc'[w] = "idle" /\ pc[w] = "commit"
      /\ Handling(w, k) /\ ~Told(queue[w], k)
  BY DEF Sessions, BaseInv, OptOutInv, IsClosed, Will, Handling
<1>2. Key(m) = k /\ m.event.text = "stop" /\ m.event.peer = k[2]
  BY <1>1 DEF Handling, StopOf, Key, Keys
<1>3. stop'[k] # "none" => stop[k] # "none"
  BY <1>2 DEF Answered
<1>. SUFFICES ASSUME stop[k] # "none"
              PROVE  /\ \A v \in Workers : Caught(v, k)' /\ HandOk(v, k)'
                     /\ ConversationOk(k)' /\ OptOutOk(k)' /\ StageOk(k)'
  BY <1>3 DEF StopOk
<1>4. /\ \A v \in Workers : Caught(v, k) /\ HandOk(v, k)
      /\ ConversationOk(k) /\ OptOutOk(k) /\ StageOk(k)
  BY DEF StopOk
<1>5. /\ IsMatch(k[2], m.contact) /\ ~m.gone
      /\ m.contact # NoContact /\ m.optedOut => contact[m.contact].optedOut
  BY <1>1, <1>4 DEF HandOk
<1>6. ASSUME NEW v \in Workers \ {w}
      PROVE  pc'[v] = pc[v] /\ mem'[v] = mem[v] /\ queue'[v] = queue[v]
  BY <1>1 DEF OthersRest, Sessions
<1>7. \A v \in Workers : Handling(v, k)' => v # w /\ Handling(v, k) /\ pc'[v] = pc[v] /\ mem'[v] = mem[v]
  BY <1>1, <1>6 DEF Handling
<1>8. \A v \in Workers \ {w} :
        /\ StatusOwed(v, k) => StatusOwed(v, k)'
        /\ StageOwed(v, k) => StageOwed(v, k)'
  BY <1>6 DEF StatusOwed, StageOwed, Will, Handling
<1>9. RowsHold(k[2]) /\ RowsKeep(k[2])
  BY <1>2, AnsweredRows
<1>10. \A c : IsMatch(k[2], c)' <=> IsMatch(k[2], c)
  BY <1>9, MatchesKept
<1>11. /\ conversation'[k].status # "absent"
       /\ conversation'[k].status = IF ~m.fresh /\ m.found.status = "opted_out"
                                    THEN conversation[k].status ELSE "opted_out"
  BY <1>1, <1>2, AnsweredConversation
<1>12. ASSUME NEW v \in Workers
       PROVE  Caught(v, k)' /\ HandOk(v, k)'
  <2>1. Caught(v, k)'
    BY <1>1, <1>4, <1>6 DEF Caught
  <2>2. HandOk(v, k)'
    BY <1>4, <1>7, <1>9, HandKept
  <2>. QED
    BY <2>1, <2>2
<1>13. ConversationOk(k)'
  <2>1. CASE ~m.fresh /\ m.found.status = "opted_out"
    <3>1. conversation[k].status = "opted_out" \/ \E v \in Workers : StatusOwed(v, k)
      BY <1>4, <2>1 DEF ConversationOk
    <3>2. ~StatusOwed(w, k)
      BY <1>1, <2>1 DEF StatusOwed
    <3>. QED
      BY <1>8, <1>11, <2>1, <3>1, <3>2 DEF ConversationOk, Exists
  <2>2. CASE ~(~m.fresh /\ m.found.status = "opted_out")
    BY <1>11, <2>2 DEF ConversationOk, Exists
  <2>. QED
    BY <2>1, <2>2
<1>14. ASSUME NEW c \in Contacts, IsMatch(k[2], c)
       PROVE  /\ m.contact = c /\ m.contact # NoContact /\ RowOf(c, k[2])
              /\ contact'[c].optedOut
              /\ contact'[c].stage = IF m.stage = "opted_out" THEN contact[c].stage ELSE "opted_out"
  <2>1. m.contact = c /\ m.contact # NoContact
    BY <1>5, <1>14, InboxAssumption DEF IsMatch
  <2>2. RowOf(c, k[2])
    BY <1>5, <2>1, MatchIsRow
  <2>3. Moves(m) /\ Answer(m) = "opted_out"
    BY <1>2 DEF Moves, Answer
  <2>4. /\ contact'[c].stage =
               IF Moves(m) /\ Answer(m) # m.stage THEN Answer(m) ELSE contact[c].stage
        /\ ~m.optedOut => contact'[c].optedOut
        /\ contact[c].optedOut => contact'[c].optedOut
    BY <1>2, <2>1 DEF Answered
  <2>. QED
    BY <1>5, <2>1, <2>2, <2>3, <2>4
<1>. HIDE DEF m
<1>15. OptOutOk(k)'
  BY <1>10, <1>14 DEF OptOutOk
<1>16. StageOk(k)'
  <2>. SUFFICES ASSUME OnlyOne(k)', NEW c \in Contacts, IsMatch(k[2], c)
                PROVE  Fine(c)' \/ \E v \in Workers : StageOwed(v, k)'
    BY <1>10, <1>11 DEF StageOk, Exists
  <2>1. OnlyOne(k)
    <3>1. \A j \in Keys \ {k} : conversation'[j] = conversation[j]
      BY <1>2 DEF Answered, m
    <3>. QED
      BY <3>1 DEF OnlyOne, Exists
  <2>2. CASE m.stage # "opted_out"
    BY <1>14, <2>2 DEF Fine
  <2>3. CASE m.stage = "opted_out"
    <3>1. Fine(c) \/ \E v \in Workers : StageOwed(v, k)
      BY <1>1, <1>4, <2>1, <2>3 DEF StageOk, m
    <3>2. ~StageOwed(w, k)
      BY <1>1, <2>3 DEF StageOwed, m
    <3>3. Fine(c) => Fine(c)'
      BY <1>14, <2>3 DEF Fine
    <3>. QED
      BY <1>8, <3>1, <3>2, <3>3
  <2>. QED
    BY <2>2, <2>3
<1>. QED
  BY <1>12, <1>13, <1>15, <1>16

LEMMA CommitIncomingStop ==
  ASSUME BaseInv, NEW w \in Workers, CommitIncoming(w), NEW k \in Keys, StopOk(k)
  PROVE  StopOk(k)'
<1>1. /\ w \in Sessions /\ TypeOK /\ pc[w] = "commit" /\ IsClosed(w)
      /\ OthersRest(w) /\ pc'[w] = "idle" /\ UNCHANGED queue
      /\ \/ mem[w].gone /\ UNCHANGED <<contact, conversation, stop>>
         \/ Answered(w)
      /\ RowsStay /\ mem[w].event \in Events
  BY CommitIncomingEffect, CommitIncomingBase, LoadedTypes
     DEF Sessions, BaseInv, OptOutInv, IsClosed
<1>2. \A v \in Workers \ {w} : WorkerKeep(v, k)
  BY <1>1, RestingWorkerKeeps DEF OthersRest, Sessions
<1>3. ~Will(w, k) => \A v \in Workers : WorkerKeep(v, k)
  BY <1>1, <1>2, ClosedWorkerKeeps
<1>4. CASE mem[w].gone /\ UNCHANGED <<contact, conversation, stop>>
  <2>1. CASE stop[k] = "none"
    BY <1>4, <2>1 DEF StopOk
  <2>2. CASE stop[k] # "none"
    <3>1. ~Will(w, k)
      BY <1>4, <2>2 DEF StopOk, HandOk, Will
    <3>. QED
      BY <1>3, <1>4, <3>1, SameDatabaseKeeps, FrameKeepsStop DEF Frame
  <2>. QED
    BY <2>1, <2>2
<1>5. CASE Answered(w) /\ Will(w, k)
  BY <1>1, <1>5, AnswerLastStop
<1>6. CASE /\ Answered(w) /\ mem[w].event.peer = k[2]
           /\ mem[w].event.text = "hello" \/ (mem[w].event = StopOf(k) /\ Told(queue[w], k))
  BY <1>1, <1>6, AnswerBeforeStop
<1>7. CASE /\ Answered(w) /\ ~Will(w, k)
           /\ mem[w].event.peer # k[2] \/ (mem[w].event.text = "stop" /\ mem[w].event # StopOf(k))
  <2>1. Key(mem[w]) \in Keys /\ k # Key(mem[w])
    <3>1. Key(mem[w]) = <<mem[w].event.account, mem[w].event.peer>>
      BY DEF Key
    <3>. QED
      BY <1>1, <1>7, <3>1, LoadedTypes DEF StopOf, Events
  <2>2. stop'[k] = stop[k]
    BY <1>7, <2>1 DEF Answered
  <2>. QED
    BY <1>1, <1>3, <1>7, <2>1, <2>2, AnsweredRows, AnsweredKeys, FrameKeepsStop DEF Frame
<1>8. mem[w].event.text \in {"hello", "stop"}
  BY <1>1 DEF Events
<1>9. mem[w].event = StopOf(k) => mem[w].event.peer = k[2] /\ (Told(queue[w], k) \/ Will(w, k))
  BY <1>1 DEF StopOf, Will, Handling
<1>. QED
  BY <1>1, <1>4, <1>5, <1>6, <1>7, <1>8, <1>9

LEMMA NextStop == BaseInv /\ [Next]_vars => \A k \in Keys : StopOk(k) => StopOk(k)'
<1>. SUFFICES ASSUME BaseInv, [Next]_vars, NEW k \in Keys, StopOk(k)
              PROVE  StopOk(k)'
  OBVIOUS
<1>1. stop'[k] = "none" \/ Frame(k) => StopOk(k)'
  BY FrameKeepsStop DEF StopOk
<1>2. CASE Others
  BY <1>1, <1>2, PublishStop, SetStatusEdits, DeleteEdits, ResolveEdits, EditFrame,
     LoadEffect, LoadFrame DEF Others
<1>3. ASSUME NEW s \in Sessions, SessionStep(s)
      PROVE  StopOk(k)'
  BY <1>1, <1>3, InsertStop, TakeStop, CommitIncomingStop, OutreachFrame, SaveFrame,
     CommitEditFrame, LoadEffect, LoadFrame DEF SessionStep
<1>4. CASE (\E s \in Sessions : Crash(s)) \/ (\E w \in Workers : Disconnect(w))
  BY <1>1, <1>4, FailureBase, FailureFrame DEF Sessions
<1>5. CASE UNCHANGED vars
  <2>1. UNCHANGED <<contact, conversation, pc, mem, queue, stop>>
    BY <1>5 DEF vars, database, sessions, channel
  <2>2. Frame(k)
    BY <2>1, SameDatabaseKeeps, RestingWorkerKeeps DEF Frame
  <2>. QED
    BY <1>1, <2>2
<1>. QED
  BY <1>2, <1>3, <1>4, <1>5 DEF Next

StopInv == BaseInv /\ \A k \in Keys : StopOk(k)

LEMMA StopInvHolds == StopInv => StopTakesHold
<1>. SUFFICES ASSUME StopInv, Quiet, NEW k \in Keys, stop[k] = "heard"
              PROVE  /\ conversation[k].status = "opted_out"
                     /\ \A c \in Contacts : IsMatch(k[2], c) =>
                           /\ contact[c].optedOut
                           /\ OnlyOne(k) => contact[c].stage \in {"opted_out", "contacted"}
  BY DEF StopTakesHold
<1>1. ASSUME NEW w \in Workers
      PROVE  ~OptOwed(w, k) /\ ~StatusOwed(w, k) /\ ~StageOwed(w, k)
  <2>1. pc[w] = "idle" /\ queue[w] = <<>>
    BY DEF Quiet, Sessions
  <2>2. ~Told(queue[w], k)
    BY <2>1, NothingTold
  <2>. QED
    BY <2>1, <2>2 DEF OptOwed, StatusOwed, StageOwed, Will
<1>2. ConversationOk(k) /\ OptOutOk(k) /\ StageOk(k)
  BY DEF StopInv, StopOk
<1>. QED
  BY <1>1, <1>2 DEF ConversationOk, OptOutOk, StageOk, Fine

\* However many workers handle a stop and the messages before it, at whatever speeds, and
\* whatever ticks, agents' requests, managers' edits, crashes and broken connections come
\* between: when all is quiet, a stop that has been committed is what the database says.
THEOREM StopHolds == Spec => []StopTakesHold
<1>1. Init => StopInv
  <2>1. Init => \A k \in Keys : stop[k] = "none"
    BY DEF Init, Keys
  <2>. QED
    BY <2>1, InitBase DEF StopInv, StopOk
<1>2. StopInv /\ [Next]_vars => StopInv'
  BY NextBase, NextStop DEF StopInv
<1>. QED
  BY <1>1, <1>2, StopInvHolds, PTL DEF Spec
=============================================================================
