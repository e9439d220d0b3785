----------------------------- MODULE ContactBook -----------------------------
(***************************************************************************)
(* The table of contacts (backend/app/services/contacts.py, api/contacts.py *)
(* and the saving of a peer in services/inbox.py): who is in it under which  *)
(* phone number and username, and whose Telegram id is known.  No constraint *)
(* of the database backs the rules: a request checks, or asks the engine,    *)
(* and commits later.                                                      *)
(*                                                                         *)
(* Consent, opting out and stages are in Inbox, Sender and Campaigns; names,  *)
(* notes, tags, assignment and the lists are left out.                      *)
(***************************************************************************)
EXTENDS Naturals, FiniteSets, Sequences, FiniteSetsExt

CONSTANTS
    CbRows,             \* 1..n, room for the rows of the table
    CbPhones, CbUsernames,
    CbNone,             \* NULL
    CbFiles,            \* the files imported: sequences of lines with consent
    CbRequests,
    CbMaxRequests       \* bound on the requests started

CbNames == CbPhones \cup CbUsernames
CbLines == [phone : CbPhones \cup {CbNone}, username : CbUsernames \cup {CbNone}]
CbNobody == [phone |-> CbNone, username |-> CbNone]

ASSUME ContactBookAssumption ==
    /\ CbNone \notin CbNames /\ CbPhones \cap CbUsernames = {}
    /\ IsFiniteSet(CbRows) /\ CbRows = 1..Cardinality(CbRows)
    /\ CbMaxRequests \in Nat
    /\ CbFiles \subseteq Seq(CbLines \ {CbNobody})

VARIABLES
    cbRow,              \* contacts: phone and username
    cbFound,            \* telegram_user_id is set
    cbStatus,           \* resolution_status; "none" if there is no such row
    cbUsed,             \* the rows that exist or have existed
    cbPc, cbMem,
    cbRaced,            \* an observer's: names that two requests had in hand at once
    cbUnited,           \* an observer's: names that an import took from one row for another
    cbShared,           \* an observer's: rows that two requests had in hand at once
    cbRequests

cbTable == <<cbRow, cbFound, cbStatus, cbUsed>>
cbSessions == <<cbPc, cbMem>>
cbObserved == <<cbRaced, cbUnited, cbShared>>
cbVars == <<cbTable, cbSessions, cbObserved, cbRequests>>

CbStatuses == {"pending", "resolved", "no_telegram", "failed"}

\* The row a request is about and what it has loaded; what it is going to write.
CbMemory ==
    [row : {0} \cup CbRows, new : CbLines, found : BOOLEAN, status : CbStatuses,
     table : [CbRows -> CbLines], file : {<<>>} \cup CbFiles]

CbForgotten ==
    [row |-> 0, new |-> CbNobody, found |-> FALSE, status |-> "pending",
     table |-> [c \in CbRows |-> CbNobody], file |-> <<>>]

CbTypeOK ==
    /\ cbRow \in [CbRows -> CbLines]
    /\ cbFound \in [CbRows -> BOOLEAN]
    /\ cbStatus \in [CbRows -> CbStatuses \cup {"none"}]
    /\ cbUsed \subseteq CbRows
    /\ cbPc \in [CbRequests -> {"idle", "create", "edit", "save", "import", "resolve", "unresolve"}]
    /\ cbMem \in [CbRequests -> CbMemory]
    /\ cbRaced \subseteq CbNames
    /\ cbUnited \subseteq CbNames
    /\ cbShared \subseteq CbRows

CbInit ==
    /\ cbRow = [c \in CbRows |-> CbNobody]
    /\ cbFound = [c \in CbRows |-> FALSE]
    /\ cbStatus = [c \in CbRows |-> "none"]
    /\ cbUsed = {}
    /\ cbPc = [r \in CbRequests |-> "idle"]
    /\ cbMem = [r \in CbRequests |-> CbForgotten]
    /\ cbRaced = {}
    /\ cbUnited = {}
    /\ cbShared = {}
    /\ cbRequests = 0

-----------------------------------------------------------------------------

CbExists(c) == cbStatus[c] # "none"
CbFree == CbRows \ cbUsed

NamesIn(line) == {line.phone, line.username} \ {CbNone}
NamesOf(mem) == NamesIn(mem.new) \cup UNION {NamesIn(mem.file[i]) : i \in DOMAIN mem.file}

CbHolders(table, name) == {c \in CbRows : name \in NamesIn(table[c])}

CbTo(r, step, mem) ==
    /\ cbPc' = [cbPc EXCEPT ![r] = step]
    /\ cbMem' = [cbMem EXCEPT ![r] = mem]

CbClose(r) == CbTo(r, "idle", CbForgotten)

\* A request is begun; what others have in their hands as well is noted.
CbStart(r, step, mem) ==
    LET others == {q \in CbRequests \ {r} : cbPc[q] # "idle"} IN
    /\ cbPc[r] = "idle"
    /\ cbRequests < CbMaxRequests
    /\ cbRequests' = cbRequests + 1
    /\ CbTo(r, step, mem)
    /\ cbRaced' = cbRaced \cup UNION {NamesOf(mem) \cap NamesOf(cbMem[q]) : q \in others}
    /\ cbShared' = cbShared \cup {c \in CbRows : c = mem.row /\ \E q \in others : cbMem[q].row = c}

CbLoaded(c) ==
    [row |-> c, new |-> CbNobody, found |-> cbFound[c], status |-> cbStatus[c],
     table |-> cbRow, file |-> <<>>]

-----------------------------------------------------------------------------
(* Rows made and edited by hand.                                            *)

\* Mutant: only the first name given is looked up.
CbConflict_PhoneOnly(line, except) ==
    LET name == IF line.phone # CbNone THEN line.phone ELSE line.username IN
    CbHolders(cbRow, name) \ except # {}

\* find_conflict
CbConflict(line, except) == \E name \in NamesIn(line) : CbHolders(cbRow, name) \ except # {}

\* create_contact.  A number without digits is no number, so the line may be empty after all.
CbBeginCreate(r, line) ==
    /\ ~CbConflict(line, {})
    /\ CbStart(r, "create", [CbForgotten EXCEPT !.new = line])
    /\ UNCHANGED <<cbTable, cbUnited>>

CbInsert(row, found) ==
    LET c == Min(CbFree) IN
    /\ cbRow' = [cbRow EXCEPT ![c] = row]
    /\ cbFound' = [cbFound EXCEPT ![c] = found]
    /\ cbStatus' = [cbStatus EXCEPT ![c] = IF found THEN "resolved" ELSE "pending"]
    /\ cbUsed' = cbUsed \cup {c}

CbCreate(r) ==
    /\ cbPc[r] = "create"
    /\ CbFree # {}
    /\ CbInsert(cbMem[r].new, FALSE)
    /\ CbClose(r)
    /\ UNCHANGED <<cbObserved, cbRequests>>

\* edit_contact: a field may be cleared as long as the other one remains.
CbMayBecome(line) == line # CbNobody

\* Of the fields given those that stay as they are can only raise a conflict.
CbBeginEdit(r, c, line) ==
    /\ CbExists(c)
    /\ CbMayBecome(line)
    /\ ~CbConflict([phone |-> IF line.phone = cbRow[c].phone THEN CbNone ELSE line.phone,
                    username |-> IF line.username = cbRow[c].username THEN CbNone ELSE line.username],
                   {c})
    /\ CbStart(r, "edit", [CbLoaded(c) EXCEPT !.new = line])
    /\ UNCHANGED <<cbTable, cbUnited>>

\* A column is written if its value differs from the one loaded.
CbWritten(new, loaded, current) ==
    [phone |-> IF new.phone = loaded.phone THEN current.phone ELSE new.phone,
     username |-> IF new.username = loaded.username THEN current.username ELSE new.username]

\* The same for telegram_user_id and resolution_status; the update of a row that is gone fails.
CbResolution(m, found, status) ==
    IF CbExists(m.row)
    THEN /\ cbFound' = [cbFound EXCEPT ![m.row] = IF found = m.found THEN @ ELSE found]
         /\ cbStatus' = [cbStatus EXCEPT ![m.row] = IF status = m.status THEN @ ELSE status]
    ELSE UNCHANGED <<cbFound, cbStatus>>

\* The names given replace those of a row.
CbOver(line, row) ==
    [phone |-> IF line.phone # CbNone THEN line.phone ELSE row.phone,
     username |-> IF line.username # CbNone THEN line.username ELSE row.username]

CbEdit(r) ==
    LET m == cbMem[r] IN
    /\ cbPc[r] = "edit"
    /\ cbRow' = IF CbExists(m.row)
                THEN [cbRow EXCEPT ![m.row] = CbWritten(m.new, m.table[m.row], @)] ELSE cbRow
    /\ CbClose(r)
    /\ UNCHANGED <<cbFound, cbStatus, cbUsed, cbObserved, cbRequests>>

\* save_peer_as_contact: the row of a name that was typed, else of the peer, whose name it
\* may have or whose id; a new row if there is none.
CbBeginSave(r, c, line) ==
    LET typed == UNION {CbHolders(cbRow, name) : name \in NamesIn(line)} IN
    /\ IF typed # {} THEN c \in typed ELSE c \in {0} \cup {d \in CbRows : CbExists(d)}
    /\ ~CbConflict(line, {c})
    /\ CbStart(r, "save", IF c = 0 THEN [CbForgotten EXCEPT !.new = line]
                          ELSE [CbLoaded(c) EXCEPT !.new = CbOver(line, cbRow[c])])
    /\ UNCHANGED <<cbTable, cbUnited>>

\* The Telegram id is the peer's, if the conversation has it.
CbSave(r, peer) ==
    LET m == cbMem[r] IN
    /\ cbPc[r] = "save"
    /\ IF m.row = 0 THEN CbFree # {} /\ CbInsert(m.new, peer)
       ELSE IF CbExists(m.row)
       THEN /\ cbRow' = [cbRow EXCEPT ![m.row] = CbWritten(m.new, m.table[m.row], @)]
            /\ IF peer /\ ~m.found THEN CbResolution(m, TRUE, "resolved")
               ELSE UNCHANGED <<cbFound, cbStatus>>
            /\ UNCHANGED cbUsed
       ELSE UNCHANGED cbTable
    /\ CbClose(r)
    /\ UNCHANGED <<cbObserved, cbRequests>>

CbDelete(c) ==
    /\ CbExists(c)
    /\ cbRequests < CbMaxRequests
    /\ cbRequests' = cbRequests + 1
    /\ cbRow' = [cbRow EXCEPT ![c] = CbNobody]
    /\ cbFound' = [cbFound EXCEPT ![c] = FALSE]
    /\ cbStatus' = [cbStatus EXCEPT ![c] = "none"]
    /\ UNCHANGED <<cbUsed, cbSessions, cbObserved>>

-----------------------------------------------------------------------------
(* Import (import_contacts).                                                *)

\* Two dictionaries find the row of a name.  A row keeps the names it has had in them, and
\* of two rows with one name the last one loaded is found.
CbDictionary(table) ==
    [name \in CbNames |->
        IF CbHolders(table, name) = {} THEN 0 ELSE Max(CbHolders(table, name))]

CbMatch(by, line) ==
    IF line.phone # CbNone /\ by[line.phone] # 0 THEN by[line.phone]
    ELSE IF line.username # CbNone THEN by[line.username] ELSE 0

\* One line: the names it gives are put into the row found, or into a new one.  Taken are
\* the names of it that another row has.
CbImportLine(w, line) ==
    LET match == CbMatch(w.by, line)
        c == IF match # 0 THEN match ELSE Min(w.free)
        row == CbOver(line, w.table[c])
    IN  [table |-> [w.table EXCEPT ![c] = row],
         by |-> [name \in CbNames |-> IF name \in NamesIn(row) THEN c ELSE w.by[name]],
         free |-> w.free \ {c},
         taken |-> w.taken \cup {name \in NamesIn(line) :
                                    match # 0 /\ CbHolders(w.table, name) \ {c} # {}}]

CbImported(table, free, file) ==
    LET work[n \in 0..Len(file)] ==
            IF n = 0 THEN [table |-> table, by |-> CbDictionary(table), free |-> free, taken |-> {}]
            ELSE CbImportLine(work[n - 1], file[n])
    IN  work[Len(file)]

\* The whole table is loaded.
CbBeginImport(r, file) ==
    /\ Cardinality(CbFree) >= Len(file)
    /\ CbStart(r, "import", [row |-> 0, new |-> CbNobody, found |-> FALSE, status |-> "pending",
                             table |-> cbRow, file |-> file])
    /\ UNCHANGED <<cbTable, cbUnited>>

\* One commit for all lines; it fails if a row that it writes is gone.
CbImport(r) ==
    LET m == cbMem[r]
        done == CbImported(m.table, CbFree, m.file)
        new == done.table
        changed == {c \in CbRows : new[c] # m.table[c]}
    IN  /\ cbPc[r] = "import"
        /\ Cardinality(CbFree) >= Len(m.file)
        /\ IF \A c \in changed \ CbFree : CbExists(c)
           THEN /\ cbRow' = [c \in CbRows |-> CbWritten(new[c], m.table[c], cbRow[c])]
                /\ cbStatus' = [c \in CbRows |-> IF c \in changed \cap CbFree THEN "pending" ELSE cbStatus[c]]
                /\ cbUsed' = cbUsed \cup changed
                /\ cbUnited' = cbUnited \cup done.taken
           ELSE UNCHANGED <<cbRow, cbStatus, cbUsed, cbUnited>>
        /\ CbClose(r)
        /\ UNCHANGED <<cbFound, cbRaced, cbShared, cbRequests>>

-----------------------------------------------------------------------------
(* Finding out who has the number or the name.                              *)

CbBeginResolve(r, c) ==
    /\ CbExists(c)
    /\ CbStart(r, "resolve", CbLoaded(c))
    /\ UNCHANGED <<cbTable, cbUnited>>

\* resolve_contact: the engine's answer is written, but a row without a name just fails.
CbAnswered(m, status) ==
    IF NamesIn(m.table[m.row]) = {} THEN CbResolution(m, m.found, "failed")
    ELSE CbResolution(m, status = "resolved", status)

\* The engine may also be out of reach: nothing is written.
CbResolve(r, status) ==
    /\ cbPc[r] = "resolve"
    /\ CbAnswered(cbMem[r], status) \/ UNCHANGED <<cbFound, cbStatus>>
    /\ CbClose(r)
    /\ UNCHANGED <<cbRow, cbUsed, cbObserved, cbRequests>>

CbBeginUnresolve(r, c) ==
    /\ CbExists(c)
    /\ CbStart(r, "unresolve", CbLoaded(c))
    /\ UNCHANGED <<cbTable, cbUnited>>

CbUnresolved(m) == CbResolution(m, FALSE, "pending")

\* bulk_unresolve
CbUnresolve(r) ==
    /\ cbPc[r] = "unresolve"
    /\ CbUnresolved(cbMem[r])
    /\ CbClose(r)
    /\ UNCHANGED <<cbRow, cbUsed, cbObserved, cbRequests>>

CbNext ==
    \/ \E r \in CbRequests :
          \/ \E line \in CbLines : CbBeginCreate(r, line)
          \/ \E c \in CbRows, line \in CbLines : CbBeginEdit(r, c, line)
          \/ \E c \in {0} \cup CbRows, line \in CbLines : CbBeginSave(r, c, line)
          \/ \E file \in CbFiles : CbBeginImport(r, file)
          \/ \E c \in CbRows : CbBeginResolve(r, c) \/ CbBeginUnresolve(r, c)
          \/ CbCreate(r) \/ CbEdit(r) \/ CbImport(r) \/ CbUnresolve(r)
          \/ \E peer \in BOOLEAN : CbSave(r, peer)
          \/ \E status \in {"resolved", "no_telegram", "failed"} : CbResolve(r, status)
    \/ \E c \in CbRows : CbDelete(c)

CbSpec == CbInit /\ [][CbNext]_cbVars

-----------------------------------------------------------------------------
(* Properties.                                                              *)

\* "phone & username are unique" (services/contacts.py:342), as far as the checks can see
\* to it: except for names that two requests had in hand at once, and those that a line of
\* an import gave to the row found by its other name.
NamesAreUnique ==
    \A name \in CbNames \ (cbRaced \cup cbUnited) : Cardinality(CbHolders(cbRow, name)) <= 1

\* A contact that counts as resolved has a Telegram id, and one that has an id counts as
\* resolved or has failed since, unless two requests had it in hand at once: each writes
\* only the columns that differ from those it loaded.
ResolvedHasId ==
    \A c \in CbRows \ cbShared :
        /\ cbStatus[c] = "resolved" => cbFound[c]
        /\ cbFound[c] => cbStatus[c] \in {"resolved", "failed"}

\* A contact is who its names and its Telegram id say it is.
ContactBookHolds == NamesAreUnique /\ ResolvedHasId
=============================================================================
