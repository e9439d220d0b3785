------------------------------ MODULE MCInbox ------------------------------
(***************************************************************************)
(* Small instances of Inbox: the contact tables to start from, and the edits *)
(* of a contact.                                                            *)
(***************************************************************************)
EXTENDS Inbox, TLC

CONSTANTS a1, p1, c1, c2

Row(knows, stage) ==
    [of |-> p1, knows |-> knows, consent |-> TRUE, optedOut |-> FALSE, stage |-> stage]

Table(knows1, knows2) ==
    [c \in Contacts |-> LET knows == IF c = c1 THEN knows1 ELSE knows2 IN
                        Row(knows, IF knows = {} THEN "absent" ELSE "new")]

\* One contact imported by its phone number; by its username; and one person in two
\* rows, as a save without the imported number leaves it.
ByPhone == {Table({"phone"}, {})}
Imported == ByPhone \cup {Table({"username"}, {}), Table({"phone"}, {"id"})}

\* A PATCH that takes an opt-out back, one that sets the consent and one that sets the
\* stage; the bulk requests that record consent and that opt contacts out.
ContactEdits ==
    {[NoChange EXCEPT !.optedOut = "no"],
     [NoChange EXCEPT !.consent = "no"],
     [NoChange EXCEPT !.stage = "replied"],
     [NoChange EXCEPT !.consent = "yes", !.optedOut = "no"],
     [NoChange EXCEPT !.stage = "opted_out", !.optedOut = "yes"]}
=============================================================================
