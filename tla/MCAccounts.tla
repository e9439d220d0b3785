----------------------------- MODULE MCAccounts -----------------------------
(***************************************************************************)
(* Small instances of Accounts: what may be done to which account.         *)
(***************************************************************************)
EXTENDS Accounts, TLC

CONSTANTS a1, a2

Only(a, ops) == [b \in Accounts |-> IF b = a THEN ops ELSE {}]

\* One account is logged in and out, or two compete for the proxies, one of them logged in.
LoginsAndProxies ==
    {Only(a1, Operations \ {"edit", "delete", "override", "reconnect"}),
     [a \in Accounts |-> {"create", "edit", "delete"} \cup
          (IF a = a1 THEN {"import", "reconnect", "override"} ELSE {})]}

Editing == {Only(a1, {"create", "edit", "qr", "poll", "check"})}

AccountsSymmetry == Permutations(Requests)
=============================================================================
