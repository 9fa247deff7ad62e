------------------------------ MODULE Accounts ------------------------------
(***************************************************************************)
(* The people of a tenant and those who administer them: routes/user,      *)
(* AccountGateway and rbac.                                                *)
(*                                                                         *)
(* A request has the record of its caller as it was when the request was   *)
(* authenticated, and decides by it whatever becomes of the caller.  No    *)
(* lock keeps the two reads of the person and the write together.          *)
(*                                                                         *)
(* Abstractions: one tenant, as others are answered with 404; what a       *)
(* person may change of their own (name, password) is left out; an address *)
(* belongs to one person, so that a create finds its place taken or not.   *)
(***************************************************************************)
EXTENDS Naturals

CONSTANTS
  Clerk,        \* requests in flight together
  Person,       \* people, by their address
  AccountWork,  \* the requests people may send
  Nobody        \* no record

Role == {"owner", "admin", "member", "guest"}
Standing == {"active", "inactive", "suspended", "pending"}

Account == [role : Role, status : Standing, deleted : BOOLEAN]

\* "same" is a field the request leaves out.
AccountRequest ==
  [op : {"create", "update", "delete"}, person : Person,
   role : Role \cup {"same"}, status : Standing \cup {"same"}]

ASSUME AccountsAssumption ==
  /\ AccountWork \subseteq AccountRequest
  /\ Nobody \notin Account /\ Nobody \notin AccountRequest

VARIABLES
  account,   \* the users rows
  errand,    \* the request of each clerk, ...
  caller,    \* ... the record of who sent it, ...
  place      \* ... and where it is

accountVars == <<account, errand, caller, place>>

AccountsTypeOK ==
  /\ account \in [Person -> Account \cup {Nobody}]
  /\ errand \in [Clerk -> AccountRequest \cup {Nobody}]
  /\ caller \in [Clerk -> Account \cup {Nobody}]
  /\ place \in [Clerk -> {"idle", "find", "refind", "write"}]

AccountsInit ==
  /\ account \in [Person -> Account \cup {Nobody}]
  /\ errand = [c \in Clerk |-> Nobody]
  /\ caller = [c \in Clerk |-> Nobody]
  /\ place = [c \in Clerk |-> "idle"]

-----------------------------------------------------------------------------
\* _ROLE_HIERARCHY: the lower the higher.
Rank(role) ==
  IF role = "owner" THEN 0 ELSE IF role = "admin" THEN 1 ELSE IF role = "member" THEN 2 ELSE 3

\* Mutant of Outranks: an equal will do.
OutranksEqual(role, other) == Rank(role) <= Rank(other)

\* Who has role may manage who has other.
Outranks(role, other) == Rank(role) < Rank(other)

\* enforce_account_access
Admitted(a) == a # Nobody /\ ~a.deleted /\ a.status = "active"

\* The roles that administer people.
Administers(role) == role \in {"owner", "admin"}

\* The new role a request names, if any, is below its caller's.
Grants(role, r) ==
  IF r.op = "create" THEN r.role # "same" /\ r.status = "same" /\ Outranks(role, r.role)
  ELSE r.role # "same" => Outranks(role, r.role)

Turn(c, next) ==
  /\ place' = [place EXCEPT ![c] = next]
  /\ UNCHANGED <<account, errand, caller>>

\* The caller is authenticated and may do what is asked.
Authenticate(c, p, r) ==
  /\ place[c] = "idle"
  /\ Admitted(account[p]) /\ Administers(account[p].role)
  /\ Grants(account[p].role, r)
  /\ errand' = [errand EXCEPT ![c] = r]
  /\ caller' = [caller EXCEPT ![c] = account[p]]
  /\ place' = [place EXCEPT ![c] = IF r.op = "create" THEN "write" ELSE "find"]
  /\ UNCHANGED account

\* A request ends, answered or not.
End(c) ==
  /\ errand' = [errand EXCEPT ![c] = Nobody]
  /\ caller' = [caller EXCEPT ![c] = Nobody]
  /\ place' = [place EXCEPT ![c] = "idle"]

Manageable(c) ==
  LET a == account[errand[c].person] IN a # Nobody /\ Outranks(caller[c].role, a.role)

\* The route reads the person, deleted or not, ...
FindPerson(c) == place[c] = "find" /\ Manageable(c) /\ Turn(c, "refind")

\* ... and the gateway does so again.
FindAgain(c) == place[c] = "refind" /\ Manageable(c) /\ Turn(c, "write")

Given(field, old) == IF field = "same" THEN old ELSE field

\* The record after the write.
Amended(a, r) ==
  IF r.op = "create" THEN [role |-> r.role, status |-> "active", deleted |-> FALSE]
  ELSE IF r.op = "delete" THEN [role |-> a.role, status |-> "inactive", deleted |-> TRUE]
  ELSE [role |-> Given(r.role, a.role), status |-> Given(r.status, a.status), deleted |-> a.deleted]

WriteAccount(c) ==
  LET r == errand[c] IN
  /\ place[c] = "write"
  /\ (r.op = "create") = (account[r.person] = Nobody)
  /\ account' = [account EXCEPT ![r.person] = Amended(@, r)]
  /\ End(c)

\* 403, 404, an address that is taken, or a call that failed.
GiveUp(c) == place[c] # "idle" /\ End(c) /\ UNCHANGED account

AccountsNext ==
  \E c \in Clerk :
    \/ \E p \in Person, r \in AccountWork : Authenticate(c, p, r)
    \/ FindPerson(c) \/ FindAgain(c) \/ WriteAccount(c) \/ GiveUp(c)

AccountsSpec == AccountsInit /\ [][AccountsNext]_accountVars

-----------------------------------------------------------------------------
\* "No one can assign the owner role (not even another owner)", and nobody can
\* "manage an equal or higher role": the owners stay who and what they are,
\* although requests decide by what their callers and their targets were.
OwnersAreFixed ==
  [][\A p \in Person :
       \/ account'[p] = account[p]
       \/ /\ account'[p].role # "owner"
          /\ account[p] = Nobody \/ account[p].role # "owner"]_accountVars
=============================================================================
