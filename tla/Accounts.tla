------------------------------ MODULE Accounts ------------------------------
(***************************************************************************)
(* Users, their passwords and their login sessions.  A login verifies the  *)
(* password in one transaction and opens a session in a second one.  Every *)
(* other request is first admitted: require_user reads the user and the    *)
(* session, and the endpoint then acts in transactions of its own, on what *)
(* may have changed since.  The change and the reset of a password lock    *)
(* the user row, read the active sessions and revoke them.                 *)
(*                                                                         *)
(* Passwords are numbered: the n-th password of a user is n.  Hashes and   *)
(* tokens are left out: a request has the session that its token names.    *)
(***************************************************************************)
EXTENDS Integers, Sequences

CONSTANTS
  Users,         \* login names
  MaxPasswords,  \* bound on the passwords a user ever has
  MaxSessions,   \* bound on the sessions there ever are
  Threads,       \* API threads and command line processes
  None           \* no request

VARIABLES
  password,  \* password[u]: the current one, 0 before the user is created
  sessions,  \* auth_session rows, in order of creation
  work       \* work[t]: the request that t is serving

vars == <<password, sessions, work>>

\* "opened" is the password that the login has verified.  "late" is history: the
\* row was inserted after that password was changed, or while it was.
Session ==
  [user : Users, status : {"active", "revoked"}, expired : BOOLEAN,
   opened : 1..MaxPasswords, late : BOOLEAN]

TypeOK ==
  /\ password \in [Users -> 0..MaxPasswords]
  /\ sessions \in Seq(Session)
  /\ Len(sessions) <= MaxSessions
  /\ DOMAIN work = Threads

Init ==
  /\ password = [u \in Users |-> 0]
  /\ sessions = <<>>
  /\ work = [t \in Threads |-> None]

Rows == DOMAIN sessions

Serves(t, op) == work[t] # None /\ work[t].op = op

Take(t, request) ==
  /\ work[t] = None
  /\ work' = [work EXCEPT ![t] = request]

Done(t) == work' = [work EXCEPT ![t] = None]

\* The first administrator is created by the command line, other users are
\* there from the start; either way with a first password.
CreateUser(u) ==
  /\ password[u] = 0
  /\ password' = [password EXCEPT ![u] = 1]
  /\ UNCHANGED <<sessions, work>>

-----------------------------------------------------------------------------
(* Login and admission.                                                    *)

\* A login with any other password than the current one is refused.
Authenticate(t, u) ==
  /\ password[u] > 0
  /\ Take(t, [op |-> "login", user |-> u, verified |-> password[u]])
  /\ UNCHANGED <<password, sessions>>

Changing(u) == \E t \in Threads : Serves(t, "change") /\ work[t].user = u

OpenSession(t) ==
  /\ Serves(t, "login")
  /\ Len(sessions) < MaxSessions
  /\ LET x == work[t] IN
       sessions' = Append(sessions,
         [user |-> x.user, status |-> "active", expired |-> FALSE, opened |-> x.verified,
          late |-> Changing(x.user) \/ password[x.user] # x.verified])
  /\ Done(t)
  /\ UNCHANGED password

Expire(i) ==
  /\ ~sessions[i].expired
  /\ sessions' = [sessions EXCEPT ![i].expired = TRUE]
  /\ UNCHANGED <<password, work>>

Valid(i) == sessions[i].status = "active" /\ ~sessions[i].expired

\* Users are never disabled, so that reading the user first changes nothing.
Admit(t, i) ==
  /\ Valid(i)
  /\ Take(t, [op |-> "admitted", session |-> i, user |-> sessions[i].user])
  /\ UNCHANGED <<password, sessions>>

-----------------------------------------------------------------------------
(* What an admitted request may do.                                        *)

Revoked(i) == [sessions[i] EXCEPT !.status = "revoked"]

\* A session that is no longer active is left as it is.
Logout(t) ==
  /\ Serves(t, "admitted")
  /\ sessions' = [sessions EXCEPT ![work[t].session] = Revoked(work[t].session)]
  /\ Done(t)
  /\ UNCHANGED password

\* Mutant of ActiveSessions: those opened with the current password are left out.
OfEarlierPasswords(u) ==
  {i \in Rows : sessions[i].user = u /\ sessions[i].status = "active"
                /\ sessions[i].opened < password[u]}

ActiveSessions(u) ==
  {i \in Rows : sessions[i].user = u /\ sessions[i].status = "active"}

\* Mutant of Locked: the user row is read without FOR UPDATE.
NeverLocked(u) == FALSE

Locked(u) == Changing(u)

\* The row is read under its lock; the request names the current password.
LockUser(t, u) ==
  /\ ~Locked(u)
  /\ password[u] \in 1..(MaxPasswords - 1)
  /\ work' = [work EXCEPT ![t] =
       [op |-> "change", user |-> u, verified |-> password[u], active |-> ActiveSessions(u)]]
  /\ UNCHANGED <<password, sessions>>

BeginChange(t) ==
  /\ Serves(t, "admitted")
  /\ LockUser(t, work[t].user)

\* The reset from the command line verifies nothing.
BeginReset(t, u) ==
  /\ work[t] = None
  /\ LockUser(t, u)

\* The new password is written, and the sessions that were read are revoked.
CommitChange(t) ==
  /\ Serves(t, "change")
  /\ password' = [password EXCEPT ![work[t].user] = @ + 1]
  /\ sessions' = [i \in Rows |-> IF i \in work[t].active THEN Revoked(i) ELSE sessions[i]]
  /\ Done(t)

\* A wrong password, another endpoint, an error or a crash: nothing is written.
GiveUp(t) ==
  /\ work[t] # None
  /\ Done(t)
  /\ UNCHANGED <<password, sessions>>

-----------------------------------------------------------------------------

Next ==
  \/ \E u \in Users : CreateUser(u)
  \/ \E i \in Rows : Expire(i)
  \/ \E t \in Threads :
       \/ OpenSession(t)
       \/ Logout(t)
       \/ BeginChange(t)
       \/ CommitChange(t)
       \/ GiveUp(t)
       \/ \E u \in Users : Authenticate(t, u) \/ BeginReset(t, u)
       \/ \E i \in Rows : Admit(t, i)

Spec == Init /\ [][Next]_vars

-----------------------------------------------------------------------------
(* Properties.                                                             *)

\* Two changes of one password never both succeed on what they have verified:
\* each replaces the password that its request named.
ChangesInTurn ==
  [][\A t \in Threads :
       LET u == work[t].user IN
       Serves(t, "change") /\ password'[u] # password[u] => password[u] = work[t].verified]_vars

\* A change of the password revokes every session of the user: what is active
\* afterwards was opened with the new one, or by a login that had verified the
\* old one before and inserted its row only then.
ChangeEndsSessions ==
  \A i \in Rows :
    sessions[i].status = "active" /\ sessions[i].opened < password[sessions[i].user]
      => sessions[i].late

\* After a change no session of an earlier password is active, which a login
\* that overlaps with the change refutes.
OnlyCurrentSessions ==
  \A i \in Rows :
    sessions[i].status = "active" => sessions[i].opened = password[sessions[i].user]
=============================================================================
