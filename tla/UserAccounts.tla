---------------------------- MODULE UserAccounts ----------------------------
(***************************************************************************)
(* The local users of the Control Plane: a dictionary in memory and the    *)
(* users file that a restart reads.  Every change replaces an entry of the *)
(* dictionary and then saves all of them: to a temporary file, one for all *)
(* handlers, which is then renamed.  The process may die at every step, a  *)
(* write may fail, and the first start creates the file.                   *)
(*                                                                         *)
(* A handler that has the temporary file open goes on writing to the same  *)
(* file when another handler renames it; who writes over the content of    *)
(* somebody else may leave a mixture.  The flag that asks for a change of  *)
(* the password is saved with the password and stands for itself in it.    *)
(***************************************************************************)
EXTENDS Naturals

CONSTANTS
  User,       \* user names, among them admin
  Admin,      \* the user that the first start creates
  Password,   \* what a password may hash to
  Scribe      \* handler threads of the Control Plane

ASSUME AccountsAssumption == Admin \in User

VARIABLES
  users,       \* the dictionary
  usersFile,   \* content of the users file
  tempFile,    \* content of the temporary file
  process,     \* what the process is doing
  request,     \* what each handler is doing
  answered,    \* the users at the last answer that reported success
  crowded      \* two requests of this process have been under way at a time

accountVars ==
  <<users, usersFile, tempFile, process, request, answered, crowded>>

-----------------------------------------------------------------------------
Role == {"viewer", "admin"}
Account == [role : Role, password : Password]
NoAccount == [role |-> "none"]
Users == [User -> Account \union {NoAccount}]
(* A file is missing, torn (truncated, or a mixture of writes), or whole.  *)
NoFile == [state |-> "missing"]
Torn == [state |-> "torn"]
Whole(list) == [state |-> "whole", list |-> list]
Readable(file) == file.state = "whole"
Waiting == [at |-> "waiting"]

AccountsInit ==
  /\ users = [u \in User |-> NoAccount]
  /\ usersFile = NoFile /\ tempFile = NoFile
  /\ process = "down"
  /\ request = [h \in Scribe |-> Waiting]
  /\ answered = users
  /\ crowded = FALSE

Asks(h, r) == request' = [request EXCEPT ![h] = r]

-----------------------------------------------------------------------------
(* Start and end of the process.                                           *)

\* The file is read; a file that is no JSON ends the start.
LoadUsers ==
  /\ process = "down" /\ Readable(usersFile)
  /\ process' = "up"
  /\ users' = usersFile.list /\ answered' = users'
  /\ UNCHANGED <<usersFile, tempFile, request, crowded>>

\* Without a file one administrator is made up, and written in place.
Bootstrap ==
  /\ process = "down" /\ usersFile = NoFile
  /\ process' = "bootstrapping"
  /\ \E password \in Password :
       users' = [u \in User |->
                   IF u = Admin
                   THEN [role |-> "admin", password |-> password]
                   ELSE NoAccount]
  /\ usersFile' = Torn
  /\ UNCHANGED <<tempFile, request, answered, crowded>>

BootstrapWritten ==
  /\ process = "bootstrapping"
  /\ process' = "up"
  /\ usersFile' = Whole(users) /\ answered' = users
  /\ UNCHANGED <<users, tempFile, request, crowded>>

Die ==
  /\ process # "down"
  /\ process' = "down"
  /\ request' = [h \in Scribe |-> Waiting]
  /\ crowded' = FALSE
  /\ UNCHANGED <<users, usersFile, tempFile, answered>>

-----------------------------------------------------------------------------
(* Requests.  The entry is read, and replaced after the new password has   *)
(* been hashed.  Bound: two requests that overlap are followed to their    *)
(* end, but no third one is taken before a restart.                        *)

Takes(h, u, account) ==
  /\ process = "up" /\ request[h] = Waiting /\ ~crowded
  /\ Asks(h, [at |-> "read", user |-> u, account |-> account])
  /\ crowded' = \E g \in Scribe : request[g] # Waiting
  /\ UNCHANGED <<users, usersFile, tempFile, process, answered>>

ChangePassword(h) ==
  \E u \in User, password \in Password :
    /\ users[u] # NoAccount
    /\ Takes(h, u, [role |-> users[u].role, password |-> password])

CreateUser(h) ==
  \E u \in User : users[u] = NoAccount /\ \E a \in Account : Takes(h, u, a)

\* The role stays what it was unless the request names one.
ResetPassword(h) ==
  \E u \in User : users[u] # NoAccount /\ \E a \in Account : Takes(h, u, a)

UpdateUser(h) ==
  \E u \in User :
    /\ users[u] # NoAccount
    /\ \E a \in Account : a.password = users[u].password /\ Takes(h, u, a)

SetUser(h) ==
  /\ request[h].at = "read"
  /\ users' = [users EXCEPT ![request[h].user] = request[h].account]
  /\ Asks(h, [at |-> "set"])
  /\ UNCHANGED <<usersFile, tempFile, process, answered, crowded>>

-----------------------------------------------------------------------------
(* _save_users_file                                                        *)

ListUsers(h) ==
  /\ request[h].at = "set"
  /\ Asks(h, [at |-> "listed", list |-> users])
  /\ UNCHANGED <<users, usersFile, tempFile, process, answered, crowded>>

\* Faulty: the users file itself is opened, and emptied, for the write.
OpenInPlace(h) ==
  /\ request[h].at = "listed"
  /\ usersFile' = Torn
  /\ Asks(h, [at |-> "open", list |-> request[h].list, file |-> "users"])
  /\ UNCHANGED <<users, tempFile, process, answered, crowded>>

OpenTemp(h) ==
  /\ request[h].at = "listed"
  /\ tempFile' = Torn
  /\ Asks(h, [at |-> "open", list |-> request[h].list, file |-> "temp"])
  /\ UNCHANGED <<users, usersFile, process, answered, crowded>>

\* What a write leaves in a file that another handler has written meanwhile.
Over(file, list) ==
  {Whole(list)} \union (IF Readable(file) THEN {Torn} ELSE {})

WriteUsers(h) ==
  /\ request[h].at = "open"
  /\ Asks(h, [at |-> "written", list |-> request[h].list])
  /\ \/ /\ request[h].file = "temp"
        /\ tempFile' \in Over(tempFile, request[h].list)
        /\ UNCHANGED usersFile
     \/ /\ request[h].file = "users"
        /\ usersFile' \in Over(usersFile, request[h].list)
        /\ UNCHANGED tempFile
     \/ request[h].file = "gone" /\ UNCHANGED <<usersFile, tempFile>>
  /\ UNCHANGED <<users, process, answered, crowded>>

\* The rename: who has the temporary file open has the users file open now.
ReplaceUsersFile(h) ==
  /\ request[h].at = "written" /\ tempFile # NoFile
  /\ usersFile' = tempFile /\ tempFile' = NoFile
  /\ request' =
       [g \in Scribe |->
          CASE g = h -> [at |-> "saved", list |-> request[h].list]
            [] g # h /\ request[g].at = "open" ->
                 [request[g] EXCEPT
                    !.file = IF @ = "temp" THEN "users" ELSE "gone"]
            [] OTHER -> request[g]]
  /\ UNCHANGED <<users, process, answered, crowded>>

\* The disk is full, or the temporary file has been renamed already: the
\* request is answered with an error, and the dictionary stays changed.
SaveFails(h) ==
  /\ \/ request[h].at \in {"listed", "open"}
     \/ request[h].at = "written" /\ tempFile = NoFile
  /\ Asks(h, Waiting)
  /\ UNCHANGED <<users, usersFile, tempFile, process, answered, crowded>>

AnswerRequest(h) ==
  /\ request[h].at = "saved"
  /\ answered' = request[h].list
  /\ Asks(h, Waiting)
  /\ UNCHANGED <<users, usersFile, tempFile, process, crowded>>

AccountsNext ==
  \/ LoadUsers \/ Bootstrap \/ BootstrapWritten \/ Die
  \/ \E h \in Scribe :
       \/ ChangePassword(h) \/ CreateUser(h) \/ ResetPassword(h) \/ UpdateUser(h)
       \/ SetUser(h) \/ ListUsers(h) \/ OpenTemp(h) \/ WriteUsers(h)
       \/ ReplaceUsersFile(h) \/ SaveFails(h) \/ AnswerRequest(h)

AccountsSpec == AccountsInit /\ [][AccountsNext]_accountVars

-----------------------------------------------------------------------------
(* Properties.                                                             *)

AccountsTypeOK ==
  /\ users \in Users /\ answered \in Users
  /\ \A file \in {usersFile, tempFile} :
       file \in {NoFile, Torn} \/ (Readable(file) /\ file.list \in Users)
  /\ process \in {"down", "bootstrapping", "up"}
  /\ crowded \in BOOLEAN
  /\ \A h \in Scribe : request[h].at \in
       {"waiting", "read", "set", "listed", "open", "written", "saved"}

(* Whenever the process dies, the restart finds a users file that it can   *)
(* read, and in it every change whose success was reported: what is there  *)
(* is what the last such answer stood for, or what a save that is under    *)
(* way has just put in its place.  Two things are outside: the first start *)
(* writes the file in place, and requests that overlap share the temporary *)
(* file and save what each of them listed.                                 *)
RestartFindsTheUsers ==
  process = "up" /\ ~crowded =>
    /\ Readable(usersFile)
    /\ \/ usersFile.list = answered
       \/ \E h \in Scribe :
            request[h].at = "saved" /\ usersFile.list = request[h].list

=============================================================================
