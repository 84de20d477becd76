------------------------------- MODULE RpcFiles -------------------------------
(***************************************************************************)
(* The remote file service (3/БСИТ/1): clients (client.cpp) log in to a    *)
(* server (server.cpp) and download, upload and remove files of its.       *)
(*                                                                         *)
(* The server runs the calls of different clients at the same time, and    *)
(* has one token and one user name for all of them: a login replaces them, *)
(* and every call acts with the token it finds when it begins.             *)
(*                                                                         *)
(* A user's password is right or wrong; what a user may open is Rights.    *)
(* Files are read at once, but an upload empties the file when it opens it *)
(* and writes it later.  tokenBy and nameBy are history variables.         *)
(***************************************************************************)
EXTENDS MachineConstants

VARIABLES
  files,    \* what the server stores at each path
  hToken,   \* the user whose rights calls get
  UserName, \* the user the server names in what it prints
  client,   \* where each client is and what it remembers
  tokenBy,  \* the client that hToken is from
  nameBy    \* the client that UserName is from

serverVars == <<hToken, UserName, tokenBy, nameBy>>
vars == <<files, serverVars, client>>

None == "none"
Junk == -1

\* A client's place, and what belongs to it:
\*   at      "login", "auth", "menu", "clear", "size", "sized", "read",
\*           "open", "write", "remove" or "ended"
\*   first   it has not left the login of Connect yet
\*   user    whom it has logged in as
\*   asked   the user of the login on its way, and whether the password is right
\*   token   what the call on its way runs as
\*   path, data, size   what it is about
\*   calm    nobody has touched path since its size was asked for
Idle(c, at) == [client[c] EXCEPT !.at = at, !.token = None, !.data = <<>>, !.size = 0, !.calm = TRUE]

Init ==
  /\ files \in [Paths -> Contents \cup {NoFile}]
  /\ hToken = None /\ UserName = None /\ tokenBy = None /\ nameBy = None
  /\ client = [c \in Clients |->
       [at |-> "login", first |-> TRUE, user |-> None, asked |-> <<None, FALSE>>, token |-> None,
        path |-> CHOOSE p \in Paths : TRUE, data |-> <<>>, size |-> 0, calm |-> TRUE]]

----------------------------------------------------------------------------
\* Logging in.

\* Authentication begins by copying the name.
Authentication(c) ==
  /\ client[c].at = "login"
  /\ \E u \in Users, right \in BOOLEAN :
       /\ UserName' = u /\ nameBy' = c
       /\ client' = [client EXCEPT ![c].at = "auth", ![c].asked = <<u, right>>]
  /\ UNCHANGED <<files, hToken, tokenBy>>

\* A slip: the token is kept before it is known whether there is one.
NewTokenUntested(right, u) == u

\* Of a login that succeeds the token is kept; of one that does not, nothing
\* but the name that was copied.
NewToken(right, u) == IF right THEN u ELSE hToken

LogOn(c) ==
  /\ client[c].at = "auth"
  /\ LET u == client[c].asked[1]
         right == client[c].asked[2]
         Answered(at, user) ==
           [Idle(c, at) EXCEPT !.asked = <<None, FALSE>>, !.user = user,
                               !.first = client[c].first /\ at = "login"]
     IN /\ hToken' = NewToken(right, u)
        /\ tokenBy' = IF right THEN c ELSE tokenBy
        /\ \/ right /\ client' = [client EXCEPT ![c] = Answered("menu", u)]
           \/ ~ right /\ client' = [client EXCEPT ![c] = Answered("login", client[c].user)]
           \* "exit" gives up: the program ends, but from Connect it goes to the menu.
           \/ ~ right /\ client' = [client EXCEPT ![c] =
                Answered(IF client[c].first THEN "menu" ELSE "ended", client[c].user)]
  /\ UNCHANGED <<files, UserName, nameBy>>

\* Menu, 4, and Menu_Init: another user or the end.
LeaveMenu(c) ==
  /\ client[c].at = "menu"
  /\ \E at \in {"login", "ended"} : client' = [client EXCEPT ![c].at = at]
  /\ UNCHANGED <<files, serverVars>>

----------------------------------------------------------------------------
\* The calls about files.

\* Every one begins by taking the token.  Without one the user is forgotten and
\* the call refused.
Impersonate(c, next) ==
  /\ client' = [client EXCEPT ![c] = IF hToken = None THEN Idle(c, "clear")
                                     ELSE [next EXCEPT !.token = hToken]]
  /\ UNCHANGED <<files, serverVars>>

Exit_User(c) ==
  /\ client[c].at = "clear"
  /\ UserName' = None /\ nameBy' = None
  /\ client' = [client EXCEPT ![c] = Idle(c, "menu")]
  /\ UNCHANGED <<files, hToken, tokenBy>>

MayOpen(c) == <<client[c].token, client[c].path>> \in Rights
File(c) == files[client[c].path]
Opens(c) == MayOpen(c) /\ File(c) # NoFile

\* Nobody's calm lasts when a path is touched.
Touched(path, c, next) ==
  [d \in Clients |->
     IF d = c THEN next
     ELSE [client[d] EXCEPT !.calm = @ /\ ~ (client[d].at \in {"sized", "read"} /\ client[d].path = path)]]

Writers(path) == {d \in Clients : client[d].at = "write" /\ client[d].path = path}

\* A slip: the position of the last byte.
SizeLess(file) == Len(file) - 1

Size(file) == Len(file)

\* Download asks for the size, and for as many bytes in a second call.
AskSize(c) ==
  /\ client[c].at = "menu"
  /\ \E path \in Paths : Impersonate(c, [client[c] EXCEPT !.at = "size", !.path = path])

Get_Size_File(c) ==
  /\ client[c].at = "size"
  /\ LET size == IF Opens(c) THEN Size(File(c)) ELSE 0
     IN client' = [client EXCEPT ![c] =
          IF size = 0 THEN Idle(c, "menu")
          ELSE [Idle(c, "sized") EXCEPT !.size = size, !.calm = Writers(client[c].path) = {}]]
  /\ UNCHANGED <<files, serverVars>>

AskContent(c) ==
  /\ client[c].at = "sized"
  /\ Impersonate(c, [client[c] EXCEPT !.at = "read"])

\* The client saves as many bytes as it asked for, of what it got.
Received(c) == [k \in 1 .. client[c].size |-> IF k <= Len(File(c)) THEN File(c)[k] ELSE Junk]

Download_File(c) ==
  /\ client[c].at = "read"
  /\ client' = [client EXCEPT ![c] = Idle(c, "menu")]
  /\ UNCHANGED <<files, serverVars>>

AskUpload(c) ==
  /\ client[c].at = "menu"
  /\ \E path \in Paths, data \in Contents :
       Impersonate(c, [client[c] EXCEPT !.at = "open", !.path = path, !.data = data])

\* Opening empties the file, or makes an empty one.
OpenForUpload(c) ==
  /\ client[c].at = "open"
  /\ IF MayOpen(c)
     THEN /\ files' = [files EXCEPT ![client[c].path] = <<>>]
          /\ client' = Touched(client[c].path, c, [client[c] EXCEPT !.at = "write"])
     ELSE client' = [client EXCEPT ![c] = Idle(c, "menu")] /\ UNCHANGED files
  /\ UNCHANGED serverVars

\* Bytes that another upload wrote behind these stay.
Written(old, data) ==
  [k \in 1 .. IF Len(data) > Len(old) THEN Len(data) ELSE Len(old) |->
     IF k <= Len(data) THEN data[k] ELSE old[k]]

Upload_File(c) ==
  /\ client[c].at = "write"
  /\ files' = [files EXCEPT ![client[c].path] = Written(@, client[c].data)]
  /\ client' = Touched(client[c].path, c, Idle(c, "menu"))
  /\ UNCHANGED serverVars

AskRemove(c) ==
  /\ client[c].at = "menu"
  /\ \E path \in Paths : Impersonate(c, [client[c] EXCEPT !.at = "remove", !.path = path])

\* A file that is open is not deleted.
Delete_File(c) ==
  /\ client[c].at = "remove"
  /\ IF Opens(c) /\ Writers(client[c].path) = {}
     THEN /\ files' = [files EXCEPT ![client[c].path] = NoFile]
          /\ client' = Touched(client[c].path, c, Idle(c, "menu"))
     ELSE client' = [client EXCEPT ![c] = Idle(c, "menu")] /\ UNCHANGED files
  /\ UNCHANGED serverVars

----------------------------------------------------------------------------
Next ==
  \E c \in Clients :
    \/ Authentication(c) \/ LogOn(c) \/ LeaveMenu(c) \/ Exit_User(c)
    \/ AskSize(c) \/ Get_Size_File(c) \/ AskContent(c) \/ Download_File(c)
    \/ AskUpload(c) \/ OpenForUpload(c) \/ Upload_File(c)
    \/ AskRemove(c) \/ Delete_File(c)

Spec == Init /\ [][Next]_vars

----------------------------------------------------------------------------
TypeOK ==
  /\ \A path \in Paths : files[path] = NoFile \/ files[path] \in Seq(Nat)
  /\ hToken \in Users \cup {None} /\ UserName \in Users \cup {None}
  /\ tokenBy \in Clients \cup {None} /\ nameBy \in Clients \cup {None}
  /\ \A c \in Clients :
       /\ client[c].at \in {"login", "auth", "menu", "clear", "size", "sized", "read",
                            "open", "write", "remove", "ended"}
       /\ client[c].user \in Users \cup {None} /\ client[c].token \in Users \cup {None}
       /\ client[c].size \in Nat /\ client[c].path \in Paths

\* A client acts as the user it logged in as until another one logs in: logins
\* that are refused, sessions that end and calls that overlap do not change it.
\* Until another one tries to, the server also names that user, or nobody.
OwnIdentity ==
  \A c \in Clients :
    client[c].at \notin {"login", "auth", "ended"} /\ tokenBy = c =>
      /\ hToken = client[c].user
      /\ nameBy = c => UserName = hToken

\* What a download saves is the file, whole, if nobody uploaded or removed it
\* between the two calls.
DownloadsIntact ==
  \A c \in Clients :
    client[c].at = "read" /\ client[c].calm => Received(c) = File(c)
=============================================================================
