----------------------------- MODULE FtpUpload ------------------------------
(***************************************************************************)
(* CYUpLoadFactory.UploadFile (UpLoad/upload.go) and the FTP client under  *)
(* it (UpLoad/ftp.go), against a server that follows the protocol and may  *)
(* refuse, delay or drop anything.  The server is not part of the program: *)
(* it is what the client's reading of replies has to be right against.     *)
(*                                                                         *)
(* The control connection is a queue of replies; the client reads one per  *)
(* command and takes every code below 400 for success.                     *)
(***************************************************************************)
EXTENDS Naturals, Sequences

CONSTANTS
  MaxUploads   \* the uploads of one session; UploadFile makes one

VARIABLES
  client,      \* the step of the client
  conn,        \* the control connection: is there one
  data,        \* the data connection: "none", "open", "closed", "cut"
  replies,     \* the replies that the client has not read
  commands,    \* the commands that the server has not read
  server,      \* what the server does: "greeting", "ready" (to greet), "idle", "transfer", "gone"
  sent,        \* the whole file has been given to the data connection
  stored,      \* the file of this upload is on the server, whole
  uploads,     \* the uploads begun
  result,      \* of the last upload: "none", "nil", "error"
  failed       \* history: an upload of this session has failed after its first command

uploadVars == <<client, conn, data, replies, commands, server, sent, stored, uploads, result, failed>>

UploadInit ==
  /\ client = "init" /\ conn = FALSE /\ data = "none"
  /\ replies = <<>> /\ commands = <<>> /\ server = "gone"
  /\ sent = FALSE /\ stored = FALSE
  /\ uploads = 0 /\ result = "none" /\ failed = FALSE

-----------------------------------------------------------------------------
(* The server *)

Answer(code) == replies' = Append(replies, code)

\* The greeting may say "120, wait": another greeting follows.
ServerGreets ==
  /\ server = "greeting"
  /\ \/ Answer(220) /\ server' = "idle"
     \/ Answer(120) /\ server' = "ready"
     \/ Answer(421) /\ server' = "gone"
  /\ UNCHANGED <<client, conn, data, commands, sent, stored, uploads, result, failed>>

ServerReady ==
  /\ server = "ready"
  /\ Answer(220) /\ server' = "idle"
  /\ UNCHANGED <<client, conn, data, commands, sent, stored, uploads, result, failed>>

\* What a command may be answered with; a user may need no password.
Answers == [USER |-> {331, 230, 530}, PASS |-> {230, 202, 332, 530}, TYPE |-> {200, 504}, PASV |-> {227, 502}]

ServerAnswers ==
  /\ server = "idle" /\ commands # <<>> /\ Head(commands) \in DOMAIN Answers
  /\ \E code \in Answers[Head(commands)] : Answer(code)
  /\ commands' = Tail(commands)
  /\ UNCHANGED <<client, conn, data, server, sent, stored, uploads, result, failed>>

\* STOR: 150 or 125 and a transfer, or a refusal.
ServerStor ==
  /\ server = "idle" /\ commands # <<>> /\ Head(commands) = "STOR"
  /\ commands' = Tail(commands)
  /\ \/ \E code \in {150, 125} : Answer(code) /\ server' = "transfer"
     \/ \E code \in {425, 450, 532, 553} : Answer(code) /\ UNCHANGED server
  /\ UNCHANGED <<client, conn, data, sent, stored, uploads, result, failed>>

\* The end of the data is the end of the file.
ServerStores ==
  /\ server = "transfer" /\ data = "closed"
  /\ \E code \in {226, 250} : Answer(code)
  /\ server' = "idle" /\ stored' = sent
  /\ UNCHANGED <<client, conn, data, commands, sent, uploads, result, failed>>

\* A transfer that fails: aborted, out of space, or a data connection lost.
ServerFails ==
  /\ server = "transfer"
  /\ \E code \in {426, 451, 452, 552} : Answer(code)
  /\ server' = "idle"
  /\ data' = IF data = "open" THEN "cut" ELSE data
  /\ UNCHANGED <<client, conn, commands, sent, stored, uploads, result, failed>>

-----------------------------------------------------------------------------
(* The client *)

\* Mutant: the 4xx codes are accepted too.
AcceptsFamily(code) == code < 500

\* readResponse: 1xx, 2xx and 3xx are no errors, whatever was asked.
Accepts(code) == code < 400

ClosesConn == conn' = FALSE /\ replies' = <<>> /\ commands' = <<>> /\ server' = "gone"

\* A reply is read and accepted.
ReadsOk == /\ conn /\ replies # <<>> /\ Accepts(Head(replies))
           /\ replies' = Tail(replies)

\* A reply is an error.
ReadsError == /\ conn /\ replies # <<>> /\ ~Accepts(Head(replies))
              /\ replies' = Tail(replies)

\* The deadline passes, or the connection breaks: no reply is read.
ReadsNothing == UNCHANGED replies

Sends(command) == commands' = Append(commands, command)

\* Init dials and then waits for the greeting.
Dial ==
  /\ client = "init"
  /\ \/ conn' = TRUE /\ server' = "greeting" /\ client' = "greeting"
     \/ client' = "failed" /\ UNCHANGED <<conn, server>>
  /\ UNCHANGED <<data, replies, commands, sent, stored, uploads, result, failed>>

\* The login: greeting, USER, PASS, TYPE I; each command follows its reply.
LoginNext == [greeting |-> "USER", USER |-> "PASS", PASS |-> "TYPE", TYPE |-> "inited"]

Login ==
  /\ client \in DOMAIN LoginNext
  /\ ReadsOk
  /\ client' = LoginNext[client]
  /\ IF client = "TYPE" THEN UNCHANGED commands ELSE Sends(LoginNext[client])
  /\ UNCHANGED <<conn, data, server, sent, stored, uploads, result, failed>>

\* An error or a deadline in Init closes the connection.
LoginFails ==
  /\ client \in DOMAIN LoginNext
  /\ ClosesConn
  /\ client' = "failed"
  /\ UNCHANGED <<data, sent, stored, uploads, result, failed>>

\* Upload: PASV; a local file that does not open fails before it.
Upload ==
  /\ client = "inited" /\ uploads < MaxUploads
  /\ uploads' = uploads + 1
  /\ stored' = FALSE /\ sent' = FALSE
  /\ \/ Sends("PASV") /\ client' = "pasv" /\ result' = "none"
     \/ client' = "inited" /\ result' = "error" /\ UNCHANGED commands
  /\ UNCHANGED <<conn, data, replies, server, failed>>

\* Every error in Upload returns; the data connection is closed by a defer.
UploadError ==
  /\ client' = "inited" /\ result' = "error" /\ failed' = TRUE
  /\ data' = IF data = "open" THEN "closed" ELSE data

\* Only a 227 has the address.
Pasv ==
  /\ client = "pasv" /\ ReadsOk /\ Head(replies) = 227
  /\ data' = "none"
  /\ client' = "dial"
  /\ UNCHANGED <<conn, commands, server, sent, stored, uploads, result, failed>>

PasvFails ==
  /\ client = "pasv"
  /\ \/ ReadsOk /\ Head(replies) # 227
     \/ ReadsError
     \/ ReadsNothing
  /\ UploadError
  /\ UNCHANGED <<conn, commands, server, sent, stored, uploads>>

DialData ==
  /\ client = "dial"
  /\ \/ data' = "open" /\ Sends("STOR") /\ client' = "stor" /\ UNCHANGED <<result, failed>>
     \/ UploadError /\ UNCHANGED commands
  /\ UNCHANGED <<conn, replies, server, sent, stored, uploads>>

Stor ==
  /\ client = "stor" /\ ReadsOk
  /\ client' = "copy"
  /\ UNCHANGED <<conn, data, commands, server, sent, stored, uploads, result, failed>>

StorFails ==
  /\ client = "stor"
  /\ ReadsError \/ ReadsNothing
  /\ UploadError
  /\ UNCHANGED <<conn, commands, server, sent, stored, uploads>>

\* io.Copy, and the close that says the file is complete.  What was written
\* to a connection that the server has cut is lost without an error.
CopyAll ==
  /\ client = "copy"
  /\ sent' = TRUE
  /\ data' = IF data = "open" THEN "closed" ELSE data
  /\ client' = "complete"
  /\ UNCHANGED <<conn, replies, commands, server, stored, uploads, result, failed>>

\* A read error of the file, or a write error of the connection: the defer
\* closes the data connection, and the server sees the end of a file.
CopyFails ==
  /\ client = "copy"
  /\ UploadError
  /\ UNCHANGED <<conn, replies, commands, server, sent, stored, uploads>>

Complete ==
  /\ client = "complete" /\ ReadsOk
  /\ client' = "inited" /\ result' = "nil"
  /\ UNCHANGED <<conn, data, commands, server, sent, stored, uploads, failed>>

CompleteFails ==
  /\ client = "complete"
  /\ ReadsError \/ ReadsNothing
  /\ UploadError
  /\ UNCHANGED <<conn, commands, server, sent, stored, uploads>>

\* UnInit: QUIT, whose reply is read and ignored, and the connection closes.
UnInit ==
  /\ client = "inited"
  /\ ClosesConn
  /\ client' = "done"
  /\ UNCHANGED <<data, sent, stored, uploads, result, failed>>

UploadNext ==
  \/ ServerGreets \/ ServerReady \/ ServerAnswers \/ ServerStor \/ ServerStores \/ ServerFails
  \/ Dial \/ Login \/ LoginFails \/ Upload \/ Pasv \/ PasvFails \/ DialData \/ Stor \/ StorFails
  \/ CopyAll \/ CopyFails \/ Complete \/ CompleteFails \/ UnInit

UploadSpec == UploadInit /\ [][UploadNext]_uploadVars

-----------------------------------------------------------------------------
(* Property *)

\* An upload that reports no error has put the whole file on the server: the
\* reply that Upload returns on is the reply of its own transfer.  That is so
\* until an upload of the session fails, whose replies may still come; then
\* UploadFile ends the session.
UploadOkMeansStored == result = "nil" /\ ~failed => stored
=============================================================================
