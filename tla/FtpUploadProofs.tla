-------------------------- MODULE FtpUploadProofs ---------------------------
(* A theorem about FtpUpload, for any number of uploads in one session.     *)
EXTENDS FtpUpload, TLAPS

-----------------------------------------------------------------------------
(* The invariant.  Until an upload fails, the client and the server are     *)
(* where each other expects them from the reply 227 on, which nothing but   *)
(* the last command can have been answered with: what came before it, a     *)
(* "120, wait" in the greeting included, has all been read then.            *)

Commands  == {"USER", "PASS", "TYPE", "PASV", "STOR"}
Opens     == {150, 125}
Refusals  == {425, 450, 532, 553}
Aborts    == {426, 451, 452, 552}
Completes == {226, 250}

UploadType ==
  /\ replies \in Seq(Nat) /\ commands \in Seq(Commands)
  /\ conn \in BOOLEAN /\ sent \in BOOLEAN /\ stored \in BOOLEAN /\ failed \in BOOLEAN

\* The address is the last reply there is, and PASV the last command.
AddressIsLast ==
  /\ \A i \in 1..Len(replies) : replies[i] = 227 =>
       client = "pasv" /\ i = Len(replies) /\ commands = <<>> /\ server = "idle"
  /\ \A i \in 1..Len(commands) :
       /\ commands[i] = "PASV" => client = "pasv" /\ i = Len(commands)
       /\ commands[i] = "STOR" => client = "stor"

AtDial ==
  server = "idle" /\ commands = <<>> /\ replies = <<>>

AtStor ==
  \/ server = "idle" /\ commands = <<"STOR">> /\ replies = <<>> /\ data = "open"
  \/ server = "idle" /\ commands = <<>> /\ \E c \in Refusals : replies = <<c>>
  \/ server = "transfer" /\ commands = <<>> /\ data = "open" /\ \E c \in Opens : replies = <<c>>
  \/ server = "idle" /\ commands = <<>> /\ \E c \in Opens, a \in Aborts : replies = <<c, a>>

AtCopy ==
  \/ server = "transfer" /\ commands = <<>> /\ replies = <<>> /\ data = "open"
  \/ server = "idle" /\ commands = <<>> /\ \E a \in Aborts : replies = <<a>>

AtComplete ==
  /\ sent = TRUE
  /\ \/ server = "transfer" /\ commands = <<>> /\ replies = <<>>
     \/ server = "idle" /\ commands = <<>> /\ \E a \in Aborts : replies = <<a>>
     \/ server = "idle" /\ commands = <<>> /\ stored = TRUE /\ \E c \in Completes : replies = <<c>>

InStep ==
  /\ AddressIsLast
  /\ server = "transfer" => client \in {"stor", "copy", "complete"}
  /\ client = "dial" => AtDial
  /\ client = "stor" => AtStor
  /\ client = "copy" => AtCopy
  /\ client = "complete" => AtComplete
  /\ result = "nil" => stored = TRUE

UploadInv == UploadType /\ (failed = FALSE => InStep)

LEMMA UploadInvInit == UploadInit => UploadInv
<1> SUFFICES ASSUME UploadInit PROVE UploadInv
  OBVIOUS
<1>1. /\ Len(replies) = 0 /\ Len(commands) = 0
      /\ replies \in Seq(Nat) /\ commands \in Seq(Commands)
  BY DEF UploadInit
<1>2. UploadType
  BY <1>1 DEF UploadInit, UploadType
<1>3. AddressIsLast
  BY <1>1 DEF AddressIsLast
<1>4. InStep
  BY <1>3 DEF UploadInit, InStep
<1>5. QED
  BY <1>2, <1>4 DEF UploadInv

-----------------------------------------------------------------------------
(* Sequences.                                                              *)

LEMMA AppendOf ==
  ASSUME NEW S, NEW s \in Seq(S), NEW e \in S
  PROVE  /\ Append(s, e) \in Seq(S) /\ Len(Append(s, e)) = Len(s) + 1
         /\ \A i \in 1..Len(Append(s, e)) :
              Append(s, e)[i] = IF i = Len(Append(s, e)) THEN e ELSE s[i]
<1>1. Append(s, e) \in Seq(S) /\ Len(Append(s, e)) = Len(s) + 1 /\ Len(s) \in Nat
  OBVIOUS
<1>2. ASSUME NEW i \in 1..(Len(s) + 1)
      PROVE  Append(s, e)[i] = IF i = Len(s) + 1 THEN e ELSE s[i]
  OBVIOUS
<1>3. QED
  BY <1>1, <1>2

LEMMA TailOf ==
  ASSUME NEW S, NEW s \in Seq(S), s # <<>>
  PROVE  /\ Tail(s) \in Seq(S) /\ Len(Tail(s)) = Len(s) - 1 /\ Len(s) \in Nat
         /\ Head(s) = s[1] /\ 1 \in 1..Len(s)
         /\ \A i \in 1..Len(Tail(s)) : Tail(s)[i] = s[i + 1] /\ i + 1 \in 1..Len(s)
<1>1. Tail(s) \in Seq(S) /\ Len(Tail(s)) = Len(s) - 1 /\ Len(s) \in Nat
  OBVIOUS
<1>2. Head(s) = s[1] /\ 1 \in 1..Len(s)
  OBVIOUS
<1>3. ASSUME NEW i \in 1..(Len(s) - 1) PROVE Tail(s)[i] = s[i + 1] /\ i + 1 \in 1..Len(s)
  BY <1>1
<1>4. QED
  BY <1>1, <1>2, <1>3

LEMMA EmptyOf == ASSUME NEW S, NEW s \in Seq(S), Len(s) = 0 PROVE s = <<>>
OBVIOUS

LEMMA TwoIn ==
  ASSUME NEW s \in Seq(Nat), NEW c \in Nat, NEW d \in Nat, Len(s) = 2, s[1] = c, s[2] = d
  PROVE  s = <<c, d>>
OBVIOUS

LEMMA PairOf ==
  ASSUME NEW c \in Nat, NEW d \in Nat
  PROVE  Append(<<c>>, d) = <<c, d>>
<1> PICK one : one = <<c>>
  OBVIOUS
<1> PICK s : s = Append(one, d)
  OBVIOUS
<1>1. one \in Seq(Nat) /\ Len(one) = 1 /\ one[1] = c
  OBVIOUS
<1>2. /\ s \in Seq(Nat) /\ Len(s) = 2
      /\ \A i \in 1..Len(s) : s[i] = IF i = Len(s) THEN d ELSE one[i]
  BY <1>1, AppendOf
<1>3. s[1] = c /\ s[2] = d
  BY <1>1, <1>2
<1>4. s \in Seq(Nat) /\ Len(s) = 2
  BY <1>2
<1>5. s = <<c, d>>
  BY <1>3, <1>4, TwoIn
<1>6. QED
  BY <1>5

LEMMA AnswerAppends ==
  ASSUME replies \in Seq(Nat), NEW code \in Nat, Answer(code)
  PROVE  /\ replies' \in Seq(Nat) /\ Len(replies') = Len(replies) + 1
         /\ \A i \in 1..Len(replies') : replies'[i] = IF i = Len(replies') THEN code ELSE replies[i]
         /\ replies = <<>> => replies' = <<code>>
         /\ \A c \in Nat : replies = <<c>> => replies' = <<c, code>>
<1>1. replies' = Append(replies, code)
  BY DEF Answer
<1>2. /\ replies' \in Seq(Nat) /\ Len(replies') = Len(replies) + 1
      /\ \A i \in 1..Len(replies') : replies'[i] = IF i = Len(replies') THEN code ELSE replies[i]
  BY <1>1, AppendOf
<1>3. ASSUME replies = <<>> PROVE replies' = <<code>>
  BY <1>1, <1>3
<1>4. ASSUME NEW CONSTANT c \in Nat, replies = <<c>> PROVE replies' = <<c, code>>
  BY <1>1, <1>4, PairOf
<1>5. QED
  BY <1>2, <1>3, <1>4

LEMMA SendAppends ==
  ASSUME commands \in Seq(Commands), NEW command \in Commands, Sends(command)
  PROVE  /\ commands' \in Seq(Commands) /\ Len(commands') = Len(commands) + 1
         /\ \A i \in 1..Len(commands') : commands'[i] = IF i = Len(commands') THEN command ELSE commands[i]
         /\ commands = <<>> => commands' = <<command>>
<1>1. commands' = Append(commands, command)
  BY DEF Sends
<1>2. /\ commands' \in Seq(Commands) /\ Len(commands') = Len(commands) + 1
      /\ \A i \in 1..Len(commands') : commands'[i] = IF i = Len(commands') THEN command ELSE commands[i]
  BY <1>1, AppendOf
<1>3. ASSUME commands = <<>> PROVE commands' = <<command>>
  BY <1>1, <1>3
<1>4. QED
  BY <1>2, <1>3

LEMMA ReadTakes ==
  ASSUME replies \in Seq(Nat), replies # <<>>
  PROVE  /\ Tail(replies) \in Seq(Nat) /\ Len(Tail(replies)) = Len(replies) - 1 /\ Len(replies) \in Nat
         /\ Head(replies) = replies[1] /\ 1 \in 1..Len(replies)
         /\ \A i \in 1..Len(Tail(replies)) : Tail(replies)[i] = replies[i + 1] /\ i + 1 \in 1..Len(replies)
         /\ \A c \in Nat : replies = <<c>> => Tail(replies) = <<>> /\ Head(replies) = c
         /\ \A c, a \in Nat : replies = <<c, a>> => Tail(replies) = <<a>> /\ Head(replies) = c
<1>1. ASSUME NEW CONSTANT c \in Nat, replies = <<c>> PROVE Tail(replies) = <<>> /\ Head(replies) = c
  BY <1>1
<1>2. ASSUME NEW CONSTANT c \in Nat, NEW CONSTANT a \in Nat, replies = <<c, a>>
      PROVE  Tail(replies) = <<a>> /\ Head(replies) = c
  BY <1>2
<1>3. QED
  BY <1>1, <1>2, TailOf

LEMMA CommandTaken ==
  ASSUME commands \in Seq(Commands), commands # <<>>
  PROVE  /\ Tail(commands) \in Seq(Commands) /\ Len(Tail(commands)) = Len(commands) - 1 /\ Len(commands) \in Nat
         /\ Head(commands) = commands[1] /\ 1 \in 1..Len(commands)
         /\ \A i \in 1..Len(Tail(commands)) : Tail(commands)[i] = commands[i + 1] /\ i + 1 \in 1..Len(commands)
         /\ Len(commands) = 1 => Tail(commands) = <<>>
<1>1. Tail(commands) \in Seq(Commands) /\ Len(Tail(commands)) = Len(commands) - 1
  BY TailOf
<1> PICK t : t = Tail(commands)
  OBVIOUS
<1>2. ASSUME Len(commands) = 1 PROVE t = <<>>
  <2>1. t \in Seq(Commands) /\ Len(t) = 0
    BY <1>1, <1>2
  <2>2. QED
    BY <2>1, EmptyOf
<1>3. QED
  BY <1>2, TailOf

-----------------------------------------------------------------------------
(* The steps of the server.                                                *)

\* A greeting finds no address, and nobody who waits for a transfer.
LEMMA GreetingKeeps ==
  ASSUME UploadInv, ServerGreets \/ ServerReady
  PROVE  UploadInv'
<1>1. /\ UNCHANGED <<client, conn, data, commands, sent, stored, result, failed>>
      /\ server \in {"greeting", "ready"} /\ server' \in {"idle", "ready", "gone"}
      /\ \E code \in {220, 120, 421} : Answer(code)
  BY DEF ServerGreets, ServerReady
<1> PICK code \in {220, 120, 421} : Answer(code)
  BY <1>1
<1>2. /\ replies' \in Seq(Nat) /\ Len(replies') = Len(replies) + 1 /\ Len(replies) \in Nat
      /\ \A i \in 1..Len(replies') : replies'[i] = IF i = Len(replies') THEN code ELSE replies[i]
  BY AnswerAppends DEF UploadInv, UploadType
<1>3. ASSUME failed = FALSE PROVE InStep'
  <2>1. /\ AddressIsLast /\ (result = "nil" => stored = TRUE)
        /\ client \notin {"dial", "stor", "copy", "complete"}
    BY <1>1, <1>3 DEF UploadInv, InStep, AtDial, AtStor, AtCopy, AtComplete
  <2>2. \A i \in 1..Len(replies) : replies[i] # 227
    BY <1>1, <2>1 DEF AddressIsLast
  <2>3. \A i \in 1..Len(replies') : replies'[i] # 227
    BY <1>2, <2>2
  <2>4. AddressIsLast'
    BY <1>1, <2>1, <2>3 DEF AddressIsLast
  <2>5. QED
    BY <1>1, <2>1, <2>4 DEF InStep
<1>4. UploadType'
  BY <1>1, <1>2 DEF UploadInv, UploadType
<1>5. QED
  BY <1>1, <1>3, <1>4 DEF UploadInv

LEMMA AnswersAre ==
  /\ DOMAIN Answers = {"USER", "PASS", "TYPE", "PASV"}
  /\ \A command \in DOMAIN Answers : \A code \in Answers[command] :
       code \in Nat /\ (code = 227 => command = "PASV")
BY DEF Answers

\* The address is the answer to the last command.
LEMMA AnswerKeeps ==
  ASSUME UploadInv, ServerAnswers
  PROVE  UploadInv'
<1>1. /\ UNCHANGED <<client, conn, data, server, sent, stored, result, failed>>
      /\ server = "idle" /\ commands # <<>> /\ commands' = Tail(commands)
      /\ Head(commands) \in DOMAIN Answers
      /\ \E code \in Answers[Head(commands)] : Answer(code)
  BY DEF ServerAnswers
<1> PICK code \in Answers[Head(commands)] : Answer(code)
  BY <1>1
<1>2. /\ code \in Nat /\ (code = 227 => Head(commands) = "PASV")
      /\ Head(commands) \in {"USER", "PASS", "TYPE", "PASV"}
  BY <1>1, AnswersAre
<1>3. /\ replies' \in Seq(Nat) /\ Len(replies') = Len(replies) + 1 /\ Len(replies) \in Nat
      /\ \A i \in 1..Len(replies') : replies'[i] = IF i = Len(replies') THEN code ELSE replies[i]
  BY <1>2, AnswerAppends DEF UploadInv, UploadType
<1>4. /\ commands' \in Seq(Commands) /\ Len(commands') = Len(commands) - 1 /\ Len(commands) \in Nat
      /\ Head(commands) = commands[1] /\ 1 \in 1..Len(commands)
      /\ \A i \in 1..Len(commands') : commands'[i] = commands[i + 1] /\ i + 1 \in 1..Len(commands)
      /\ Len(commands) = 1 => commands' = <<>>
  BY <1>1, CommandTaken DEF UploadInv, UploadType
<1>5. ASSUME failed = FALSE PROVE InStep'
  <2>1. /\ AddressIsLast /\ (result = "nil" => stored = TRUE)
        /\ client \notin {"dial", "stor", "copy", "complete"}
    <3>1. commands # <<"STOR">>
      BY <1>2, <1>4
    <3>2. QED
      BY <1>1, <1>5, <3>1 DEF UploadInv, InStep, AtDial, AtStor, AtCopy, AtComplete
  <2>2. \A i \in 1..Len(replies) : replies[i] # 227
    BY <1>1, <2>1 DEF AddressIsLast
  <2>3. ASSUME NEW i \in 1..Len(replies'), replies'[i] = 227
        PROVE  client = "pasv" /\ i = Len(replies') /\ commands' = <<>>
    <3>1. i = Len(replies') /\ code = 227
      BY <1>3, <2>2, <2>3
    <3>2. commands[1] = "PASV"
      BY <1>2, <1>4, <3>1
    <3>3. client = "pasv" /\ Len(commands) = 1
      BY <1>4, <2>1, <3>2 DEF AddressIsLast
    <3>4. QED
      BY <1>4, <3>1, <3>3
  <2>4. ASSUME NEW i \in 1..Len(commands')
        PROVE  /\ commands'[i] = "PASV" => client = "pasv" /\ i = Len(commands')
               /\ commands'[i] = "STOR" => client = "stor"
    <3>1. commands'[i] = commands[i + 1] /\ i + 1 \in 1..Len(commands)
      BY <1>4
    <3>2. /\ commands[i + 1] = "PASV" => client = "pasv" /\ i + 1 = Len(commands)
          /\ commands[i + 1] = "STOR" => client = "stor"
      BY <2>1, <3>1 DEF AddressIsLast
    <3>3. QED
      BY <1>4, <3>1, <3>2
  <2>5. AddressIsLast'
    BY <1>1, <2>3, <2>4 DEF AddressIsLast
  <2>6. QED
    BY <1>1, <2>1, <2>5 DEF InStep
<1>6. UploadType'
  BY <1>1, <1>3, <1>4 DEF UploadInv, UploadType
<1>7. QED
  BY <1>1, <1>5, <1>6 DEF UploadInv

-----------------------------------------------------------------------------
(* The steps of a transfer, on the server.                                 *)

\* Queues in which there is no address, no PASV and no STOR.
Plain ==
  /\ \A i \in 1..Len(replies) : replies[i] # 227
  /\ \A i \in 1..Len(commands) : commands[i] \notin {"PASV", "STOR"}

LEMMA PlainIsEnough == Plain => AddressIsLast
BY DEF Plain, AddressIsLast

LEMMA PlainElsewhere == AddressIsLast /\ client \notin {"pasv", "stor"} => Plain
BY DEF Plain, AddressIsLast

\* With nothing but codes of a transfer in the queues there is no address.
TransferOnly ==
  /\ commands = <<>>
  /\ \/ replies = <<>>
     \/ \E c \in Opens \cup Refusals \cup Aborts \cup Completes : replies = <<c>>
     \/ \E c \in Opens, a \in Aborts : replies = <<c, a>>

LEMMA TransferIsPlain == TransferOnly => Plain
<1> SUFFICES ASSUME TransferOnly PROVE Plain
  OBVIOUS
<1>1. Len(commands) = 0
  BY DEF TransferOnly
<1>2. \A i \in 1..Len(replies) : replies[i] # 227
  <2>1. CASE replies = <<>>
    BY <2>1
  <2>2. CASE \E c \in Opens \cup Refusals \cup Aborts \cup Completes : replies = <<c>>
    <3>1. PICK c \in Opens \cup Refusals \cup Aborts \cup Completes : replies = <<c>>
      BY <2>2
    <3>2. Len(replies) = 1 /\ replies[1] = c
      BY <3>1
    <3>3. c # 227
      BY DEF Opens, Refusals, Aborts, Completes
    <3>4. QED
      BY <3>2, <3>3
  <2>3. CASE \E c \in Opens, a \in Aborts : replies = <<c, a>>
    <3>1. PICK c \in Opens, a \in Aborts : replies = <<c, a>>
      BY <2>3
    <3>2. Len(replies) = 2 /\ replies[1] = c /\ replies[2] = a
      BY <3>1
    <3>3. c # 227 /\ a # 227
      BY DEF Opens, Aborts
    <3>4. QED
      BY <3>2, <3>3
  <2>4. QED
    BY <2>1, <2>2, <2>3 DEF TransferOnly
<1>3. QED
  BY <1>1, <1>2 DEF Plain

\* A STOR is answered after everything before it.
LEMMA StorKeeps ==
  ASSUME UploadInv, ServerStor
  PROVE  UploadInv'
<1>1. /\ UNCHANGED <<client, conn, data, sent, stored, result, failed>>
      /\ server = "idle" /\ commands # <<>> /\ commands' = Tail(commands) /\ Head(commands) = "STOR"
      /\ \E code \in Opens \cup Refusals :
           /\ Answer(code)
           /\ \/ code \in Opens /\ server' = "transfer"
              \/ code \in Refusals /\ server' = "idle"
  BY DEF ServerStor, Opens, Refusals
<1> PICK code \in Opens \cup Refusals :
           /\ Answer(code)
           /\ \/ code \in Opens /\ server' = "transfer"
              \/ code \in Refusals /\ server' = "idle"
  BY <1>1
<1>2. code \in Nat
  BY DEF Opens, Refusals
<1>3. replies' \in Seq(Nat) /\ (replies = <<>> => replies' = <<code>>)
  BY <1>2, AnswerAppends DEF UploadInv, UploadType
<1>4. /\ commands' \in Seq(Commands) /\ Head(commands) = commands[1] /\ 1 \in 1..Len(commands)
      /\ Len(commands) = 1 => commands' = <<>>
  BY <1>1, CommandTaken DEF UploadInv, UploadType
<1>5. ASSUME failed = FALSE PROVE InStep'
  <2>1. InStep
    BY <1>5 DEF UploadInv
  <2>2. client = "stor"
    BY <1>1, <1>4, <2>1 DEF InStep, AddressIsLast
  <2>3. commands = <<"STOR">> /\ replies = <<>> /\ data = "open"
    BY <1>1, <2>1, <2>2 DEF InStep, AtStor
  <2>4. commands' = <<>> /\ replies' = <<code>>
    BY <1>3, <1>4, <2>3
  <2>5. AtStor'
    BY <1>1, <2>3, <2>4 DEF AtStor
  <2>6. TransferOnly'
    BY <2>4 DEF TransferOnly
  <2>7. AddressIsLast'
    BY <2>6, TransferIsPlain, PlainIsEnough, PTL
  <2>8. QED
    BY <1>1, <2>1, <2>2, <2>5, <2>7 DEF InStep
<1>6. UploadType'
  BY <1>1, <1>3, <1>4 DEF UploadInv, UploadType
<1>7. QED
  BY <1>1, <1>5, <1>6 DEF UploadInv

\* A file is stored when the client has sent it all: the data connection is
\* closed before that only by an upload that fails.
LEMMA StoresKeeps ==
  ASSUME UploadInv, ServerStores
  PROVE  UploadInv'
<1>1. /\ UNCHANGED <<client, conn, data, commands, sent, result, failed>>
      /\ server = "transfer" /\ data = "closed" /\ server' = "idle" /\ stored' = sent
      /\ \E code \in Completes : Answer(code)
  BY DEF ServerStores, Completes
<1> PICK code \in Completes : Answer(code)
  BY <1>1
<1>2. code \in Nat
  BY DEF Completes
<1>3. replies' \in Seq(Nat) /\ (replies = <<>> => replies' = <<code>>)
  BY <1>2, AnswerAppends DEF UploadInv, UploadType
<1>4. ASSUME failed = FALSE PROVE InStep'
  <2>1. InStep
    BY <1>4 DEF UploadInv
  <2>2. client = "complete"
    BY <1>1, <2>1 DEF InStep, AtStor, AtCopy
  <2>3. sent = TRUE /\ commands = <<>> /\ replies = <<>>
    BY <1>1, <2>1, <2>2 DEF InStep, AtComplete
  <2>4. commands' = <<>> /\ replies' = <<code>> /\ sent' = TRUE /\ stored' = TRUE
    BY <1>1, <1>3, <2>3
  <2>5. AtComplete'
    BY <1>1, <2>4 DEF AtComplete
  <2>6. TransferOnly'
    BY <2>4 DEF TransferOnly
  <2>7. AddressIsLast'
    BY <2>6, TransferIsPlain, PlainIsEnough, PTL
  <2>8. QED
    BY <1>1, <2>1, <2>2, <2>4, <2>5, <2>7 DEF InStep
<1>5. UploadType'
  BY <1>1, <1>3 DEF UploadInv, UploadType
<1>6. QED
  BY <1>1, <1>4, <1>5 DEF UploadInv

\* A transfer that fails leaves its error as the last reply.
LEMMA FailsKeeps ==
  ASSUME UploadInv, ServerFails
  PROVE  UploadInv'
<1>1. /\ UNCHANGED <<client, conn, commands, sent, stored, result, failed>>
      /\ server = "transfer" /\ server' = "idle"
      /\ \E code \in Aborts : Answer(code)
  BY DEF ServerFails, Aborts
<1> PICK code \in Aborts : Answer(code)
  BY <1>1
<1>2. code \in Nat
  BY DEF Aborts
<1>3. /\ replies' \in Seq(Nat)
      /\ replies = <<>> => replies' = <<code>>
      /\ \A c \in Nat : replies = <<c>> => replies' = <<c, code>>
  BY <1>2, AnswerAppends DEF UploadInv, UploadType
<1>4. ASSUME failed = FALSE PROVE InStep'
  <2>1. InStep /\ client \in {"stor", "copy", "complete"}
    BY <1>1, <1>4 DEF UploadInv, InStep
  <2>2. CASE client = "stor"
    <3>1. commands = <<>> /\ \E c \in Opens : replies = <<c>>
      BY <1>1, <2>1, <2>2 DEF InStep, AtStor
    <3>2. PICK c \in Opens : replies = <<c>>
      BY <3>1
    <3>3. c \in Nat
      BY DEF Opens
    <3>4. commands' = <<>> /\ replies' = <<c, code>>
      BY <1>1, <1>3, <3>1, <3>2, <3>3
    <3>5. AtStor'
      BY <1>1, <3>4 DEF AtStor
    <3>6. TransferOnly'
      BY <3>4 DEF TransferOnly
    <3>7. AddressIsLast'
      BY <3>6, TransferIsPlain, PlainIsEnough, PTL
    <3>8. QED
      BY <1>1, <2>1, <2>2, <3>5, <3>7 DEF InStep
  <2>3. CASE client \in {"copy", "complete"}
    <3>1. commands = <<>> /\ replies = <<>> /\ (client = "complete" => sent = TRUE)
      BY <1>1, <2>1, <2>3 DEF InStep, AtCopy, AtComplete
    <3>2. commands' = <<>> /\ replies' = <<code>> /\ (client = "complete" => sent' = TRUE)
      BY <1>1, <1>3, <3>1
    <3>3. AtCopy' /\ (client = "complete" => AtComplete')
      BY <1>1, <3>2 DEF AtCopy, AtComplete
    <3>4. TransferOnly'
      BY <3>2 DEF TransferOnly
    <3>5. AddressIsLast'
      BY <3>4, TransferIsPlain, PlainIsEnough, PTL
    <3>6. QED
      BY <1>1, <2>1, <2>3, <3>3, <3>5 DEF InStep
  <2>4. QED
    BY <2>1, <2>2, <2>3
<1>5. UploadType'
  BY <1>1, <1>3 DEF UploadInv, UploadType
<1>6. QED
  BY <1>1, <1>4, <1>5 DEF UploadInv

-----------------------------------------------------------------------------
(* The steps of the client.                                                *)

\* Before the first upload, and between two, the queues are plain: the login
\* sends neither PASV nor STOR.
LEMMA OutsideKeeps ==
  ASSUME UploadInv, Dial \/ Login \/ LoginFails \/ UnInit
  PROVE  UploadInv'
<1>1. /\ client \in {"init", "greeting", "USER", "PASS", "TYPE", "inited"}
      /\ client' \in {"greeting", "USER", "PASS", "TYPE", "inited", "failed", "done"}
      /\ UNCHANGED <<data, sent, stored, result, failed>>
      /\ conn' \in {conn, TRUE, FALSE}
      /\ server' \in {server, "greeting", "gone"}
  <2>1. CASE Dial
    BY <2>1 DEF Dial
  <2>2. CASE Login
    <3>1. client \in {"greeting", "USER", "PASS", "TYPE"} /\ LoginNext[client] \in {"USER", "PASS", "TYPE", "inited"}
      BY <2>2 DEF Login, LoginNext
    <3>2. QED
      BY <2>2, <3>1 DEF Login
  <2>3. CASE LoginFails
    BY <2>3 DEF LoginFails, ClosesConn, LoginNext
  <2>4. CASE UnInit
    BY <2>4 DEF UnInit, ClosesConn
  <2>5. QED
    BY <2>1, <2>2, <2>3, <2>4
<1>2. /\ \/ UNCHANGED replies
         \/ replies' = <<>>
         \/ replies # <<>> /\ replies' = Tail(replies)
      /\ \/ UNCHANGED commands
         \/ commands' = <<>>
         \/ \E command \in {"USER", "PASS", "TYPE"} : Sends(command)
  <2>1. CASE Dial
    BY <2>1 DEF Dial
  <2>2. CASE Login
    <3>1. client # "TYPE" => LoginNext[client] \in {"USER", "PASS", "TYPE"}
      BY <2>2 DEF Login, LoginNext
    <3>2. QED
      BY <2>2, <3>1 DEF Login, ReadsOk
  <2>3. CASE LoginFails
    BY <2>3 DEF LoginFails, ClosesConn
  <2>4. CASE UnInit
    BY <2>4 DEF UnInit, ClosesConn
  <2>5. QED
    BY <2>1, <2>2, <2>3, <2>4
<1>3. UploadType'
  <2>1. replies' \in Seq(Nat)
    <3>1. CASE UNCHANGED replies
      BY <3>1 DEF UploadInv, UploadType
    <3>2. CASE replies' = <<>>
      BY <3>2
    <3>3. CASE replies # <<>> /\ replies' = Tail(replies)
      BY <3>3, ReadTakes DEF UploadInv, UploadType
    <3>4. QED
      BY <1>2, <3>1, <3>2, <3>3
  <2>2. commands' \in Seq(Commands)
    <3>1. CASE UNCHANGED commands
      BY <3>1 DEF UploadInv, UploadType
    <3>2. CASE commands' = <<>>
      BY <3>2
    <3>3. CASE \E command \in {"USER", "PASS", "TYPE"} : Sends(command)
      <4>1. PICK command \in {"USER", "PASS", "TYPE"} : Sends(command)
        BY <3>3
      <4>2. command \in Commands
        BY DEF Commands
      <4>3. QED
        BY <4>1, <4>2, SendAppends DEF UploadInv, UploadType
    <3>4. QED
      BY <1>2, <3>1, <3>2, <3>3
  <2>3. QED
    BY <1>1, <2>1, <2>2 DEF UploadInv, UploadType
<1>4. ASSUME failed = FALSE PROVE InStep'
  <2>1. InStep /\ server # "transfer"
    BY <1>1, <1>4 DEF UploadInv, InStep
  <2>2. Plain
    BY <1>1, <2>1, PlainElsewhere DEF InStep
  <2>3. \A i \in 1..Len(replies') : replies'[i] # 227
    <3>1. CASE UNCHANGED replies
      BY <2>2, <3>1 DEF Plain
    <3>2. CASE replies' = <<>>
      BY <3>2
    <3>3. CASE replies # <<>> /\ replies' = Tail(replies)
      BY <2>2, <3>3, ReadTakes DEF Plain, UploadInv, UploadType
    <3>4. QED
      BY <1>2, <3>1, <3>2, <3>3
  <2>4. \A i \in 1..Len(commands') : commands'[i] \notin {"PASV", "STOR"}
    <3>1. CASE UNCHANGED commands
      BY <2>2, <3>1 DEF Plain
    <3>2. CASE commands' = <<>>
      BY <3>2
    <3>3. CASE \E command \in {"USER", "PASS", "TYPE"} : Sends(command)
      <4>1. PICK command \in {"USER", "PASS", "TYPE"} : Sends(command)
        BY <3>3
      <4>2. /\ Len(commands) \in Nat /\ Len(commands') = Len(commands) + 1
            /\ \A i \in 1..Len(commands') :
                 commands'[i] = IF i = Len(commands') THEN command ELSE commands[i]
        BY <4>1, SendAppends DEF UploadInv, UploadType, Commands
      <4>3. QED
        BY <2>2, <4>2 DEF Plain
    <3>4. QED
      BY <1>2, <3>1, <3>2, <3>3
  <2>5. Plain'
    BY <2>3, <2>4 DEF Plain
  <2>6. AddressIsLast'
    BY <2>5, PlainIsEnough, PTL
  <2>7. QED
    BY <1>1, <2>1, <2>6 DEF InStep
<1>5. QED
  BY <1>1, <1>3, <1>4 DEF UploadInv

\* An upload begins when all the replies of the one before it have been read.
LEMMA UploadKeeps ==
  ASSUME UploadInv, Upload
  PROVE  UploadInv'
<1>1. /\ client = "inited" /\ UNCHANGED <<conn, data, replies, server, failed>>
      /\ stored' = FALSE /\ sent' = FALSE
      /\ \/ Sends("PASV") /\ client' = "pasv" /\ result' = "none"
         \/ client' = "inited" /\ result' = "error" /\ UNCHANGED commands
  BY DEF Upload
<1>2. ASSUME Sends("PASV")
      PROVE  /\ commands' \in Seq(Commands) /\ Len(commands) \in Nat /\ Len(commands') = Len(commands) + 1
             /\ \A i \in 1..Len(commands') :
                  commands'[i] = IF i = Len(commands') THEN "PASV" ELSE commands[i]
  BY <1>2, SendAppends DEF UploadInv, UploadType, Commands
<1>3. UploadType'
  BY <1>1, <1>2 DEF UploadInv, UploadType
<1>4. ASSUME failed = FALSE PROVE InStep'
  <2>1. InStep /\ server # "transfer"
    BY <1>1, <1>4 DEF UploadInv, InStep
  <2>2. Plain
    BY <1>1, <2>1, PlainElsewhere DEF InStep
  <2>3. CASE UNCHANGED commands /\ client' = "inited" /\ result' = "error"
    <3>1. Plain'
      BY <1>1, <2>2, <2>3 DEF Plain
    <3>2. AddressIsLast'
      BY <3>1, PlainIsEnough, PTL
    <3>3. QED
      BY <1>1, <2>1, <2>3, <3>2 DEF InStep
  <2>4. CASE Sends("PASV") /\ client' = "pasv" /\ result' = "none"
    <3>1. \A i \in 1..Len(replies') : replies'[i] # 227
      BY <1>1, <2>2 DEF Plain
    <3>2. \A i \in 1..Len(commands') :
             commands'[i] # "STOR" /\ (commands'[i] = "PASV" => i = Len(commands'))
      BY <1>2, <2>2, <2>4 DEF Plain
    <3>3. AddressIsLast'
      BY <2>4, <3>1, <3>2 DEF AddressIsLast
    <3>4. QED
      BY <1>1, <2>1, <2>4, <3>3 DEF InStep
  <2>5. QED
    BY <1>1, <2>3, <2>4
<1>5. QED
  BY <1>1, <1>3, <1>4 DEF UploadInv

\* An upload that fails says so: nothing is claimed of what follows.
LEMMA ErrorKeeps ==
  ASSUME UploadInv, UploadError,
         conn' = conn, sent' = sent, stored' = stored, commands' = commands,
         replies' = replies \/ (replies # <<>> /\ replies' = Tail(replies))
  PROVE  UploadInv'
<1>1. replies' \in Seq(Nat)
  BY ReadTakes DEF UploadInv, UploadType
<1>2. QED
  BY <1>1 DEF UploadInv, UploadType, UploadError

\* The reply 227 is the last there is.
LEMMA PasvKeeps ==
  ASSUME UploadInv, Pasv
  PROVE  UploadInv'
<1>1. /\ client = "pasv" /\ client' = "dial" /\ replies # <<>> /\ Head(replies) = 227
      /\ replies' = Tail(replies)
      /\ UNCHANGED <<conn, commands, server, sent, stored, result, failed>>
  BY DEF Pasv, ReadsOk
<1>2. /\ replies' \in Seq(Nat) /\ Len(replies') = Len(replies) - 1
      /\ Head(replies) = replies[1] /\ 1 \in 1..Len(replies)
  BY <1>1, ReadTakes DEF UploadInv, UploadType
<1>3. UploadType'
  BY <1>1, <1>2 DEF UploadInv, UploadType
<1>4. ASSUME failed = FALSE PROVE InStep'
  <2>1. InStep
    BY <1>4 DEF UploadInv
  <2>2. Len(replies) = 1 /\ commands = <<>> /\ server = "idle"
    <3>1. AddressIsLast
      BY <2>1 DEF InStep
    <3>2. replies[1] = 227 /\ 1 \in 1..Len(replies)
      BY <1>1, <1>2
    <3>3. QED
      BY <3>1, <3>2 DEF AddressIsLast
  <2>3. replies' = <<>> /\ commands' = <<>> /\ server' = "idle"
    <3>1. PICK rest \in Seq(Nat) : rest = replies'
      BY <1>2
    <3>2. rest = <<>>
      BY <1>2, <2>2, <3>1, EmptyOf
    <3>3. QED
      BY <1>1, <2>2, <3>1, <3>2
  <2>4. AtDial'
    BY <2>3 DEF AtDial
  <2>5. TransferOnly'
    BY <2>3 DEF TransferOnly
  <2>6. AddressIsLast'
    BY <2>5, TransferIsPlain, PlainIsEnough, PTL
  <2>7. QED
    BY <1>1, <2>1, <2>3, <2>4, <2>6 DEF InStep
<1>5. QED
  BY <1>1, <1>3, <1>4 DEF UploadInv

LEMMA PasvFailsKeeps ==
  ASSUME UploadInv, PasvFails
  PROVE  UploadInv'
<1>1. /\ UploadError /\ conn' = conn /\ sent' = sent /\ stored' = stored /\ commands' = commands
      /\ replies' = replies \/ (replies # <<>> /\ replies' = Tail(replies))
  BY DEF PasvFails, ReadsOk, ReadsError, ReadsNothing
<1>2. QED
  BY <1>1, ErrorKeeps

\* STOR is sent when nothing else is on its way.
LEMMA DialDataKeeps ==
  ASSUME UploadInv, DialData
  PROVE  UploadInv'
<1>1. CASE UploadError /\ UNCHANGED commands
  <2>1. conn' = conn /\ sent' = sent /\ stored' = stored /\ commands' = commands /\ replies' = replies
    BY <1>1 DEF DialData
  <2>2. QED
    BY <1>1, <2>1, ErrorKeeps
<1>2. CASE data' = "open" /\ Sends("STOR") /\ client' = "stor" /\ UNCHANGED <<result, failed>>
  <2>1. client = "dial" /\ UNCHANGED <<conn, replies, server, sent, stored>>
    BY DEF DialData
  <2>2. commands' \in Seq(Commands) /\ (commands = <<>> => commands' = <<"STOR">>)
    BY <1>2, SendAppends DEF UploadInv, UploadType, Commands
  <2>3. UploadType'
    BY <1>2, <2>1, <2>2 DEF UploadInv, UploadType
  <2>4. ASSUME failed = FALSE PROVE InStep'
    <3>1. InStep /\ AtDial
      BY <2>1, <2>4 DEF UploadInv, InStep
    <3>2. commands' = <<"STOR">> /\ replies' = <<>> /\ server' = "idle"
      BY <2>1, <2>2, <3>1 DEF AtDial
    <3>3. AtStor'
      BY <1>2, <3>2 DEF AtStor
    <3>4. Len(replies') = 0 /\ Len(commands') = 1 /\ commands'[1] = "STOR"
      BY <3>2
    <3>5. AddressIsLast'
      BY <1>2, <3>4 DEF AddressIsLast
    <3>6. QED
      BY <1>2, <2>1, <3>1, <3>2, <3>3, <3>5 DEF InStep
  <2>5. QED
    BY <1>2, <2>3, <2>4 DEF UploadInv
<1>3. QED
  BY <1>1, <1>2 DEF DialData

\* What Accepts takes of the replies to STOR and to the end of the file.
LEMMA AcceptsAre ==
  /\ \A code \in Refusals \cup Aborts : ~Accepts(code)
  /\ Opens \cup Refusals \cup Aborts \cup Completes \subseteq Nat
BY DEF Accepts, Opens, Refusals, Aborts, Completes

LEMMA StorReplyKeeps ==
  ASSUME UploadInv, Stor
  PROVE  UploadInv'
<1>1. /\ client = "stor" /\ client' = "copy" /\ replies # <<>> /\ Accepts(Head(replies))
      /\ replies' = Tail(replies)
      /\ UNCHANGED <<conn, data, commands, server, sent, stored, result, failed>>
  BY DEF Stor, ReadsOk
<1>2. /\ replies' \in Seq(Nat)
      /\ \A c \in Nat : replies = <<c>> => replies' = <<>> /\ Head(replies) = c
      /\ \A c, a \in Nat : replies = <<c, a>> => replies' = <<a>> /\ Head(replies) = c
  BY <1>1, ReadTakes DEF UploadInv, UploadType
<1>3. UploadType'
  BY <1>1, <1>2 DEF UploadInv, UploadType
<1>4. ASSUME failed = FALSE PROVE InStep'
  <2>1. InStep /\ AtStor
    BY <1>1, <1>4 DEF UploadInv, InStep
  <2>2. commands = <<>>
    BY <1>1, <2>1 DEF AtStor
  <2>3. ~ \E c \in Refusals : replies = <<c>>
    BY <1>1, <1>2, AcceptsAre
  <2>4. AtCopy' /\ TransferOnly'
    <3>1. CASE server = "transfer" /\ data = "open" /\ \E c \in Opens : replies = <<c>>
      <4>1. replies' = <<>> /\ commands' = <<>>
        BY <1>1, <1>2, <2>2, <3>1, AcceptsAre
      <4>2. QED
        BY <1>1, <3>1, <4>1 DEF AtCopy, TransferOnly
    <3>2. CASE server = "idle" /\ \E c \in Opens, a \in Aborts : replies = <<c, a>>
      <4>1. PICK c \in Opens, a \in Aborts : replies = <<c, a>>
        BY <3>2
      <4>2. replies' = <<a>> /\ commands' = <<>>
        BY <1>1, <1>2, <2>2, <4>1, AcceptsAre
      <4>3. QED
        BY <1>1, <3>2, <4>2 DEF AtCopy, TransferOnly
    <3>3. QED
      BY <1>1, <2>1, <2>3, <3>1, <3>2 DEF AtStor
  <2>7. AddressIsLast'
    BY <2>4, TransferIsPlain, PlainIsEnough, PTL
  <2>8. QED
    BY <1>1, <2>1, <2>4, <2>7 DEF InStep
<1>5. QED
  BY <1>1, <1>3, <1>4 DEF UploadInv

LEMMA StorFailsKeeps ==
  ASSUME UploadInv, StorFails
  PROVE  UploadInv'
<1>1. /\ UploadError /\ conn' = conn /\ sent' = sent /\ stored' = stored /\ commands' = commands
      /\ replies' = replies \/ (replies # <<>> /\ replies' = Tail(replies))
  BY DEF StorFails, ReadsError, ReadsNothing
<1>2. QED
  BY <1>1, ErrorKeeps

LEMMA CopyKeeps ==
  ASSUME UploadInv, CopyAll
  PROVE  UploadInv'
<1>1. /\ client = "copy" /\ client' = "complete" /\ sent' = TRUE
      /\ UNCHANGED <<conn, replies, commands, server, stored, result, failed>>
  BY DEF CopyAll
<1>2. UploadType'
  BY <1>1 DEF UploadInv, UploadType
<1>3. ASSUME failed = FALSE PROVE InStep'
  <2>1. InStep /\ AtCopy
    BY <1>1, <1>3 DEF UploadInv, InStep
  <2>2. AtComplete'
    BY <1>1, <2>1 DEF AtCopy, AtComplete
  <2>3. TransferOnly'
    BY <1>1, <2>1 DEF AtCopy, TransferOnly
  <2>4. AddressIsLast'
    BY <2>3, TransferIsPlain, PlainIsEnough, PTL
  <2>5. QED
    BY <1>1, <2>1, <2>2, <2>4 DEF InStep
<1>4. QED
  BY <1>1, <1>2, <1>3 DEF UploadInv

LEMMA CopyFailsKeeps ==
  ASSUME UploadInv, CopyFails
  PROVE  UploadInv'
<1>1. /\ UploadError /\ conn' = conn /\ sent' = sent /\ stored' = stored /\ commands' = commands
      /\ replies' = replies \/ (replies # <<>> /\ replies' = Tail(replies))
  BY DEF CopyFails
<1>2. QED
  BY <1>1, ErrorKeeps

\* The reply that says the file is stored is the only one that is accepted.
LEMMA CompleteKeeps ==
  ASSUME UploadInv, Complete
  PROVE  UploadInv'
<1>1. /\ client = "complete" /\ client' = "inited" /\ result' = "nil"
      /\ replies # <<>> /\ Accepts(Head(replies)) /\ replies' = Tail(replies)
      /\ UNCHANGED <<conn, data, commands, server, sent, stored, failed>>
  BY DEF Complete, ReadsOk
<1>2. /\ replies' \in Seq(Nat)
      /\ \A c \in Nat : replies = <<c>> => replies' = <<>> /\ Head(replies) = c
  BY <1>1, ReadTakes DEF UploadInv, UploadType
<1>3. UploadType'
  BY <1>1, <1>2 DEF UploadInv, UploadType
<1>4. ASSUME failed = FALSE PROVE InStep'
  <2>1. InStep /\ AtComplete
    BY <1>1, <1>4 DEF UploadInv, InStep
  <2>2. ~ \E c \in Aborts : replies = <<c>>
    BY <1>1, <1>2, AcceptsAre
  <2>3. /\ server = "idle" /\ commands = <<>> /\ stored = TRUE
        /\ \E c \in Completes : replies = <<c>>
    BY <1>1, <2>1, <2>2 DEF AtComplete
  <2>4. replies' = <<>> /\ commands' = <<>> /\ server' = "idle" /\ stored' = TRUE
    BY <1>1, <1>2, <2>3, AcceptsAre
  <2>5. TransferOnly'
    BY <2>4 DEF TransferOnly
  <2>6. AddressIsLast'
    BY <2>5, TransferIsPlain, PlainIsEnough, PTL
  <2>7. QED
    BY <1>1, <2>1, <2>4, <2>6 DEF InStep
<1>5. QED
  BY <1>1, <1>3, <1>4 DEF UploadInv

LEMMA CompleteFailsKeeps ==
  ASSUME UploadInv, CompleteFails
  PROVE  UploadInv'
<1>1. /\ UploadError /\ conn' = conn /\ sent' = sent /\ stored' = stored /\ commands' = commands
      /\ replies' = replies \/ (replies # <<>> /\ replies' = Tail(replies))
  BY DEF CompleteFails, ReadsError, ReadsNothing
<1>2. QED
  BY <1>1, ErrorKeeps

-----------------------------------------------------------------------------
(* The theorem.                                                            *)

LEMMA StutterKeepsUpload == UploadInv /\ UNCHANGED uploadVars => UploadInv'
<1> SUFFICES ASSUME UploadInv, UNCHANGED uploadVars PROVE UploadInv'
  OBVIOUS
<1>1. UNCHANGED <<client, conn, data, replies, commands, server, sent, stored, result, failed>>
  BY DEF uploadVars
<1>2. QED
  BY <1>1 DEF UploadInv, UploadType, InStep, AddressIsLast, AtDial, AtStor, AtCopy, AtComplete

LEMMA UploadInvStep == UploadInv /\ [UploadNext]_uploadVars => UploadInv'
BY StutterKeepsUpload, GreetingKeeps, AnswerKeeps, StorKeeps, StoresKeeps, FailsKeeps, OutsideKeeps,
   UploadKeeps, PasvKeeps, PasvFailsKeeps, DialDataKeeps, StorReplyKeeps, StorFailsKeeps,
   CopyKeeps, CopyFailsKeeps, CompleteKeeps, CompleteFailsKeeps
   DEF UploadNext

LEMMA UploadInvHolds == UploadSpec => []UploadInv
BY UploadInvInit, UploadInvStep, PTL DEF UploadSpec

LEMMA UploadInvIsEnough == UploadInv => UploadOkMeansStored
BY DEF UploadInv, InStep, UploadOkMeansStored, UploadType

\* An upload that UploadFile reports as done has put the whole file on the
\* server, as long as no upload of its session has failed before it: whatever
\* the server answers and when, however many uploads the session makes, the
\* reply that Upload returns on is the one to its own transfer.
THEOREM UploadOkHolds == UploadSpec => []UploadOkMeansStored
BY UploadInvHolds, UploadInvIsEnough, PTL

=============================================================================
