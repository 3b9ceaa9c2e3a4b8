----------------------------- MODULE FileServer -----------------------------
(***************************************************************************)
(* The file server and its clients of Lab4: server.c and client.c, over    *)
(* TCP connections.  The server is one process that serves one client      *)
(* until that is gone; the others wait in the backlog of listen().         *)
(*                                                                         *)
(* Every write is a whole record of MAX bytes, but for the bytes of a      *)
(* file.  A read of MAX bytes takes one record; a read of a file's bytes   *)
(* may return with less (is short) when the file is big.  A record is a    *)
(* line (its words), a text, the end of an answer (""), an echo (a word    *)
(* that tells the client what to do), a head (name and size of a file) or  *)
(* the data of a file.                                                     *)
(*                                                                         *)
(* Each side works in a place: a directory top, in which there may be a    *)
(* directory d, and a file f in either; cwd may be d after its removal.    *)
(* top and d are typed as absolute paths, f as it is.  Where the server    *)
(* dies the model ends: its clients go by what their last read left in ans.*)
(***************************************************************************)
EXTENDS Integers, Sequences, FiniteSets

CONSTANTS
  Clients,
  Lines,      \* the lines that are typed, as sequences of words
  Mine,       \* Mine[c]: what the file f of client c holds, NONE when it has none
  Theirs,     \* what the server's file f holds
  Big,        \* the contents that one read may not get whole
  NONE, GARBLED, EMPTY

VARIABLES
  pc, hold, place,                      \* of the clients; place[SERVER] is the server's
  srv, client_sock, last, todo,         \* of the server
  backlog, conn, up, down,              \* of the network
  skipped,    \* history: the clients that have been sent, or have sent, nothing
              \* where the other side waits for something
  cut         \* history: has a client left in the middle of a command, or been
              \* out of step after a short read

clientVars == <<pc, hold>>
serverVars == <<srv, client_sock, last, todo>>
netVars    == <<backlog, conn, up, down>>
history    == <<skipped, cut>>
vars == <<clientVars, place, serverVars, netVars, history>>

SERVER == "server"
ASSUME NamesAssumption == SERVER \notin Clients /\ NONE \notin Clients
ASSUME ContentsAssumption == GARBLED \notin {NONE, EMPTY, Theirs} \cup {Mine[c] : c \in Clients}

Text == [kind |-> "text"]
End  == [kind |-> "end"]
Echo(word) == [kind |-> "echo", word |-> word]
Line(words) == [kind |-> "line", words |-> words]
FileHead == [kind |-> "head"]
Data(bytes) == [kind |-> "data", bytes |-> bytes]

-----------------------------------------------------------------------------
(* Commands on a place p.                                                  *)

Apply(p, words) ==
  CASE words = <<"mkdir", "d">> -> [p EXCEPT !.d = TRUE]
    [] words = <<"rmdir", "d">> /\ p.f["d"] = NONE ->
         [p EXCEPT !.d = FALSE, !.cwd = IF @ = "d" THEN "removed" ELSE @]
    [] words = <<"cd", "d">> /\ p.d -> [p EXCEPT !.cwd = "d"]
    [] words = <<"cd", "top">> -> [p EXCEPT !.cwd = "top"]
    [] words = <<"rm", "f">> /\ p.cwd # "removed" -> [p EXCEPT !.f[p.cwd] = NONE]
    [] OTHER -> p

\* Where get() and put() find what they are asked for: the file f; of d/f,
\* dirname() leaves d, and they look for that in the directory d.
Find(p, name) ==
  CASE name = "f" -> IF p.cwd # "removed" /\ p.f[p.cwd] # NONE THEN "found" ELSE "notfound"
    [] OTHER      -> IF p.d THEN "notfound" ELSE "nodir"

\* No file can be made in a directory that was removed.
Store(p, bytes) == IF p.cwd = "removed" THEN p ELSE [p EXCEPT !.f[p.cwd] = bytes]

Remote == {"ls", "mkdir", "cd", "rmdir", "pwd", "rm"}
Local  == [lls |-> "ls", lmkdir |-> "mkdir", lcd |-> "cd", lrmdir |-> "rmdir", lpwd |-> "pwd",
           lrm |-> "rm"]

\* Fault: an answer to get has an end, as the others have.
AnswerEnds(p, words) ==
  CASE words[1] \in Remote -> <<Text, End>>
    [] words[1] = "get" -> <<Echo("get"), FileHead, Data(p.f[p.cwd]), End>>
    [] words[1] \in DOMAIN Local \cup {"put"} -> <<Echo(words[1])>>
    [] OTHER -> <<>>

\* Fault: the answer to a command on names has no end.
AnswerUnended(p, words) ==
  CASE words[1] \in Remote -> <<Text>>
    [] words[1] = "get" ->
         <<Echo("get")>> \o (CASE Find(p, words[2]) = "found" -> <<FileHead, Data(p.f[p.cwd])>>
                               [] Find(p, words[2]) = "notfound" -> <<End>>
                               [] OTHER -> <<>>)
    [] words[1] \in DOMAIN Local \cup {"put"} -> <<Echo(words[1])>>
    [] OTHER -> <<>>

\* What the server writes for a line.
Answer(p, words) ==
  CASE words[1] \in Remote -> <<Text, End>>
    [] words[1] = "get" ->
         <<Echo("get")>> \o (CASE Find(p, words[2]) = "found" -> <<FileHead, Data(p.f[p.cwd])>>
                               [] Find(p, words[2]) = "notfound" -> <<End>>
                               [] OTHER -> <<>>)
    [] words[1] \in DOMAIN Local \cup {"put"} -> <<Echo(words[1])>>
    [] OTHER -> <<>>

\* Does the client then wait for a record that nobody writes?
Mute(p, words) ==
  Answer(p, words) = <<>> \/ (words[1] = "get" /\ Answer(p, words) = <<Echo("get")>>)

-----------------------------------------------------------------------------
(* The client.                                                             *)

Goto(c, label) == pc' = [pc EXCEPT ![c] = label]
Send(c, m) == up' = [up EXCEPT ![c] = Append(@, m)]
Take(c)    == down' = [down EXCEPT ![c] = Tail(@)]

Connect(c) ==
  /\ pc[c] = "away" /\ srv # "dead"
  /\ Goto(c, "prompt")
  /\ backlog' = Append(backlog, c) /\ conn' = [conn EXCEPT ![c] = "open"]
  /\ UNCHANGED <<hold, place, serverVars, up, down, history>>

Type(c, words) ==
  /\ pc[c] = "prompt" /\ srv # "dead"
  /\ Goto(c, "answer") /\ hold' = [hold EXCEPT ![c] = words]
  /\ Send(c, Line(words))
  /\ UNCHANGED <<place, serverVars, backlog, conn, down, history>>

\* put(), when the server has echoed it: the head, and then the data.
PutStart(c) ==
  LET how == Find(place[c], hold[c][2])
  IN  /\ Goto(c, IF how = "found" THEN "putdata" ELSE "prompt")
      /\ CASE how = "found" -> Send(c, FileHead)
           [] how = "notfound" -> Send(c, End)
           [] OTHER -> UNCHANGED up
      /\ skipped' = IF how = "nodir" THEN skipped \cup {c} ELSE skipped

\* The loop that reads an answer, up to its end or an echo.
Receive(c) ==
  /\ pc[c] = "answer" /\ down[c] # <<>> /\ Take(c)
  /\ \E m \in {Head(down[c])} :
       \/ m.kind \notin {"end", "echo"} /\ UNCHANGED <<pc, place, up, skipped>>
       \/ m.kind = "end" /\ Goto(c, "prompt") /\ UNCHANGED <<place, up, skipped>>
       \/ /\ m.kind = "echo" /\ m.word \in DOMAIN Local
          /\ place' = [place EXCEPT ![c] = Apply(@, [hold[c] EXCEPT ![1] = Local[m.word]])]
          /\ Goto(c, "prompt") /\ UNCHANGED <<up, skipped>>
       \/ /\ m.kind = "echo" /\ m.word = "get"
          /\ Goto(c, "gethead") /\ UNCHANGED <<place, up, skipped>>
       \/ m.kind = "echo" /\ m.word = "put" /\ PutStart(c) /\ UNCHANGED place
  /\ UNCHANGED <<hold, serverVars, backlog, conn, cut>>

\* Fault: the data of the file is not sent.
PutDataNot(c) ==
  /\ pc[c] = "putdata"
  /\ Goto(c, "prompt")
  /\ UNCHANGED <<hold, place, serverVars, netVars, history>>

PutData(c) ==
  /\ pc[c] = "putdata"
  /\ Goto(c, "prompt") /\ Send(c, Data(place[c].f[place[c].cwd]))
  /\ UNCHANGED <<hold, place, serverVars, backlog, conn, down, history>>

\* Fault: the head goes into the file.
GetHeadStored(c) ==
  /\ pc[c] = "gethead" /\ down[c] # <<>> /\ Take(c)
  /\ \E m \in {Head(down[c])} :
       \/ m.kind = "end" /\ Goto(c, "prompt") /\ UNCHANGED place
       \/ /\ m.kind # "end" /\ Goto(c, "getdata")
          /\ place' = [place EXCEPT ![c] = Store(@, m)]
  /\ UNCHANGED <<hold, serverVars, backlog, conn, up, history>>

\* The file is cut before its bytes are read.
GetHead(c) ==
  /\ pc[c] = "gethead" /\ down[c] # <<>> /\ Take(c)
  /\ \E m \in {Head(down[c])} :
       \/ m.kind = "end" /\ Goto(c, "prompt") /\ UNCHANGED place
       \/ /\ m.kind # "end" /\ Goto(c, "getdata")
          /\ place' = [place EXCEPT ![c] = Store(@, EMPTY)]
  /\ UNCHANGED <<hold, serverVars, backlog, conn, up, history>>

\* A record m where file bytes are awaited: it is taken whole, or a part of it.
Whole(m) == m.kind = "data" /\ m.bytes # GARBLED
Short(m) == m.kind # "data" \/ m.bytes \in Big \cup {GARBLED}

GetData(c) ==
  /\ pc[c] = "getdata" /\ down[c] # <<>>
  /\ \E m \in {Head(down[c])} :
       \/ /\ Whole(m) /\ Take(c) /\ Goto(c, "prompt")
          /\ place' = [place EXCEPT ![c] = Store(@, m.bytes)] /\ UNCHANGED cut
       \/ /\ Short(m) /\ Goto(c, "astray") /\ cut' = TRUE
          /\ place' = [place EXCEPT ![c] = Store(@, GARBLED)] /\ UNCHANGED down
  /\ UNCHANGED <<hold, serverVars, backlog, conn, up, skipped>>

\* An empty line at the prompt, or a kill at any time.  A socket that is
\* closed with something unread is reset.
Leave(c) ==
  /\ pc[c] \notin {"away", "gone"} /\ srv # "dead"
  /\ Goto(c, "gone")
  /\ conn' = [conn EXCEPT ![c] = IF down[c] = <<>> THEN "fin" ELSE "reset"]
  /\ down' = [down EXCEPT ![c] = <<>>]
  /\ cut' = (cut \/ pc[c] # "prompt")
  /\ UNCHANGED <<hold, place, serverVars, backlog, up, skipped>>

-----------------------------------------------------------------------------
(* The server.  After a reset the next read or write fails; from then on a *)
(* read returns 0 and a write kills, as it does when a client that is gone *)
(* has answered a write with a reset.                                      *)

Incoming == up[client_sock]
Read     == up' = [up EXCEPT ![client_sock] = Tail(@)]
NoMore   == Incoming = <<>> /\ conn[client_sock] # "open"
Failed   == conn' = [conn EXCEPT ![client_sock] = IF @ = "reset" THEN "broken" ELSE @]

Accept ==
  /\ srv = "accept" /\ backlog # <<>>
  /\ srv' = "line" /\ client_sock' = Head(backlog) /\ backlog' = Tail(backlog)
  /\ UNCHANGED <<clientVars, place, last, todo, conn, up, down, history>>

\* The handler of a command: what it does here, and what it will write.
Execute(words) ==
  /\ last' = words[1] /\ todo' = Answer(place[SERVER], words)
  /\ srv' = IF todo' = <<>> THEN "line" ELSE "write"
  /\ place' = [place EXCEPT ![SERVER] = Apply(@, words)]
  /\ skipped' = IF Mute(place[SERVER], words) THEN skipped \cup {client_sock} ELSE skipped

\* A line without a word is handed to strcmp() as NULL.
ReadLine ==
  /\ srv = "line" /\ Incoming # <<>> /\ Read
  /\ \E m \in {Head(Incoming)} :
       \/ m.kind = "line" /\ m.words # <<>> /\ Execute(m.words)
       \/ /\ m.kind # "line" \/ m.words = <<>>
          /\ srv' = "dead" /\ UNCHANGED <<place, last, todo, skipped>>
  /\ UNCHANGED <<clientVars, client_sock, backlog, conn, down, cut>>

\* Fault: a client that has left is not noticed.
ReadEndNot == FALSE /\ UNCHANGED vars

ReadEnd ==
  /\ srv = "line" /\ NoMore /\ conn[client_sock] # "reset"
  /\ srv' = "accept" /\ client_sock' = NONE
  /\ UNCHANGED <<clientVars, place, last, todo, netVars, history>>

\* n = -1: the first word of the last line is a line once more.  What is then
\* written does not matter, as there is nobody to read it.
ReadError ==
  /\ srv = "line" /\ NoMore /\ conn[client_sock] = "reset" /\ Failed
  /\ todo' = Answer(place[SERVER], <<last, "f">>)
  /\ srv' = IF todo' = <<>> THEN "line" ELSE "write"
  /\ UNCHANGED <<clientVars, place, client_sock, last, backlog, up, down, history>>

Write ==
  LET c == client_sock
      next == IF Len(todo) > 1 THEN "write" ELSE IF last = "put" THEN "puthead" ELSE "line"
  IN  /\ srv = "write" /\ todo' = Tail(todo)
      /\ CASE conn[c] = "open" ->
                down' = [down EXCEPT ![c] = Append(@, Head(todo))] /\ srv' = next /\ UNCHANGED conn
           [] conn[c] \in {"fin", "reset"} ->
                conn' = [conn EXCEPT ![c] = "broken"] /\ srv' = next /\ UNCHANGED down
           [] OTHER -> srv' = "dead" /\ UNCHANGED <<conn, down>>
      /\ UNCHANGED <<clientVars, place, client_sock, last, backlog, up, history>>

\* Fault: "" is not looked for.
PutHeadUnchecked ==
  /\ srv = "puthead"
  /\ \/ /\ Incoming # <<>> /\ Read /\ UNCHANGED conn
        /\ \E m \in {Head(Incoming)} :
             \/ /\ m.kind = "head" /\ srv' = "putdata"
                /\ place' = [place EXCEPT ![SERVER] = Store(@, EMPTY)]
             \/ /\ m.kind # "head" /\ UNCHANGED place
                /\ srv' = IF m.kind = "line" /\ Len(m.words) = 2 THEN "line" ELSE "dead"
     \/ NoMore /\ Failed /\ srv' \in {"line", "dead"} /\ UNCHANGED <<up, place>>
  /\ UNCHANGED <<clientVars, client_sock, last, todo, backlog, down, history>>

\* put(): "" ends it.  Another line than a head is taken for one: it kills
\* when it has no second word, which else counts as 0 bytes.  When the client
\* is gone the head is what malloc() has left in rec.
PutHead ==
  /\ srv = "puthead"
  /\ \/ /\ Incoming # <<>> /\ Read /\ UNCHANGED conn
        /\ \E m \in {Head(Incoming)} :
             \/ m.kind = "end" /\ srv' = "line" /\ UNCHANGED place
             \/ /\ m.kind = "head" /\ srv' = "putdata"
                /\ place' = [place EXCEPT ![SERVER] = Store(@, EMPTY)]
             \/ /\ m.kind = "line" /\ UNCHANGED place
                /\ srv' = IF Len(m.words) = 2 THEN "line" ELSE "dead"
     \/ NoMore /\ Failed /\ srv' \in {"line", "dead"} /\ UNCHANGED <<up, place>>
  /\ UNCHANGED <<clientVars, client_sock, last, todo, backlog, down, history>>

ReadData ==
  /\ srv = "putdata"
  /\ \/ /\ Incoming # <<>> /\ Whole(Head(Incoming)) /\ Read /\ srv' = "line"
        /\ place' = [place EXCEPT ![SERVER] = Store(@, Head(Incoming).bytes)]
        /\ UNCHANGED <<conn, cut>>
     \/ /\ Incoming # <<>> /\ Short(Head(Incoming)) /\ srv' = "astray" /\ cut' = TRUE
        /\ place' = [place EXCEPT ![SERVER] = Store(@, GARBLED)]
        /\ UNCHANGED <<up, conn>>
     \/ /\ NoMore /\ Failed /\ srv' = "line"
        /\ place' = [place EXCEPT ![SERVER] = Store(@, GARBLED)]
        /\ UNCHANGED <<up, cut>>
  /\ UNCHANGED <<clientVars, client_sock, last, todo, backlog, down, skipped>>

\* The rest of a file is read as lines, any one of which may have no word.
Astray ==
  /\ srv = "astray"
  /\ \/ conn[client_sock] # "open" /\ srv' = "accept" /\ client_sock' = NONE
     \/ srv' = "dead" /\ UNCHANGED client_sock
  /\ UNCHANGED <<clientVars, place, last, todo, netVars, history>>

-----------------------------------------------------------------------------
Init ==
  /\ pc = [c \in Clients |-> "away"] /\ hold = [c \in Clients |-> NONE]
  /\ place = [s \in Clients \cup {SERVER} |->
                [cwd |-> "top", d |-> FALSE,
                 f |-> [dir \in {"top", "d"} |->
                          IF dir = "d" THEN NONE ELSE IF s = SERVER THEN Theirs ELSE Mine[s]]]]
  /\ srv = "accept" /\ client_sock = NONE /\ last = NONE /\ todo = <<>>
  /\ backlog = <<>> /\ conn = [c \in Clients |-> "none"]
  /\ up = [c \in Clients |-> <<>>] /\ down = [c \in Clients |-> <<>>]
  /\ skipped = {} /\ cut = FALSE

Serve == Accept \/ ReadLine \/ ReadEnd \/ ReadError \/ Write \/ PutHead \/ ReadData \/ Astray

Work(c) == Receive(c) \/ PutData(c) \/ GetHead(c) \/ GetData(c)
User(c) == Connect(c) \/ Leave(c) \/ \E words \in Lines : Type(c, words)

Next == Serve \/ \E c \in Clients : Work(c) \/ User(c)

\* The server and the clients run; nobody has to type or leave.
Spec == Init /\ [][Next]_vars /\ WF_vars(Serve) /\ \A c \in Clients : WF_vars(Work(c))

-----------------------------------------------------------------------------
Contents == {NONE, EMPTY, GARBLED, Theirs} \cup {Mine[c] : c \in Clients}
Words == {"ls", "mkdir", "cd", "rmdir", "pwd", "rm", "get", "put"} \cup DOMAIN Local

Places  == [cwd : {"top", "d", "removed"}, d : BOOLEAN, f : [{"top", "d"} -> Contents]]
DownMsg == {Text, End, FileHead} \cup {Echo(w) : w \in Words} \cup {Data(b) : b \in Contents}
UpMsg   == {End, FileHead} \cup {Line(l) : l \in Lines} \cup {Data(b) : b \in Contents}

\* Type invariant.
TypeOK ==
  /\ pc \in [Clients -> {"away", "prompt", "answer", "putdata", "gethead", "getdata",
                         "astray", "gone"}]
  /\ hold \in [Clients -> Lines \cup {NONE}]
  /\ place \in [Clients \cup {SERVER} -> Places]
  /\ srv \in {"accept", "line", "write", "puthead", "putdata", "astray", "dead"}
  /\ client_sock \in Clients \cup {NONE}
  /\ backlog \in Seq(Clients)
  /\ conn \in [Clients -> {"none", "open", "fin", "reset", "broken"}]
  /\ todo \in Seq(DownMsg)
  /\ up \in [Clients -> Seq(UpMsg)] /\ down \in [Clients -> Seq(DownMsg)]
  /\ skipped \subseteq Clients /\ cut \in BOOLEAN

(***************************************************************************)
(* Both sides stay in step: whatever is read next is of the kind that its  *)
(* reader takes it for, nothing is left unread at the prompt, and a client *)
(* reads nothing while it sends a file.  There are no lengths or types in  *)
(* the protocol, so that a record too many or too few is never noticed.    *)
(***************************************************************************)
InStep ==
  /\ \A c \in Clients : down[c] # <<>> =>
       \/ pc[c] = "answer"  /\ Head(down[c]).kind \in {"text", "end", "echo"}
       \/ pc[c] = "gethead" /\ Head(down[c]).kind \in {"head", "end"}
       \/ pc[c] = "getdata" /\ Head(down[c]).kind = "data"
       \/ pc[c] = "astray"
  /\ client_sock # NONE /\ client_sock \notin skipped /\ Incoming # <<>> =>
       /\ srv = "line"    => Head(Incoming).kind = "line"
       /\ srv = "puthead" => Head(Incoming).kind \in {"head", "end"}
       /\ srv = "putdata" => Head(Incoming).kind = "data"

(***************************************************************************)
(* "client died, server loops" (server.c:383): a client that leaves at its *)
(* prompt does not take the server with it, whatever it or others have     *)
(* done, short of a line without a word, a name in a directory that is not *)
(* there, or a client that left in the middle of a command.                *)
(***************************************************************************)
ServerSurvives ==
  srv = "dead" => cut \/ skipped # {} \/ \E c \in Clients : hold[c] = <<>>

(***************************************************************************)
(* A file that get or put has made is one of those that were there before, *)
(* whole - unless a client left in the middle, a read was short, or one    *)
(* side sent nothing and the next record was taken for another.            *)
(***************************************************************************)
FilesWhole ==
  \A s \in DOMAIN place, dir \in {"top", "d"} : place[s].f[dir] = GARBLED => cut \/ skipped # {}

(***************************************************************************)
(* A client that is being served gets its prompt back after every command, *)
(* unless nothing was sent where it waits for something (an unknown        *)
(* command; get or put of a name in a directory that is not there).        *)
(***************************************************************************)
Served(c) == client_sock = c /\ pc[c] \in {"answer", "gethead", "getdata", "putdata"}
Answered ==
  \A c \in Clients :
    Served(c) ~> pc[c] \in {"prompt", "gone", "astray"} \/ c \in skipped \/ srv \in {"dead", "astray"}

(***************************************************************************)
(* The server gets rid of a client that has left, in whatever state it and *)
(* the connection are, and goes on to the next (or dies).                  *)
(***************************************************************************)
LeftBehind ==
  \A c \in Clients : client_sock = c /\ pc[c] = "gone" ~> client_sock # c \/ srv = "dead"

=============================================================================
