-------------------------- MODULE FileServerProofs --------------------------
(***************************************************************************)
(* Proofs about FileServer, for any number of clients, any lines and any   *)
(* contents of files: the two sides of a connection stay in step, and what *)
(* kills the server or garbles a file is one of the named causes.          *)
(*                                                                         *)
(* The inductive invariant says, for each client, which records may be on  *)
(* its two streams while it and the server are where they are.             *)
(***************************************************************************)
EXTENDS FileServer, SequenceTheorems, TLAPS

Queued(c) == \E k \in DOMAIN backlog : backlog[k] = c

\* What client c has still to read, when it is being served.
Stream(c) == down[c] \o todo

\* Up is what a client at its prompt has sent and the server, at s, not read.
\* mute: has one of them sent nothing where the other waits?
Sent(s, Up, mute) ==
  \/ s = "line" /\ Up = <<>>
  \/ s = "puthead" /\ \/ Up = <<End>>
                      \/ \E b \in Contents : Up = <<FileHead, Data(b)>>
                      \/ mute /\ Up = <<>>
  \/ s = "putdata" /\ \E b \in Contents : Up = <<Data(b)>>

\* The same, when it has typed words since.
Asked(s, Up, mute, words) ==
  \/ s = "line" /\ Up = <<Line(words)>>
  \/ s = "puthead" /\ \/ Up = <<End, Line(words)>>
                      \/ \E b \in Contents : Up = <<FileHead, Data(b), Line(words)>>
                      \/ mute /\ Up = <<Line(words)>>
  \/ s = "putdata" /\ \E b \in Contents : Up = <<Data(b), Line(words)>>

\* What may be left of an answer, but that of put.
Rest(mute) ==
  {<<Text, End>>, <<End>>, <<Echo("get"), End>>}
    \cup (IF mute THEN {<<Echo("get")>>} ELSE {})
    \cup {<<Echo(w)>> : w \in DOMAIN Local}
    \cup {<<Echo("get"), FileHead, Data(b)>> : b \in Contents}

\* The server answers, or waits for a line, after a command that is not put.
Answers == srv \in {"write", "line"} /\ last # "put"

Muted(c) == c \in skipped

AtPrompt(c)  == pc[c] = "prompt" /\ Stream(c) = <<>> /\ Sent(srv, up[c], Muted(c))
Asking(c)    == /\ pc[c] = "answer" /\ Stream(c) = <<>>
                /\ Asked(srv, up[c], Muted(c), hold[c])
Answering(c) == /\ pc[c] = "answer" /\ up[c] = <<>>
                /\ \/ Answers /\ Stream(c) \in Rest(Muted(c))
                   \/ /\ srv \in {"write", "puthead"} /\ last = "put"
                      /\ Stream(c) = <<Echo("put")>>
Stuck(c)     == /\ pc[c] \in {"answer", "gethead"} /\ Muted(c) /\ srv = "line"
                /\ Stream(c) = <<>> /\ up[c] = <<>>
Heading(c)   == /\ pc[c] = "gethead" /\ up[c] = <<>> /\ Answers
                /\ \/ Stream(c) = <<End>>
                   \/ \E b \in Contents : Stream(c) = <<FileHead, Data(b)>>
Getting(c)   == /\ pc[c] \in {"getdata", "astray"} /\ up[c] = <<>> /\ Answers
                /\ \E b \in Contents : Stream(c) = <<Data(b)>>
Putting(c)   == /\ pc[c] = "putdata" /\ Stream(c) = <<>>
                /\ \/ srv = "puthead" /\ up[c] = <<FileHead>>
                   \/ srv = "putdata" /\ up[c] = <<>>
Lost(c)      == pc[c] \in {"prompt", "answer"} /\ srv \in {"astray", "dead"} /\ Stream(c) = <<>>

\* What a client that left may have sent; only if it left at its prompt, and
\* not muted, is it all that the server waits for.
Gone(c) ==
  /\ pc[c] = "gone"
  /\ \/ Sent(srv, up[c], TRUE) \/ Asked(srv, up[c], Muted(c), hold[c])
     \/ srv = "puthead" /\ up[c] = <<FileHead>>
     \/ srv \in {"putdata", "write"} /\ up[c] = <<>>
     \/ srv \in {"astray", "dead"}
  /\ cut \/ Muted(c) \/ (conn[c] = "fin" /\ Sent(srv, up[c], FALSE))

Serving(c) ==
  \/ AtPrompt(c) \/ Asking(c) \/ Answering(c) \/ Stuck(c) \/ Heading(c) \/ Getting(c)
  \/ Putting(c) \/ Lost(c) \/ Gone(c)

\* A client in the backlog.
Waiting(c) ==
  \/ pc[c] = "prompt" /\ up[c] = <<>>
  \/ pc[c] = "answer" /\ up[c] = <<Line(hold[c])>>
  \/ pc[c] = "gone" /\ conn[c] = "fin" /\ up[c] = <<>>
  \/ pc[c] = "gone" /\ conn[c] = "fin" /\ up[c] = <<Line(hold[c])>> /\ cut

Session(c) ==
  /\ conn[c] = "open" <=> pc[c] \notin {"away", "gone"}
  /\ conn[c] = "none" <=> pc[c] = "away"
  /\ pc[c] = "away" => ~Queued(c) /\ c # client_sock /\ up[c] = <<>>
  /\ pc[c] = "gone" => down[c] = <<>>
  /\ pc[c] \notin {"away", "gone"} /\ c # client_sock => Queued(c)
  /\ pc[c] = "putdata" => place[c].cwd # "removed"
  /\ pc[c] = "astray" => cut
  /\ c # client_sock => down[c] = <<>>
  /\ Queued(c) => c # client_sock /\ Waiting(c)
  /\ c = client_sock => Serving(c)

ServerOK ==
  /\ srv = "accept" <=> client_sock = NONE
  /\ srv = "write" => todo # <<>>
  /\ srv \notin {"write", "dead"} => todo = <<>>
  /\ srv = "astray" => cut
  /\ \A j, k \in DOMAIN backlog : backlog[j] = backlog[k] => j = k

Sessions == \A c \in Clients : Session(c)

IInv == TypeOK /\ ServerOK /\ FilesWhole /\ ServerSurvives /\ Sessions

-----------------------------------------------------------------------------
(* Sequences.                                                              *)

LEMMA Heads ==
  ASSUME NEW a, NEW b, NEW c
  PROVE  /\ Head(<<a>>) = a /\ Tail(<<a>>) = <<>>
         /\ Head(<<a, b>>) = a /\ Tail(<<a, b>>) = <<b>>
         /\ Head(<<a, b, c>>) = a /\ Tail(<<a, b, c>>) = <<b, c>>
<1>1. Head(<<a>>) = a /\ Head(<<a, b>>) = a /\ Head(<<a, b, c>>) = a
  OBVIOUS
<1>2. Tail(<<a>>) = <<>>
  OBVIOUS
<1>3. Tail(<<a, b>>) = <<b>>
  OBVIOUS
<1>4. Tail(<<a, b, c>>) = <<b, c>>
  OBVIOUS
<1>5. QED
  BY <1>1, <1>2, <1>3, <1>4

LEMMA AppendToOne ==
  ASSUME NEW a, NEW b
  PROVE  Append(<<a>>, b) = <<a, b>>
<1> DEFINE S == {a, b}
<1>1. <<a>> \in Seq(S) /\ <<a, b>> \in Seq(S) /\ b \in S
  OBVIOUS
<1>2. /\ Append(<<a>>, b) \in Seq(S) /\ Len(Append(<<a>>, b)) = 2
      /\ Append(<<a>>, b)[1] = a /\ Append(<<a>>, b)[2] = b
  OBVIOUS
<1>3. Len(<<a, b>>) = 2 /\ <<a, b>>[1] = a /\ <<a, b>>[2] = b
  OBVIOUS
<1>4. \A i \in 1 .. 2 : i = 1 \/ i = 2
  OBVIOUS
<1>5. QED
  BY <1>1, <1>2, <1>3, <1>4, SeqEqual

LEMMA AppendToTwo ==
  ASSUME NEW a, NEW b, NEW c
  PROVE  Append(<<a, b>>, c) = <<a, b, c>>
<1> DEFINE S == {a, b, c}
<1>1. <<a, b>> \in Seq(S) /\ <<a, b, c>> \in Seq(S) /\ c \in S
  OBVIOUS
<1>2. /\ Append(<<a, b>>, c) \in Seq(S) /\ Len(Append(<<a, b>>, c)) = 3
      /\ \A i \in 1 .. 3 : Append(<<a, b>>, c)[i] = <<a, b, c>>[i]
  OBVIOUS
<1>3. Len(<<a, b, c>>) = 3
  OBVIOUS
<1>4. QED
  BY <1>1, <1>2, <1>3, SeqEqual

LEMMA AppendToNone ==
  ASSUME NEW a
  PROVE  Append(<<>>, a) = <<a>>
OBVIOUS

LEMMA Lengths ==
  ASSUME NEW a, NEW b, NEW c
  PROVE  /\ Len(<<>>) = 0 /\ Len(<<a>>) = 1 /\ Len(<<a, b>>) = 2 /\ Len(<<a, b, c>>) = 3
         /\ <<a>> # <<>> /\ <<a, b>> # <<>> /\ <<a, b, c>> # <<>>
OBVIOUS

LEMMA ConcatNone ==
  ASSUME NEW S, NEW s \in Seq(S)
  PROVE  s \o <<>> = s /\ <<>> \o s = s
OBVIOUS

LEMMA ConcatIsNone ==
  ASSUME NEW S, NEW s \in Seq(S), NEW t \in Seq(S), s \o t = <<>>
  PROVE  s = <<>> /\ t = <<>>
OBVIOUS

\* A record that is read is the first of the stream.
LEMMA TakeFirst ==
  ASSUME NEW S, NEW s \in Seq(S), NEW t \in Seq(S), s # <<>>
  PROVE  Head(s) = Head(s \o t) /\ Tail(s) \o t = Tail(s \o t) /\ s \o t # <<>>
OBVIOUS

\* A record that is written is still to be read.
LEMMA WriteOn ==
  ASSUME NEW S, NEW s \in Seq(S), NEW t \in Seq(S), t # <<>>
  PROVE  Append(s, Head(t)) \o Tail(t) = s \o t
OBVIOUS

LEMMA HeadTail ==
  ASSUME NEW S, NEW s \in Seq(S), s # <<>>
  PROVE  Head(s) \in S /\ Tail(s) \in Seq(S) /\ (Len(s) > 1 <=> Tail(s) # <<>>)
OBVIOUS
-----------------------------------------------------------------------------
(* Places and types.                                                       *)

LEMMA PlacesKept ==
  ASSUME NEW p \in Places, NEW words, NEW b \in Contents
  PROVE  /\ Apply(p, words) \in Places
         /\ Store(p, b) \in Places
         /\ Find(p, words[2]) = "found" => p.cwd # "removed" /\ p.f[p.cwd] \in Contents
<1>1. NONE \in Contents
  BY DEF Contents
<1>2. p.cwd # "removed" => p.cwd \in {"top", "d"}
  BY DEF Places
<1>3. Apply(p, words) \in Places
  BY <1>1, <1>2 DEF Places, Apply
<1>4. Store(p, b) \in Places
  BY <1>2 DEF Places, Store
<1>5. Find(p, words[2]) = "found" => p.cwd # "removed" /\ p.f[p.cwd] \in Contents
  BY <1>2 DEF Places, Find
<1>6. QED
  BY <1>3, <1>4, <1>5

\* What is garbled afterwards was so before, or was to be stored.
LEMMA NothingGarbled ==
  ASSUME NEW p \in Places, NEW words, NEW b \in Contents, NEW dir \in {"top", "d"}
  PROVE  /\ Apply(p, words).f[dir] = GARBLED => p.f[dir] = GARBLED
         /\ Store(p, b).f[dir] = GARBLED => p.f[dir] = GARBLED \/ b = GARBLED
<1>1. NONE # GARBLED
  BY ContentsAssumption
<1>2. p.cwd # "removed" => p.cwd \in {"top", "d"}
  BY DEF Places
<1>3. Apply(p, words).f[dir] = GARBLED => p.f[dir] = GARBLED
  BY <1>1, <1>2 DEF Places, Apply
<1>4. Store(p, b).f[dir] = GARBLED => p.f[dir] = GARBLED \/ b = GARBLED
  BY <1>2 DEF Places, Store
<1>5. QED
  BY <1>3, <1>4

LEMMA Records ==
  /\ {Text, End, FileHead} \subseteq DownMsg /\ {End, FileHead} \subseteq UpMsg
  /\ \A b \in Contents : Data(b) \in DownMsg /\ Data(b) \in UpMsg
  /\ \A w \in Words : Echo(w) \in DownMsg
  /\ \A l \in Lines : Line(l) \in UpMsg
  /\ \A m \in DownMsg \cup UpMsg : m.kind = "data" => m.bytes \in Contents
<1>1. {Text, End, FileHead} \subseteq DownMsg /\ {End, FileHead} \subseteq UpMsg
  BY DEF DownMsg, UpMsg
<1>2. \A b \in Contents : Data(b) \in DownMsg /\ Data(b) \in UpMsg
  BY DEF DownMsg, UpMsg
<1>3. \A w \in Words : Echo(w) \in DownMsg
  BY DEF DownMsg
<1>4. \A l \in Lines : Line(l) \in UpMsg
  BY DEF UpMsg
<1>5. ASSUME NEW m \in DownMsg \cup UpMsg, m.kind = "data"
      PROVE  m.bytes \in Contents
  <2>1. m \notin {Text, End, FileHead}
    BY <1>5 DEF Text, End, FileHead
  <2>2. \A w : m # Echo(w)
    BY <1>5 DEF Echo
  <2>3. \A l : m # Line(l)
    BY <1>5 DEF Line
  <2>4. PICK b \in Contents : m = Data(b)
    BY <2>1, <2>2, <2>3 DEF DownMsg, UpMsg
  <2>5. QED
    BY <2>4 DEF Data
<1>6. QED
  BY <1>1, <1>2, <1>3, <1>4, <1>5

LEMMA KindsOfRecords ==
  /\ Text.kind = "text" /\ End.kind = "end" /\ FileHead.kind = "head"
  /\ \A b : Data(b).kind = "data" /\ Data(b).bytes = b
  /\ \A w : Echo(w).kind = "echo" /\ Echo(w).word = w
  /\ \A l : Line(l).kind = "line" /\ Line(l).words = l
BY DEF Text, End, FileHead, Data, Echo, Line

LEMMA AnswerRecords ==
  ASSUME NEW p \in Places, NEW words
  PROVE  Answer(p, words) \in Seq(DownMsg)
<1>1. <<Text, End>> \in Seq(DownMsg) /\ <<>> \in Seq(DownMsg)
  BY Records
<1>2. CASE words[1] \in Remote
  BY <1>1, <1>2 DEF Answer, Remote, Local
<1>3. CASE words[1] = "get" /\ words[1] \notin Remote
  <2>1. Echo("get") \in DownMsg
    BY Records DEF Words
  <2>2. /\ <<Echo("get")>> \o <<End>> \in Seq(DownMsg)
        /\ <<Echo("get")>> \o <<>> \in Seq(DownMsg)
    BY <2>1, Records
  <2>3. Find(p, words[2]) = "found" =>
          <<Echo("get")>> \o <<FileHead, Data(p.f[p.cwd])>> \in Seq(DownMsg)
    <3> SUFFICES ASSUME Find(p, words[2]) = "found"
                 PROVE  <<Echo("get")>> \o <<FileHead, Data(p.f[p.cwd])>> \in Seq(DownMsg)
      OBVIOUS
    <3>1. NONE \in Contents
      BY DEF Contents
    <3>2. Data(p.f[p.cwd]) \in DownMsg
      BY <3>1, Records, PlacesKept
    <3>3. QED
      BY <2>1, <3>2, Records
  <2>4. QED
    BY <1>3, <2>2, <2>3 DEF Answer
<1>4. CASE words[1] \in DOMAIN Local \cup {"put"} /\ words[1] \notin Remote \cup {"get"}
  <2>1. Echo(words[1]) \in DownMsg
    BY <1>4, Records DEF Words
  <2>2. QED
    BY <1>4, <2>1 DEF Answer
<1>5. CASE words[1] \notin Remote \cup {"get"} \cup DOMAIN Local \cup {"put"}
  BY <1>1, <1>5 DEF Answer
<1>6. QED
  BY <1>2, <1>3, <1>4, <1>5

LEMMA ConcatOne ==
  ASSUME NEW a, NEW b, NEW c
  PROVE  <<a>> \o <<>> = <<a>> /\ <<a>> \o <<b>> = <<a, b>> /\ <<a>> \o <<b, c>> = <<a, b, c>>
<1> DEFINE S == {a, b, c}
<1>1. <<a>> \in Seq(S) /\ <<b>> \in Seq(S) /\ <<b, c>> \in Seq(S)
  OBVIOUS
<1>2. <<a, b>> \in Seq(S) /\ <<a, b, c>> \in Seq(S)
  OBVIOUS
<1>3. <<a>> \o <<>> = <<a>>
  OBVIOUS
<1>4. <<a>> \o <<b>> = <<a, b>>
  <2>1. /\ <<a>> \o <<b>> \in Seq(S) /\ Len(<<a>> \o <<b>>) = 2
        /\ \A i \in 1 .. 2 : (<<a>> \o <<b>>)[i] = <<a, b>>[i]
    OBVIOUS
  <2>2. Len(<<a, b>>) = 2
    OBVIOUS
  <2>3. QED
    BY <1>2, <2>1, <2>2, SeqEqual
<1>5. <<a>> \o <<b, c>> = <<a, b, c>>
  <2>1. /\ <<a>> \o <<b, c>> \in Seq(S) /\ Len(<<a>> \o <<b, c>>) = 3
        /\ \A i \in 1 .. 3 : (<<a>> \o <<b, c>>)[i] = <<a, b, c>>[i]
    OBVIOUS
  <2>2. Len(<<a, b, c>>) = 3
    OBVIOUS
  <2>3. QED
    BY <1>2, <2>1, <2>2, SeqEqual
<1>6. QED
  BY <1>3, <1>4, <1>5

\* What an answer can be: nothing comes only for a muted command.
LEMMA AnswerShapes ==
  ASSUME NEW p \in Places, NEW words
  PROVE  /\ words[1] = "put" => Answer(p, words) = <<Echo("put")>>
         /\ words[1] # "put" => \/ Answer(p, words) = <<>> /\ Mute(p, words)
                                \/ Answer(p, words) \in Rest(Mute(p, words))
<1>1. words[1] \in Remote => Answer(p, words) = <<Text, End>> /\ words[1] # "put"
  BY DEF Answer, Remote, Local
<1>2. CASE words[1] \in Remote
  BY <1>1, <1>2 DEF Rest
<1>3. CASE words[1] = "get"
  <2>1. CASE Find(p, words[2]) = "found"
    <3>1. p.f[p.cwd] \in Contents
      BY <2>1, PlacesKept DEF Contents
    <3>2. Answer(p, words) = <<Echo("get"), FileHead, Data(p.f[p.cwd])>>
      BY <1>3, <2>1, ConcatOne DEF Answer, Remote, Local
    <3>3. QED
      BY <1>3, <3>1, <3>2 DEF Rest
  <2>2. CASE Find(p, words[2]) = "notfound"
    <3>1. Answer(p, words) = <<Echo("get"), End>>
      BY <1>3, <2>2, ConcatOne DEF Answer, Remote, Local
    <3>2. QED
      BY <1>3, <3>1 DEF Rest
  <2>3. CASE Find(p, words[2]) \notin {"found", "notfound"}
    <3>1. Answer(p, words) = <<Echo("get")>>
      BY <1>3, <2>3, ConcatOne DEF Answer, Remote, Local
    <3>2. QED
      BY <1>3, <3>1 DEF Rest, Mute
  <2>4. QED
    BY <2>1, <2>2, <2>3
<1>4. CASE words[1] \in DOMAIN Local \cup {"put"}
  <2>1. Answer(p, words) = <<Echo(words[1])>>
    BY <1>4 DEF Answer, Remote, Local
  <2>2. QED
    BY <1>4, <2>1 DEF Rest
<1>5. CASE words[1] \notin Remote \cup {"get"} \cup DOMAIN Local \cup {"put"}
  BY <1>5 DEF Answer, Mute
<1>6. QED
  BY <1>2, <1>3, <1>4, <1>5

-----------------------------------------------------------------------------
(* Who is not concerned by a step.                                         *)

\* The server has no part in a step, nor has client c.
LEMMA BystanderOfClient ==
  ASSUME NEW c \in Clients, Session(c), UNCHANGED serverVars,
         pc'[c] = pc[c], hold'[c] = hold[c], place'[c] = place[c],
         conn'[c] = conn[c], up'[c] = up[c], down'[c] = down[c],
         Queued(c)' <=> Queued(c), Muted(c)' <=> Muted(c), cut => cut'
  PROVE  Session(c)'
<1>1. Stream(c)' = Stream(c) /\ (Answers' <=> Answers)
  BY DEF Stream, Answers, serverVars
<1>2. AtPrompt(c)' <=> AtPrompt(c)
  BY <1>1 DEF AtPrompt, Sent, serverVars
<1>3. Asking(c)' <=> Asking(c)
  BY <1>1 DEF Asking, Asked, serverVars
<1>4. Answering(c)' <=> Answering(c)
  BY <1>1 DEF Answering, Rest, serverVars
<1>5. Stuck(c)' <=> Stuck(c)
  BY <1>1 DEF Stuck, serverVars
<1>6. Heading(c)' <=> Heading(c)
  BY <1>1 DEF Heading
<1>7. Getting(c)' <=> Getting(c)
  BY <1>1 DEF Getting
<1>8. Putting(c)' <=> Putting(c)
  BY <1>1 DEF Putting, serverVars
<1>9. Lost(c)' <=> Lost(c)
  BY <1>1 DEF Lost, serverVars
<1>10. Gone(c) => Gone(c)'
  BY DEF Gone, Sent, Asked, serverVars
<1>11. Serving(c) => Serving(c)'
  BY <1>2, <1>3, <1>4, <1>5, <1>6, <1>7, <1>8, <1>9, <1>10 DEF Serving
<1>12. Waiting(c) => Waiting(c)'
  BY DEF Waiting
<1>13. QED
  BY <1>11, <1>12 DEF Session, serverVars

\* The server works, but not for client c.
LEMMA BystanderOfServer ==
  ASSUME NEW c \in Clients, Session(c), c # client_sock, c # client_sock',
         pc'[c] = pc[c], hold'[c] = hold[c], place'[c] = place[c],
         conn'[c] = conn[c], up'[c] = up[c], down'[c] = down[c],
         Queued(c)' <=> Queued(c), cut => cut'
  PROVE  Session(c)'
<1>1. Waiting(c) => Waiting(c)'
  BY DEF Waiting
<1>2. QED
  BY <1>1 DEF Session

LEMMA TypesOfClient ==
  ASSUME TypeOK, NEW c \in Clients
  PROVE  /\ down[c] \in Seq(DownMsg) /\ todo \in Seq(DownMsg) /\ up[c] \in Seq(UpMsg)
         /\ place[c] \in Places /\ place[SERVER] \in Places /\ hold[c] \in Lines \cup {NONE}
         /\ c # SERVER /\ c # NONE /\ Stream(c) \in Seq(DownMsg)
<1>1. down[c] \in Seq(DownMsg) /\ todo \in Seq(DownMsg) /\ up[c] \in Seq(UpMsg)
  BY DEF TypeOK
<1>2. place[c] \in Places /\ place[SERVER] \in Places /\ hold[c] \in Lines \cup {NONE}
  BY DEF TypeOK
<1>3. Stream(c) \in Seq(DownMsg)
  BY <1>1 DEF Stream
<1>4. QED
  BY <1>1, <1>2, <1>3, NamesAssumption

\* What a step of client c leaves alone, and what it may do to the history.
Others(c) ==
  /\ \A d \in Clients \ {c} :
       /\ pc'[d] = pc[d] /\ hold'[d] = hold[d] /\ place'[d] = place[d]
       /\ conn'[d] = conn[d] /\ up'[d] = up[d] /\ down'[d] = down[d]
       /\ Muted(d)' <=> Muted(d)
  /\ place'[SERVER] = place[SERVER]
  /\ skipped \subseteq skipped' /\ (cut => cut')

LEMMA ClientStep ==
  ASSUME IInv, NEW c \in Clients, UNCHANGED <<serverVars, backlog>>, TypeOK', Others(c),
         \A dir \in {"top", "d"} :
           place'[c].f[dir] = GARBLED => place[c].f[dir] = GARBLED \/ cut',
         srv = "dead" => UNCHANGED hold,
         Session(c)'
  PROVE  IInv'
<1>1. ServerOK'
  BY DEF IInv, ServerOK, Others, serverVars
<1>2. FilesWhole'
  <2> SUFFICES ASSUME NEW s \in Clients \cup {SERVER}, NEW dir \in {"top", "d"},
                      place'[s].f[dir] = GARBLED
               PROVE  cut' \/ skipped' # {}
    BY DEF FilesWhole, TypeOK
  <2>1. place[s].f[dir] = GARBLED \/ cut'
    BY DEF Others
  <2>2. place[s].f[dir] = GARBLED => cut \/ skipped # {}
    BY DEF IInv, FilesWhole, TypeOK
  <2>3. QED
    BY <2>1, <2>2 DEF Others
<1>3. ServerSurvives'
  <2>1. srv' = srv
    BY DEF serverVars
  <2>2. CASE srv = "dead"
    BY <2>1, <2>2 DEF IInv, ServerSurvives, Others
  <2>3. QED
    BY <2>1, <2>2 DEF ServerSurvives
<1>4. ASSUME NEW d \in Clients PROVE Session(d)'
  <2>1. CASE d = c
    BY <2>1
  <2>2. CASE d # c
    <3>1. Session(d) /\ (Queued(d)' <=> Queued(d))
      BY DEF IInv, Sessions, Queued
    <3>2. QED
      BY <2>2, <3>1, BystanderOfClient DEF Others
  <2>3. QED
    BY <2>1, <2>2
<1>5. QED
  BY <1>1, <1>2, <1>3, <1>4 DEF IInv, Sessions

\* What a step of the server leaves alone while it serves client c.
OthersOfServer(c) ==
  /\ \A d \in Clients : place'[d] = place[d]
  /\ \A d \in Clients \ {c} : conn'[d] = conn[d] /\ up'[d] = up[d] /\ down'[d] = down[d]
  /\ skipped \subseteq skipped' /\ (cut => cut')

LEMMA ServerStep ==
  ASSUME IInv, NEW c \in Clients, UNCHANGED <<clientVars, backlog>>, TypeOK',
         client_sock = c, client_sock' \in {c, NONE}, OthersOfServer(c),
         \A dir \in {"top", "d"} :
           place'[SERVER].f[dir] = GARBLED => \/ place[SERVER].f[dir] = GARBLED
                                              \/ cut' \/ skipped' # {},
         ServerOK', ServerSurvives', Session(c)'
  PROVE  IInv'
<1>1. FilesWhole'
  <2> SUFFICES ASSUME NEW s \in Clients \cup {SERVER}, NEW dir \in {"top", "d"},
                      place'[s].f[dir] = GARBLED
               PROVE  cut' \/ skipped' # {}
    BY DEF FilesWhole, TypeOK
  <2>1. place[s].f[dir] = GARBLED \/ cut' \/ skipped' # {}
    BY DEF OthersOfServer
  <2>2. place[s].f[dir] = GARBLED => cut \/ skipped # {}
    BY DEF IInv, FilesWhole, TypeOK
  <2>3. QED
    BY <2>1, <2>2 DEF OthersOfServer
<1>2. ASSUME NEW d \in Clients PROVE Session(d)'
  <2>1. CASE d = c
    BY <2>1
  <2>2. CASE d # c
    <3>1. Session(d) /\ (Queued(d)' <=> Queued(d))
      BY DEF IInv, Sessions, Queued
    <3>2. d # client_sock /\ d # client_sock'
      BY <2>2, NamesAssumption
    <3>3. QED
      BY <2>2, <3>1, <3>2, BystanderOfServer DEF OthersOfServer, clientVars
  <2>3. QED
    BY <2>1, <2>2
<1>3. QED
  BY <1>1, <1>2 DEF IInv, Sessions

-----------------------------------------------------------------------------
(* The steps of a client.                                                  *)

LEMMA ConnectKeeps ==
  ASSUME IInv, NEW c \in Clients, Connect(c)
  PROVE  IInv'
<1> USE DEF Connect, Goto
<1>1. TypeOK'
  BY DEF IInv, TypeOK, serverVars, history
<1>2. Session(c) /\ ~Queued(c) /\ c # client_sock /\ up[c] = <<>>
  BY DEF IInv, Sessions, Session
<1>3. /\ backlog \in Seq(Clients) /\ backlog' = Append(backlog, c)
      /\ pc'[c] = "prompt" /\ conn'[c] = "open"
      /\ \A d \in Clients \ {c} : pc'[d] = pc[d] /\ conn'[d] = conn[d]
  BY DEF IInv, TypeOK
<1>4. Queued(c)' /\ \A d \in Clients \ {c} : Queued(d)' <=> Queued(d)
  <2>1. /\ DOMAIN backlog' = DOMAIN backlog \cup {Len(backlog) + 1}
        /\ backlog'[Len(backlog) + 1] = c
        /\ \A k \in DOMAIN backlog : backlog'[k] = backlog[k]
    BY <1>3
  <2>2. QED
    BY <2>1 DEF Queued
<1>5. ServerOK'
  <2>1. \A j, k \in DOMAIN backlog' : backlog'[j] = backlog'[k] => j = k
    <3>1. \A j, k \in DOMAIN backlog : backlog[j] = backlog[k] => j = k
      BY DEF IInv, ServerOK
    <3>2. QED
      BY <1>2, <1>3, <3>1 DEF Queued
  <2>2. QED
    BY <2>1 DEF IInv, ServerOK, serverVars, history
<1>6. FilesWhole' /\ ServerSurvives'
  BY DEF IInv, FilesWhole, ServerSurvives, serverVars, history
<1>7. Session(c)'
  <2>1. up'[c] = <<>> /\ down'[c] = <<>> /\ client_sock' = client_sock
    BY <1>2 DEF Session, serverVars
  <2>2. QED
    BY <1>2, <1>3, <1>4, <2>1 DEF Session, Waiting
<1>8. ASSUME NEW d \in Clients \ {c} PROVE Session(d)'
  <2>1. Session(d)
    BY DEF IInv, Sessions
  <2>2. QED
    BY <1>3, <1>4, <2>1, BystanderOfClient DEF Muted, history
<1>9. QED
  BY <1>1, <1>5, <1>6, <1>7, <1>8 DEF IInv, Sessions

LEMMA AskedAfterSent ==
  ASSUME NEW s, NEW Up, NEW mute, NEW words, Sent(s, Up, mute)
  PROVE  Asked(s, Append(Up, Line(words)), mute, words)
<1> DEFINE l == Line(words)
           Up2 == Append(Up, l)
<1>1. CASE Up = <<>> /\ (s = "line" \/ (s = "puthead" /\ mute))
  <2>1. Up2 = <<l>>
    BY <1>1, AppendToNone
  <2>2. QED
    BY <1>1, <2>1 DEF Asked
<1>2. CASE s = "puthead" /\ Up = <<End>>
  <2>1. Up2 = <<End, l>>
    BY <1>2, AppendToOne
  <2>2. QED
    BY <1>2, <2>1 DEF Asked
<1>3. ASSUME NEW b \in Contents, s = "puthead", Up = <<FileHead, Data(b)>>
      PROVE  Asked(s, Up2, mute, words)
  <2>1. Up2 = <<FileHead, Data(b), l>>
    BY <1>3, AppendToTwo
  <2>2. QED
    BY <1>3, <2>1 DEF Asked
<1>4. ASSUME NEW b \in Contents, s = "putdata", Up = <<Data(b)>>
      PROVE  Asked(s, Up2, mute, words)
  <2>1. Up2 = <<Data(b), l>>
    BY <1>4, AppendToOne
  <2>2. QED
    BY <1>4, <2>1 DEF Asked
<1>5. QED
  BY <1>1, <1>2, <1>3, <1>4 DEF Sent

LEMMA TypeKeeps ==
  ASSUME IInv, NEW c \in Clients, NEW words \in Lines, Type(c, words)
  PROVE  IInv'
<1> USE DEF Type, Goto, Send
<1>0. Line(words) \in UpMsg
  BY Records
<1>1. TypeOK'
  BY <1>0 DEF IInv, TypeOK, serverVars, history
<1>2. /\ pc'[c] = "answer" /\ hold'[c] = words /\ up'[c] = Append(up[c], Line(words))
      /\ Others(c)
  BY DEF IInv, TypeOK, Others, Muted, history
<1>3. Session(c) /\ Queued(c)' = Queued(c) /\ Stream(c)' = Stream(c)
  BY DEF IInv, Sessions, Queued, Stream, serverVars
<1>4. ASSUME c = client_sock PROVE Serving(c)'
  <2>1. AtPrompt(c) \/ Lost(c)
    BY <1>3, <1>4 DEF Session, Serving, Asking, Answering, Stuck, Heading, Getting, Putting, Gone
  <2>2. CASE AtPrompt(c)
    <3>1. Sent(srv, up[c], Muted(c)) /\ Stream(c)' = <<>> /\ (Muted(c)' <=> Muted(c)) /\ srv' = srv
      BY <1>3, <2>2 DEF AtPrompt, Muted, serverVars, history
    <3>2. Asked(srv, up'[c], Muted(c), words)
      BY <1>2, <3>1, AskedAfterSent
    <3>3. Asked(srv, up[c], Muted(c), hold[c])'
      BY <1>2, <3>1, <3>2 DEF Asked
    <3>4. QED
      BY <1>2, <3>1, <3>3 DEF Asking, Serving
  <2>3. CASE Lost(c)
    BY <1>2, <1>3, <2>3 DEF Lost, Serving, serverVars
  <2>4. QED
    BY <2>1, <2>2, <2>3
<1>5. ASSUME c # client_sock PROVE Queued(c) /\ Waiting(c)'
  <2>1. Queued(c) /\ up[c] = <<>>
    BY <1>3, <1>5 DEF Session, Waiting
  <2>2. up'[c] = <<Line(words)>>
    BY <1>2, <2>1, AppendToNone
  <2>3. QED
    BY <1>2, <2>1, <2>2 DEF Waiting
<1>6. Session(c)'
  BY <1>2, <1>3, <1>4, <1>5 DEF Session, serverVars
<1>7. \A dir \in {"top", "d"} : place'[c].f[dir] = GARBLED => place[c].f[dir] = GARBLED
  OBVIOUS
<1>8. QED
  BY <1>1, <1>2, <1>6, <1>7, ClientStep

LEMMA PutDataKeeps ==
  ASSUME IInv, NEW c \in Clients, PutData(c)
  PROVE  IInv'
<1> USE DEF PutData, Goto, Send
<1> DEFINE b == place[c].f[place[c].cwd]
<1>1. Session(c) /\ c = client_sock /\ Putting(c) /\ place[c].cwd # "removed"
  <2>1. Session(c)
    BY DEF IInv, Sessions
  <2>2. c = client_sock
    BY <2>1 DEF Session, Waiting
  <2>3. QED
    BY <2>1, <2>2 DEF Session, Serving, AtPrompt, Asking, Answering, Stuck, Heading, Getting,
                      Lost, Gone
<1>2. b \in Contents /\ Data(b) \in UpMsg
  BY <1>1, TypesOfClient, Records DEF IInv, Places
<1>3. TypeOK'
  BY <1>2 DEF IInv, TypeOK, serverVars, history
<1>4. pc'[c] = "prompt" /\ up'[c] = Append(up[c], Data(b)) /\ Others(c)
  BY DEF IInv, TypeOK, Others, Muted, history
<1>5. Queued(c)' = Queued(c) /\ Stream(c)' = Stream(c)
  BY DEF Queued, Stream, serverVars
<1>6. AtPrompt(c)'
  BY <1>1, <1>2, <1>4, <1>5, AppendToNone, AppendToOne
  DEF Putting, AtPrompt, Sent, serverVars
<1>7. Session(c)'
  BY <1>1, <1>4, <1>5, <1>6 DEF Session, Serving, serverVars
<1>8. QED
  BY <1>3, <1>4, <1>7, ClientStep

\* A client that reads takes the first record of its stream; with the last
\* one the server has nothing more to write.
LEMMA TakeKeepsStream ==
  ASSUME IInv, NEW c \in Clients, down[c] # <<>>
  PROVE  /\ c = client_sock /\ Serving(c)
         /\ Stream(c) # <<>> /\ Head(down[c]) = Head(Stream(c))
         /\ Take(c) /\ UNCHANGED todo =>
              /\ down'[c] \in Seq(DownMsg) /\ Stream(c)' = Tail(Stream(c))
              /\ Stream(c)' = <<>> => todo = <<>> /\ down'[c] = <<>> /\ srv # "write"
<1>1. Session(c) /\ TypeOK /\ ServerOK
  BY DEF IInv, Sessions
<1>2. c = client_sock /\ Serving(c)
  BY <1>1 DEF Session
<1>3. down[c] \in Seq(DownMsg) /\ todo \in Seq(DownMsg)
  BY <1>1, TypesOfClient
<1>4. Stream(c) # <<>> /\ Head(down[c]) = Head(Stream(c))
  BY <1>3, TakeFirst DEF Stream
<1>5. ASSUME Take(c), UNCHANGED todo
      PROVE  /\ down'[c] \in Seq(DownMsg) /\ Stream(c)' = Tail(Stream(c))
             /\ Stream(c)' = <<>> => todo = <<>> /\ down'[c] = <<>> /\ srv # "write"
  <2>1. down'[c] = Tail(down[c]) /\ down'[c] \in Seq(DownMsg)
    BY <1>1, <1>3, <1>5, HeadTail DEF Take, TypeOK
  <2>2. Stream(c)' = down'[c] \o todo /\ Stream(c)' = Tail(Stream(c))
    BY <1>3, <1>5, <2>1, TakeFirst DEF Stream
  <2>3. Stream(c)' = <<>> => todo = <<>> /\ down'[c] = <<>>
    BY <1>3, <2>1, <2>2, ConcatIsNone
  <2>4. todo = <<>> => srv # "write"
    BY <1>1 DEF ServerOK
  <2>5. QED
    BY <2>1, <2>2, <2>3, <2>4
<1>6. QED
  BY <1>2, <1>4, <1>5

\* Queued(c), conn[c] and the rest of Session(c) but Serving(c).
LEMMA ServedSession ==
  ASSUME NEW c \in Clients, Session(c), c = client_sock, UNCHANGED <<serverVars, backlog, conn>>,
         pc[c] \notin {"away", "gone"}, pc'[c] \notin {"away", "gone"},
         pc'[c] = "putdata" => place'[c].cwd # "removed",
         pc'[c] = "astray" => cut',
         Serving(c)'
  PROVE  Session(c)'
<1>1. Queued(c)' <=> Queued(c)
  BY DEF Queued
<1>2. QED
  BY <1>1 DEF Session, serverVars

LEMMA GetHeadKeeps ==
  ASSUME IInv, NEW c \in Clients, GetHead(c)
  PROVE  IInv'
<1> USE DEF GetHead, Goto
<1> DEFINE m == Head(down[c])
<1>1. Session(c) /\ c = client_sock /\ Heading(c)
  <2>1. Session(c) /\ Serving(c) /\ c = client_sock /\ Stream(c) # <<>>
    BY TakeKeepsStream DEF IInv, Sessions
  <2>2. QED
    BY <2>1 DEF Serving, AtPrompt, Asking, Answering, Stuck, Getting, Putting, Lost, Gone
<1>2. place[c] \in Places /\ EMPTY \in Contents
  BY TypesOfClient DEF IInv, Contents
<1>3. Store(place[c], EMPTY) \in Places
  BY <1>2, PlacesKept
<1>4. /\ place' \in [Clients \cup {SERVER} -> Places]
      /\ \A s \in (Clients \cup {SERVER}) \ {c} : place'[s] = place[s]
      /\ place'[c] \in {place[c], Store(place[c], EMPTY)}
  BY <1>2, <1>3, ZenonT(60) DEF IInv, TypeOK
<1>5. /\ down'[c] \in Seq(DownMsg) /\ Stream(c)' = Tail(Stream(c)) /\ m = Head(Stream(c))
      /\ Stream(c)' = <<>> => srv # "write"
  BY TakeKeepsStream DEF serverVars
<1>6. /\ pc' \in [Clients -> {pc[d] : d \in Clients} \cup {"prompt", "getdata"}]
      /\ pc'[c] = IF m.kind = "end" THEN "prompt" ELSE "getdata"
      /\ \A d \in Clients \ {c} : pc'[d] = pc[d] /\ down'[d] = down[d]
      /\ down' \in [Clients -> Seq(DownMsg)]
  BY <1>5 DEF IInv, TypeOK, Take
<1>7. TypeOK'
  BY <1>4, <1>6 DEF IInv, TypeOK, serverVars, history
<1>8. Others(c)
  BY <1>4, <1>6, TypesOfClient DEF IInv, Others, Muted, history
<1>9. \A dir \in {"top", "d"} : place'[c].f[dir] = GARBLED => place[c].f[dir] = GARBLED
  BY <1>2, <1>4, NothingGarbled, ContentsAssumption
<1>10. Serving(c)'
  <2>1. CASE Stream(c) = <<End>>
    <3>1. Stream(c)' = <<>> /\ pc'[c] = "prompt"
      BY <1>5, <1>6, <2>1, Heads, KindsOfRecords
    <3>2. srv = "line" /\ up'[c] = <<>>
      BY <1>1, <1>5, <3>1 DEF Heading, Answers
    <3>3. QED
      BY <3>1, <3>2 DEF AtPrompt, Serving, Sent, serverVars
  <2>2. ASSUME NEW b \in Contents, Stream(c) = <<FileHead, Data(b)>>
        PROVE  Serving(c)'
    <3>1. Stream(c)' = <<Data(b)>> /\ pc'[c] = "getdata"
      BY <1>5, <1>6, <2>2, Heads, KindsOfRecords
    <3>2. QED
      BY <1>1, <3>1 DEF Heading, Getting, Answers, Serving, serverVars
  <2>3. QED
    BY <1>1, <2>1, <2>2 DEF Heading
<1>11. Session(c)'
  BY <1>1, <1>6, <1>10, ServedSession
<1>12. QED
  BY <1>7, <1>8, <1>9, <1>11, ClientStep

LEMMA GetDataKeeps ==
  ASSUME IInv, NEW c \in Clients, GetData(c)
  PROVE  IInv'
<1> USE DEF GetData, Goto
<1> DEFINE m == Head(down[c])
<1>1. Session(c) /\ c = client_sock /\ Getting(c)
  <2>1. Session(c) /\ Serving(c) /\ c = client_sock /\ Stream(c) # <<>>
    BY TakeKeepsStream DEF IInv, Sessions
  <2>2. QED
    BY <2>1 DEF Serving, AtPrompt, Asking, Answering, Stuck, Heading, Putting, Lost, Gone
<1>2. PICK b \in Contents : Stream(c) = <<Data(b)>>
  BY <1>1 DEF Getting
<1>3. m = Data(b) /\ m.kind = "data" /\ m.bytes = b
  BY <1>2, Heads, KindsOfRecords, TakeKeepsStream
<1>4. place[c] \in Places /\ GARBLED \in Contents
  BY TypesOfClient DEF IInv, Contents
<1>5. PICK x \in Contents : /\ place' = [place EXCEPT ![c] = Store(@, x)]
                            /\ x = GARBLED => cut'
  BY <1>3, <1>4 DEF Whole
<1>6. Store(place[c], x) \in Places
  BY <1>4, PlacesKept
<1>7. /\ place' \in [Clients \cup {SERVER} -> Places]
      /\ \A s \in (Clients \cup {SERVER}) \ {c} : place'[s] = place[s]
      /\ place'[c] = Store(place[c], x)
  BY <1>5, <1>6 DEF IInv, TypeOK
<1>8. \A dir \in {"top", "d"} : place'[c].f[dir] = GARBLED => place[c].f[dir] = GARBLED \/ cut'
  BY <1>4, <1>5, <1>7, NothingGarbled
<1>9. CASE Take(c) /\ pc' = [pc EXCEPT ![c] = "prompt"] /\ UNCHANGED cut
  <2>1. down'[c] \in Seq(DownMsg) /\ Stream(c)' = <<>> /\ srv # "write"
    BY <1>2, <1>9, Heads, TakeKeepsStream DEF serverVars
  <2>2. /\ TypeOK' /\ pc'[c] = "prompt"
        /\ \A d \in Clients \ {c} : pc'[d] = pc[d] /\ down'[d] = down[d]
    BY <1>7, <1>9, <2>1 DEF IInv, TypeOK, Take, serverVars
  <2>3. Others(c)
    BY <1>7, <1>9, <2>2, TypesOfClient DEF IInv, Others, Muted
  <2>4. Serving(c)'
    BY <1>1, <2>1, <2>2 DEF Getting, Answers, AtPrompt, Sent, Serving, serverVars
  <2>5. Session(c)'
    BY <1>1, <2>2, <2>4, ServedSession
  <2>6. QED
    BY <1>8, <2>2, <2>3, <2>5, ClientStep
<1>10. CASE UNCHANGED down /\ pc' = [pc EXCEPT ![c] = "astray"] /\ cut' = TRUE
  <2>1. /\ TypeOK' /\ pc'[c] = "astray"
        /\ \A d \in Clients \ {c} : pc'[d] = pc[d]
    BY <1>7, <1>10 DEF IInv, TypeOK, serverVars
  <2>2. Others(c)
    BY <1>7, <1>10, <2>1, TypesOfClient DEF IInv, Others, Muted
  <2>3. Stream(c)' = Stream(c)
    BY <1>10 DEF Stream, serverVars
  <2>4. Serving(c)'
    BY <1>1, <2>1, <2>3 DEF Getting, Answers, Serving, serverVars
  <2>5. Session(c)'
    BY <1>1, <1>10, <2>1, <2>4, ServedSession
  <2>6. QED
    BY <1>8, <2>1, <2>2, <2>5, ClientStep
<1>11. QED
  BY <1>9, <1>10

\* The stream of a client that reads an answer, and what is left of it.
LEMMA ReceiveReads ==
  ASSUME IInv, NEW c \in Clients, pc[c] = "answer", down[c] # <<>>
  PROVE  /\ c = client_sock /\ Answering(c)
         /\ Take(c) /\ UNCHANGED todo =>
              /\ down'[c] \in Seq(DownMsg) /\ Stream(c)' = Tail(Stream(c))
              /\ Stream(c)' = <<>> => srv # "write"
<1>1. Serving(c) /\ c = client_sock /\ Stream(c) # <<>>
  BY TakeKeepsStream
<1>2. Answering(c)
  BY <1>1 DEF Serving, AtPrompt, Asking, Stuck, Heading, Getting, Putting, Lost, Gone
<1>3. QED
  BY <1>1, <1>2, TakeKeepsStream

LEMMA PutStartSends ==
  ASSUME IInv, NEW c \in Clients, PutStart(c)
  PROVE  /\ pc' = [pc EXCEPT ![c] = pc'[c]]
         /\ up' = [up EXCEPT ![c] = up'[c]]
         /\ skipped \subseteq skipped' /\ skipped' \subseteq skipped \cup {c}
         /\ \/ /\ pc'[c] = "putdata" /\ up'[c] = Append(up[c], FileHead)
               /\ place[c].cwd # "removed"
            \/ pc'[c] = "prompt" /\ up'[c] = Append(up[c], End)
            \/ pc'[c] = "prompt" /\ up'[c] = up[c] /\ c \in skipped'
<1> DEFINE how == Find(place[c], hold[c][2])
<1>1. pc = [d \in Clients |-> pc[d]] /\ up = [d \in Clients |-> up[d]] /\ place[c] \in Places
  BY TypesOfClient DEF IInv, TypeOK
<1>2. CASE how = "found"
  <2>1. place[c].cwd # "removed"
    BY <1>1, <1>2, PlacesKept DEF Contents
  <2>2. QED
    BY <1>1, <1>2, <2>1 DEF PutStart, Goto, Send
<1>3. CASE how = "notfound"
  BY <1>1, <1>3 DEF PutStart, Goto, Send
<1>4. CASE how \notin {"found", "notfound"}
  <2>1. how = "nodir"
    BY <1>4 DEF Find
  <2>2. QED
    BY <1>1, <2>1 DEF PutStart, Goto, Send
<1>5. QED
  BY <1>2, <1>3, <1>4

LEMMA LeaveKeeps ==
  ASSUME IInv, NEW c \in Clients, Leave(c)
  PROVE  IInv'
<1> USE DEF Leave, Goto
<1>1. TypeOK'
  BY DEF IInv, TypeOK, serverVars
<1>2. /\ pc'[c] = "gone" /\ down'[c] = <<>>
      /\ conn'[c] = IF down[c] = <<>> THEN "fin" ELSE "reset"
      /\ Others(c)
  BY TypesOfClient DEF IInv, TypeOK, Others, Muted
<1>3. Session(c) /\ ServerOK /\ (Queued(c)' <=> Queued(c)) /\ TypeOK
  BY DEF IInv, Sessions, Queued
<1>4. ASSUME c = client_sock PROVE Gone(c)'
  <2>1. Serving(c) /\ (Muted(c)' <=> Muted(c))
    BY <1>3, <1>4 DEF Session, Muted
  <2>2. ASSUME pc[c] = "prompt", AtPrompt(c) PROVE Gone(c)'
    <3>1. conn'[c] = "fin"
      BY <1>2, <1>3, <2>2, TypesOfClient, ConcatIsNone DEF AtPrompt, Stream
    <3>2. Sent(srv, up[c], TRUE) /\ (~Muted(c) => Sent(srv, up[c], FALSE))
      BY <2>2 DEF AtPrompt, Sent
    <3>3. Sent(srv, up[c], TRUE)' /\ (~Muted(c)' => Sent(srv, up[c], FALSE)')
      BY <2>1, <3>2 DEF serverVars, Sent
    <3>4. QED
      BY <1>2, <3>1, <3>3 DEF Gone
  <2>3. Lost(c) => cut
    BY <1>3 DEF Lost, ServerOK
  <2>4. ASSUME cut' PROVE Gone(c)'
    <3>1. \/ Sent(srv, up[c], TRUE) \/ Asked(srv, up[c], Muted(c), hold[c])
          \/ srv = "puthead" /\ up[c] = <<FileHead>>
          \/ srv \in {"putdata", "write"} /\ up[c] = <<>>
          \/ srv \in {"astray", "dead"}
      <4>1. AtPrompt(c) => Sent(srv, up[c], TRUE)
        BY DEF AtPrompt, Sent
      <4>2. Asking(c) => Asked(srv, up[c], Muted(c), hold[c])
        BY DEF Asking
      <4>3. up[c] = <<>> /\ srv \in {"line", "puthead"} => Sent(srv, up[c], TRUE)
        BY DEF Sent
      <4>4. Answering(c) \/ Stuck(c) \/ Heading(c) \/ Getting(c) =>
              up[c] = <<>> /\ srv \in {"line", "puthead", "write"}
        BY DEF Answering, Stuck, Heading, Getting, Answers
      <4>5. Putting(c) => \/ srv = "puthead" /\ up[c] = <<FileHead>>
                          \/ srv = "putdata" /\ up[c] = <<>>
        BY DEF Putting
      <4>6. Lost(c) => srv \in {"astray", "dead"}
        BY DEF Lost
      <4>7. Gone(c) => FALSE
        BY DEF Gone
      <4>8. QED
        BY <2>1, <4>1, <4>2, <4>3, <4>4, <4>5, <4>6, <4>7 DEF Serving
    <3>2. \/ Sent(srv, up[c], TRUE)' \/ Asked(srv, up[c], Muted(c), hold[c])'
          \/ srv' = "puthead" /\ up'[c] = <<FileHead>>
          \/ srv' \in {"putdata", "write"} /\ up'[c] = <<>>
          \/ srv' \in {"astray", "dead"}
      BY <2>1, <3>1 DEF Sent, Asked, serverVars
    <3>3. QED
      BY <1>2, <2>4, <3>2 DEF Gone
  <2>5. QED
    BY <2>1, <2>2, <2>3, <2>4
    DEF Serving, Asking, Answering, Stuck, Heading, Getting, Putting, Gone, Lost
<1>5. ASSUME c # client_sock PROVE Queued(c) /\ Waiting(c)'
  <2>1. Queued(c) /\ Waiting(c) /\ down[c] = <<>>
    BY <1>3, <1>5 DEF Session
  <2>2. QED
    BY <1>2, <2>1 DEF Waiting
<1>6. Session(c)'
  BY <1>2, <1>3, <1>4, <1>5 DEF Session, Serving, serverVars
<1>7. \A dir \in {"top", "d"} : place'[c].f[dir] = GARBLED => place[c].f[dir] = GARBLED
  OBVIOUS
<1>8. QED
  BY <1>1, <1>2, <1>6, <1>7, ClientStep

LEMMA ReceiveKeeps ==
  ASSUME IInv, NEW c \in Clients, Receive(c)
  PROVE  IInv'
<1> USE DEF Receive
<1> DEFINE m == Head(down[c])
<1>1. /\ Session(c) /\ TypeOK /\ c = client_sock /\ Answering(c) /\ m = Head(Stream(c))
      /\ down'[c] \in Seq(DownMsg) /\ Stream(c)' = Tail(Stream(c))
      /\ Stream(c)' = <<>> => srv # "write"
  BY ReceiveReads, TakeKeepsStream DEF IInv, Sessions, serverVars
<1>2. /\ down' \in [Clients -> Seq(DownMsg)]
      /\ \A d \in Clients \ {c} : down'[d] = down[d]
  BY <1>1 DEF TypeOK, Take
<1> DEFINE labels == {"away", "prompt", "answer", "putdata", "gethead", "getdata", "astray", "gone"}
\* All that remains to be shown in each case.
<1>3. ASSUME NEW x \in {"prompt", "answer", "gethead", "putdata"}, pc' = [pc EXCEPT ![c] = x],
             NEW p \in Places, place' = [place EXCEPT ![c] = p],
             \A dir \in {"top", "d"} : p.f[dir] = GARBLED => place[c].f[dir] = GARBLED,
             x = "putdata" => p.cwd # "removed",
             NEW u \in Seq(UpMsg), up' = [up EXCEPT ![c] = u],
             skipped \subseteq skipped', skipped' \subseteq skipped \cup {c},
             Serving(c)'
      PROVE  IInv'
  <2>1. TypeOK'
    BY <1>1, <1>2, <1>3 DEF TypeOK, serverVars
  <2>2. /\ pc'[c] = x /\ place'[c] = p
        /\ \A d \in Clients \ {c} : /\ pc'[d] = pc[d] /\ place'[d] = place[d]
                                    /\ up'[d] = up[d] /\ (Muted(d)' <=> Muted(d))
        /\ place'[SERVER] = place[SERVER]
    BY <1>1, <1>3, TypesOfClient DEF TypeOK, Muted
  <2>3. Others(c)
    BY <1>2, <1>3, <2>2 DEF Others
  <2>4. Session(c)'
    BY <1>1, <1>3, <2>2, ServedSession
  <2>5. QED
    BY <1>3, <2>1, <2>2, <2>3, <2>4, ClientStep
<1>4. /\ pc = [pc EXCEPT ![c] = "answer"] /\ place = [place EXCEPT ![c] = place[c]]
      /\ up = [up EXCEPT ![c] = up[c]] /\ place[c] \in Places /\ up[c] \in Seq(UpMsg)
  BY <1>1, TypesOfClient DEF TypeOK
<1>5. up[c] = <<>> /\ (srv' = srv) /\ (Answers' <=> Answers)
  BY <1>1 DEF Answering, Answers, serverVars
<1>6. CASE m.kind \notin {"end", "echo"}
  <2>1. UNCHANGED <<pc, place, up, skipped>>
    BY <1>6
  <2>2. Stream(c) = <<Text, End>> /\ Answers
    <3>1. Stream(c) # <<End>> /\ \A w : Stream(c) # <<Echo(w)>> /\ Stream(c) # <<Echo(w), End>>
      BY <1>1, <1>6, Heads, KindsOfRecords
    <3>2. \A w, b : Stream(c) # <<Echo(w), FileHead, Data(b)>>
      BY <1>1, <1>6, Heads, KindsOfRecords
    <3>3. QED
      BY <1>1, <3>1, <3>2 DEF Answering, Rest
  <2>3. Stream(c)' = <<End>>
    BY <1>1, <2>2, Heads
  <2>4. Serving(c)'
    BY <1>5, <2>1, <2>2, <2>3 DEF Serving, Answering, Rest
  <2>5. QED
    BY <1>3, <1>4, <2>1, <2>4
<1>7. CASE m.kind = "end"
  <2>1. pc' = [pc EXCEPT ![c] = "prompt"] /\ UNCHANGED <<place, up, skipped>>
    BY <1>7 DEF Goto
  <2>2. Stream(c) = <<End>> /\ Answers
    <3>1. /\ Stream(c) # <<Text, End>>
          /\ \A w : Stream(c) # <<Echo(w)>> /\ Stream(c) # <<Echo(w), End>>
      BY <1>1, <1>7, Heads, KindsOfRecords
    <3>2. \A w, b : Stream(c) # <<Echo(w), FileHead, Data(b)>>
      BY <1>1, <1>7, Heads, KindsOfRecords
    <3>3. QED
      BY <1>1, <3>1, <3>2 DEF Answering, Rest
  <2>3. Stream(c)' = <<>> /\ srv = "line"
    BY <1>1, <2>2, Heads DEF Answers
  <2>4. pc'[c] = "prompt"
    BY <1>1, <2>1 DEF TypeOK
  <2>5. Serving(c)'
    BY <1>5, <2>1, <2>3, <2>4 DEF Serving, AtPrompt, Sent
  <2>6. QED
    BY <1>3, <1>4, <2>1, <2>5
<1>8. CASE m.kind = "echo" /\ m.word \in DOMAIN Local
  <2> DEFINE p == Apply(place[c], [hold[c] EXCEPT ![1] = Local[m.word]])
  <2>1. m.word \notin {"get", "put"}
    BY <1>8 DEF Local
  <2>2. /\ pc' = [pc EXCEPT ![c] = "prompt"] /\ place' = [place EXCEPT ![c] = p]
        /\ UNCHANGED <<up, skipped>>
    BY <1>8, <2>1 DEF Goto
  <2>3. /\ p \in Places
        /\ \A dir \in {"top", "d"} : p.f[dir] = GARBLED => place[c].f[dir] = GARBLED
    BY <1>4, PlacesKept, NothingGarbled, ZenonT(60) DEF Contents
  <2>4. Answers /\ Stream(c)' = <<>>
    <3>1. Stream(c) # <<Text, End>> /\ Stream(c) # <<End>>
      BY <1>1, <1>8, Heads, KindsOfRecords
    <3>2. /\ Stream(c) # <<Echo("get")>> /\ Stream(c) # <<Echo("get"), End>>
          /\ \A b : Stream(c) # <<Echo("get"), FileHead, Data(b)>>
          /\ Stream(c) # <<Echo("put")>>
      BY <1>1, <2>1, Heads, KindsOfRecords
    <3>3. Answers /\ \E w : Stream(c) = <<Echo(w)>>
      BY <1>1, <3>1, <3>2 DEF Answering, Rest
    <3>4. QED
      BY <1>1, <3>3, Heads
  <2>5. pc'[c] = "prompt" /\ srv = "line"
    BY <1>1, <2>2, <2>4 DEF TypeOK, Answers
  <2>6. Serving(c)'
    BY <1>5, <2>2, <2>4, <2>5 DEF Serving, AtPrompt, Sent
  <2>7. QED
    BY <1>3, <1>4, <2>2, <2>3, <2>6
<1>9. CASE m.kind = "echo" /\ m.word = "get"
  <2>1. "get" \notin DOMAIN Local
    BY DEF Local
  <2>2. pc' = [pc EXCEPT ![c] = "gethead"] /\ UNCHANGED <<place, up, skipped>>
    BY <1>9, <2>1 DEF Goto
  <2>3. /\ Answers
        /\ \/ Stream(c) = <<Echo("get"), End>>
           \/ Stream(c) = <<Echo("get")>> /\ Muted(c)
           \/ \E b \in Contents : Stream(c) = <<Echo("get"), FileHead, Data(b)>>
    <3>1. Stream(c) # <<Text, End>> /\ Stream(c) # <<End>>
      BY <1>1, <1>9, Heads, KindsOfRecords
    <3>2. Stream(c) # <<Echo("put")>> /\ \A w \in DOMAIN Local : Stream(c) # <<Echo(w)>>
      BY <1>1, <1>9, <2>1, Heads, KindsOfRecords
    <3>3. QED
      BY <1>1, <3>1, <3>2 DEF Answering, Rest
  <2>4. pc'[c] = "gethead"
    BY <1>1, <2>2 DEF TypeOK
  <2>5. Serving(c)'
    <3>1. CASE Stream(c) = <<Echo("get"), End>>
      <4>1. Stream(c)' = <<End>>
        BY <1>1, <3>1, Heads
      <4>2. QED
        BY <1>5, <2>2, <2>3, <2>4, <4>1 DEF Serving, Heading
    <3>2. CASE Stream(c) = <<Echo("get")>> /\ Muted(c)
      <4>1. Stream(c)' = <<>> /\ srv = "line"
        BY <1>1, <2>3, <3>2, Heads DEF Answers
      <4>2. QED
        BY <1>5, <2>2, <2>4, <3>2, <4>1 DEF Serving, Stuck, Muted
    <3>3. ASSUME NEW b \in Contents, Stream(c) = <<Echo("get"), FileHead, Data(b)>>
          PROVE  Serving(c)'
      <4>1. Stream(c)' = <<FileHead, Data(b)>>
        BY <1>1, <3>3, Heads
      <4>2. QED
        BY <1>5, <2>2, <2>3, <2>4, <4>1 DEF Serving, Heading
    <3>4. QED
      BY <2>3, <3>1, <3>2, <3>3
  <2>6. QED
    BY <1>3, <1>4, <2>2, <2>5
<1>10. CASE m.kind = "echo" /\ m.word = "put" /\ PutStart(c) /\ UNCHANGED place
  <2>1. /\ pc' = [pc EXCEPT ![c] = pc'[c]] /\ up' = [up EXCEPT ![c] = up'[c]]
        /\ skipped \subseteq skipped' /\ skipped' \subseteq skipped \cup {c}
        /\ \/ /\ pc'[c] = "putdata" /\ up'[c] = <<FileHead>> /\ place[c].cwd # "removed"
           \/ pc'[c] = "prompt" /\ up'[c] = <<End>>
           \/ pc'[c] = "prompt" /\ up'[c] = <<>> /\ c \in skipped'
    BY <1>5, <1>10, PutStartSends, AppendToNone
  <2>2. srv = "puthead" /\ Stream(c)' = <<>>
    <3>1. Stream(c) # <<Text, End>> /\ Stream(c) # <<End>>
      BY <1>1, <1>10, Heads, KindsOfRecords
    <3>2. /\ Stream(c) # <<Echo("get")>> /\ Stream(c) # <<Echo("get"), End>>
          /\ \A b : Stream(c) # <<Echo("get"), FileHead, Data(b)>>
          /\ \A w \in DOMAIN Local : Stream(c) # <<Echo(w)>>
      BY <1>1, <1>10, Heads, KindsOfRecords DEF Local
    <3>3. Stream(c) = <<Echo("put")>> /\ srv \in {"write", "puthead"}
      BY <1>1, <3>1, <3>2 DEF Answering, Rest
    <3>4. QED
      BY <1>1, <3>3, Heads
  <2>3. up'[c] \in Seq(UpMsg) /\ pc'[c] \in {"prompt", "answer", "gethead", "putdata"}
    <3>1. <<FileHead>> \in Seq(UpMsg) /\ <<End>> \in Seq(UpMsg) /\ <<>> \in Seq(UpMsg)
      BY Records
    <3>2. QED
      BY <2>1, <3>1
  <2>4. Serving(c)'
    BY <1>5, <2>1, <2>2 DEF Serving, AtPrompt, Sent, Putting, Muted
  <2>5. place' = [place EXCEPT ![c] = place[c]]
    BY <1>4, <1>10
  <2>6. QED
    BY <1>3, <1>4, <2>1, <2>3, <2>4, <2>5
<1>11. QED
  BY <1>6, <1>7, <1>8, <1>9, <1>10

-----------------------------------------------------------------------------
(* The steps of the server.                                                *)

LEMMA ServedClient ==
  ASSUME IInv, srv # "accept"
  PROVE  /\ client_sock \in Clients /\ TypeOK /\ ServerOK
         /\ Session(client_sock) /\ Serving(client_sock)
         /\ conn[client_sock] # "open" => Gone(client_sock) /\ pc[client_sock] = "gone"
         /\ conn[client_sock] = "open" => ~Gone(client_sock) /\ pc[client_sock] # "gone"
<1>1. client_sock \in Clients /\ TypeOK /\ ServerOK
  BY DEF IInv, ServerOK, TypeOK
<1>2. Session(client_sock) /\ Serving(client_sock)
  BY <1>1 DEF IInv, Sessions, Session
<1>3. conn[client_sock] # "open" => pc[client_sock] = "gone"
  BY <1>2 DEF Session
<1>4. pc[client_sock] = "gone" => Gone(client_sock)
  BY <1>2 DEF Serving, AtPrompt, Asking, Answering, Stuck, Heading, Getting, Putting, Lost
<1>5. QED
  BY <1>1, <1>2, <1>3, <1>4 DEF Session, Gone

\* All of Session(c) but Serving(c), while c goes on to be served.
LEMMA StillServed ==
  ASSUME NEW c \in Clients, Session(c), c = client_sock, UNCHANGED <<clientVars, backlog>>,
         client_sock' = c, place'[c] = place[c], cut => cut',
         conn'[c] = conn[c] \/ (pc[c] = "gone" /\ conn'[c] = "broken"),
         down'[c] = down[c] \/ pc[c] # "gone",
         Serving(c)'
  PROVE  Session(c)'
<1>1. Queued(c)' <=> Queued(c)
  BY DEF Queued
<1>2. pc'[c] = pc[c] /\ pc[c] # "away"
  BY DEF clientVars, Session
<1>3. QED
  BY <1>1, <1>2 DEF Session

LEMMA ReadEndKeeps ==
  ASSUME IInv, NEW c \in Clients, c = client_sock, ReadEnd
  PROVE  IInv'
<1> USE DEF ReadEnd, NoMore, Incoming
<1>1. /\ Session(c) /\ TypeOK /\ ServerOK /\ pc[c] = "gone"
  BY ServedClient
<1>2. TypeOK'
  BY <1>1 DEF TypeOK, clientVars, netVars, history
<1>3. OthersOfServer(c)
  BY DEF OthersOfServer, netVars, history
<1>4. ServerOK' /\ ServerSurvives'
  BY <1>1 DEF ServerOK, ServerSurvives, netVars, history
<1>5. Session(c)'
  <2>1. c # client_sock'
    BY <1>1, NamesAssumption
  <2>2. Queued(c)' <=> Queued(c)
    BY DEF Queued, netVars
  <2>3. QED
    BY <1>1, <2>1, <2>2 DEF Session, netVars, clientVars, history
<1>6. UNCHANGED <<clientVars, backlog>> /\ place' = place /\ client_sock' = NONE
  BY DEF netVars
<1>7. QED
  BY <1>1, <1>2, <1>3, <1>4, <1>5, <1>6, ServerStep

LEMMA AstrayKeeps ==
  ASSUME IInv, NEW c \in Clients, c = client_sock, Astray
  PROVE  IInv'
<1> USE DEF Astray
<1>1. /\ Session(c) /\ Serving(c) /\ TypeOK /\ ServerOK
      /\ (conn[c] # "open" => pc[c] = "gone") /\ cut
  BY ServedClient DEF ServerOK
<1>2. TypeOK'
  BY <1>1 DEF TypeOK, clientVars, netVars, history
<1>3. OthersOfServer(c)
  BY DEF OthersOfServer, netVars, history
<1>4. ServerOK' /\ ServerSurvives'
  BY <1>1, NamesAssumption DEF ServerOK, ServerSurvives, netVars, history
<1>5. Queued(c)' <=> Queued(c)
  BY DEF Queued, netVars
<1>6. Session(c)'
  <2>1. CASE client_sock' = NONE /\ conn[c] # "open"
    <3>1. c # client_sock'
      BY <1>1, <2>1, NamesAssumption
    <3>2. QED
      BY <1>1, <1>5, <2>1, <3>1 DEF Session, netVars, clientVars, history
  <2>2. CASE srv' = "dead" /\ UNCHANGED client_sock
    <3>1. Lost(c) \/ Gone(c)
      BY <1>1 DEF Serving, AtPrompt, Sent, Asking, Asked, Answering, Answers, Stuck, Heading,
                  Getting, Putting
    <3>2. Lost(c) => Lost(c)'
      BY <2>2 DEF Lost, Stream, netVars, clientVars
    <3>3. Gone(c) => Gone(c)'
      BY <1>1, <2>2 DEF Gone, netVars, clientVars, history
    <3>4. QED
      BY <1>1, <1>5, <2>2, <3>1, <3>2, <3>3, StillServed DEF Serving, netVars, clientVars, history
  <2>3. QED
    BY <2>1, <2>2
<1>7. UNCHANGED <<clientVars, backlog>> /\ place' = place /\ client_sock' \in {c, NONE}
  BY DEF netVars
<1>8. QED
  BY <1>1, <1>2, <1>3, <1>4, <1>6, <1>7, ServerStep

LEMMA ReadErrorKeeps ==
  ASSUME IInv, NEW c \in Clients, c = client_sock, ReadError
  PROVE  IInv'
<1> USE DEF ReadError, NoMore, Incoming, Failed
<1>1. /\ Session(c) /\ TypeOK /\ ServerOK /\ pc[c] = "gone" /\ Gone(c)
      /\ up[c] = <<>> /\ todo' \in Seq(DownMsg) /\ srv' \in {"line", "write"}
  BY ServedClient, TypesOfClient, AnswerRecords
<1>2. /\ conn' = [conn EXCEPT ![c] = "broken"]
      /\ \A d \in Clients \ {c} : conn'[d] = conn[d]
      /\ conn'[c] = "broken"
  BY <1>1 DEF TypeOK
<1>3. TypeOK'
  BY <1>1, <1>2 DEF TypeOK, clientVars, history
<1>4. OthersOfServer(c)
  BY <1>2 DEF OthersOfServer, history
<1>5. ServerOK' /\ ServerSurvives'
  BY <1>1, NamesAssumption DEF ServerOK, ServerSurvives, history
<1>6. Gone(c)'
  <2>1. cut' \/ Muted(c)'
    BY <1>1 DEF Gone, Muted, history
  <2>2. up'[c] = <<>> /\ pc'[c] = "gone" /\ srv' \in {"line", "write"}
    BY <1>1 DEF clientVars
  <2>3. QED
    BY <2>1, <2>2 DEF Gone, Sent
<1>7. Session(c)'
  BY <1>1, <1>2, <1>6, StillServed DEF Serving, history
<1>8. QED
  BY <1>1, <1>3, <1>4, <1>5, <1>7, ServerStep DEF history

LEMMA AcceptKeeps ==
  ASSUME IInv, Accept
  PROVE  IInv'
<1> USE DEF Accept
<1>1. TypeOK /\ ServerOK /\ client_sock = NONE /\ todo = <<>> /\ backlog \in Seq(Clients)
  BY DEF IInv, ServerOK, TypeOK
<1>2. PICK c \in Clients : c = Head(backlog)
  BY <1>1
<1>3. /\ Queued(c) /\ ~Queued(c)'
      /\ \A d \in Clients \ {c} : Queued(d)' <=> Queued(d)
  <2>1. /\ \A k \in DOMAIN backlog' : k + 1 \in DOMAIN backlog /\ backlog'[k] = backlog[k + 1]
        /\ \A k \in DOMAIN backlog :
             k # 1 => k - 1 \in DOMAIN backlog' /\ backlog'[k - 1] = backlog[k]
        /\ backlog[1] = c /\ 1 \in DOMAIN backlog
        /\ DOMAIN backlog \subseteq Nat /\ DOMAIN backlog' \subseteq Nat \ {0}
    BY <1>1, <1>2
  <2>2. \A j, k \in DOMAIN backlog : backlog[j] = backlog[k] => j = k
    BY <1>1 DEF ServerOK
  <2>3. \A k \in DOMAIN backlog' : k + 1 # 1
    BY <2>1
  <2>4. Queued(c) /\ ~Queued(c)'
    BY <2>1, <2>2, <2>3 DEF Queued
  <2>5. ASSUME NEW d \in Clients \ {c} PROVE Queued(d)' <=> Queued(d)
    <3>1. Queued(d)' => Queued(d)
      BY <2>1 DEF Queued
    <3>2. ASSUME NEW k \in DOMAIN backlog, backlog[k] = d PROVE Queued(d)'
      <4>1. k - 1 \in DOMAIN backlog' /\ backlog'[k - 1] = d
        BY <2>1, <3>2
      <4>2. QED
        BY <4>1 DEF Queued
    <3>3. QED
      BY <3>1, <3>2 DEF Queued
  <2>6. QED
    BY <2>4, <2>5
<1>4. TypeOK'
  BY <1>1, <1>2 DEF TypeOK, clientVars, history
<1>5. ServerOK'
  <2>1. \A j, k \in DOMAIN backlog' : backlog'[j] = backlog'[k] => j = k
    <3>1. \A k \in DOMAIN backlog' :
            k \in Nat /\ k + 1 \in DOMAIN backlog /\ backlog'[k] = backlog[k + 1]
      BY <1>1
    <3>2. \A j, k \in DOMAIN backlog : backlog[j] = backlog[k] => j = k
      BY <1>1 DEF ServerOK
    <3>3. QED
      BY <3>1, <3>2
  <2>2. QED
    BY <1>1, <1>2, <2>1, NamesAssumption DEF ServerOK
<1>6. FilesWhole' /\ ServerSurvives'
  BY DEF IInv, FilesWhole, ServerSurvives, history
<1>7. Session(c)'
  <2>1. Session(c) /\ c # client_sock /\ Waiting(c) /\ down[c] = <<>>
    BY <1>1, <1>2, <1>3, NamesAssumption DEF IInv, Sessions, Session
  <2>2. /\ Stream(c)' = <<>> /\ pc'[c] = pc[c] /\ hold'[c] = hold[c] /\ up'[c] = up[c]
        /\ conn'[c] = conn[c] /\ srv' = "line"
    BY <1>1, <2>1, ConcatNone DEF Stream, clientVars
  <2>3. Serving(c)'
    <3>1. CASE pc[c] = "prompt" /\ up[c] = <<>>
      BY <2>2, <3>1 DEF Serving, AtPrompt, Sent
    <3>2. CASE pc[c] = "answer" /\ up[c] = <<Line(hold[c])>>
      BY <2>2, <3>2 DEF Serving, Asking, Asked
    <3>3. CASE pc[c] = "gone" /\ conn[c] = "fin" /\ up[c] = <<>>
      BY <2>2, <3>3 DEF Serving, Gone, Sent
    <3>4. CASE pc[c] = "gone" /\ up[c] = <<Line(hold[c])>> /\ cut
      BY <2>2, <3>4 DEF Serving, Gone, Asked, history
    <3>5. QED
      BY <2>1, <3>1, <3>2, <3>3, <3>4 DEF Waiting
  <2>4. pc[c] \in {"prompt", "answer", "gone"}
    BY <2>1 DEF Waiting
  <2>5. QED
    BY <1>2, <1>3, <2>1, <2>2, <2>3, <2>4 DEF Session, clientVars
<1>8. ASSUME NEW d \in Clients \ {c} PROVE Session(d)'
  <2>1. Session(d) /\ d # client_sock /\ d # client_sock'
    BY <1>1, <1>2, NamesAssumption DEF IInv, Sessions
  <2>2. QED
    BY <1>3, <2>1, BystanderOfServer DEF clientVars, history
<1>9. QED
  BY <1>4, <1>5, <1>6, <1>7, <1>8 DEF IInv, Sessions

LEMMA WriteKeeps ==
  ASSUME IInv, NEW c \in Clients, c = client_sock, Write
  PROVE  IInv'
<1> USE DEF Write
<1> DEFINE next == IF Len(todo) > 1 THEN "write" ELSE IF last = "put" THEN "puthead" ELSE "line"
<1>1. /\ Session(c) /\ Serving(c) /\ TypeOK /\ ServerOK
      /\ (conn[c] # "open" => Gone(c)) /\ (conn[c] = "open" => pc[c] # "gone" /\ ~Gone(c))
  BY ServedClient
<1>2. todo # <<>> /\ todo \in Seq(DownMsg) /\ down[c] \in Seq(DownMsg)
  BY <1>1, TypesOfClient DEF ServerOK
<1>3. Head(todo) \in DownMsg /\ todo' \in Seq(DownMsg) /\ (Len(todo) > 1 <=> todo' # <<>>)
  BY <1>2, HeadTail
<1>4. Stream(c) # <<>>
  BY <1>2, ConcatIsNone DEF Stream
<1>5. Gone(c) => up[c] = <<>> /\ (cut \/ Muted(c))
  BY DEF Gone, Sent, Asked
<1>6. ServerOK'
  BY <1>1, <1>3, NamesAssumption DEF ServerOK, history
<1>7. CASE conn[c] = "open"
  <2>1. down' = [down EXCEPT ![c] = Append(@, Head(todo))] /\ srv' = next /\ conn' = conn
    BY <1>7
  <2>2. TypeOK'
    BY <1>1, <1>2, <1>3, <2>1 DEF TypeOK, clientVars, history
  <2>3. /\ down'[c] = Append(down[c], Head(todo))
        /\ \A d \in Clients \ {c} : down'[d] = down[d]
    BY <1>1, <2>1 DEF TypeOK
  <2>4. Stream(c)' = Stream(c)
    BY <1>2, <2>3, WriteOn DEF Stream
  <2>5. Answering(c) \/ Heading(c) \/ Getting(c)
    BY <1>1, <1>4, <1>7 DEF Serving, AtPrompt, Asking, Stuck, Putting, Lost
  <2>6. (Answers => Answers') /\ (last = "put" => srv' \in {"write", "puthead"})
    BY <2>1 DEF Answers
  <2>7. Serving(c)'
    BY <2>4, <2>5, <2>6 DEF Answering, Heading, Getting, Serving, Rest, Muted, clientVars, history
  <2>8. OthersOfServer(c) /\ ServerSurvives'
    BY <2>1, <2>3 DEF OthersOfServer, ServerSurvives, history
  <2>9. Session(c)'
    BY <1>1, <1>7, <2>1, <2>7, StillServed DEF history
  <2>10. QED
    BY <1>6, <2>2, <2>8, <2>9, ServerStep DEF history
<1>8. CASE conn[c] \in {"fin", "reset"}
  <2>1. conn' = [conn EXCEPT ![c] = "broken"] /\ srv' = next /\ down' = down
    BY <1>8
  <2>2. TypeOK'
    BY <1>1, <1>3, <2>1 DEF TypeOK, clientVars, history
  <2>3. conn'[c] = "broken" /\ \A d \in Clients \ {c} : conn'[d] = conn[d]
    BY <1>1, <2>1 DEF TypeOK
  <2>4. Gone(c)'
    BY <1>1, <1>5, <1>8, <2>1 DEF Gone, Sent, Muted, clientVars, history
  <2>5. OthersOfServer(c) /\ ServerSurvives'
    BY <2>1, <2>3 DEF OthersOfServer, ServerSurvives, history
  <2>6. Session(c)'
    BY <1>1, <1>8, <2>1, <2>3, <2>4, StillServed DEF Serving, Gone, history
  <2>7. QED
    BY <1>6, <2>2, <2>5, <2>6, ServerStep DEF history
<1>9. CASE conn[c] \notin {"open", "fin", "reset"}
  <2>1. srv' = "dead" /\ conn' = conn /\ down' = down
    BY <1>9
  <2>2. TypeOK'
    BY <1>1, <1>3, <2>1 DEF TypeOK, clientVars, history
  <2>3. Gone(c)'
    BY <1>1, <1>5, <1>9, <2>1 DEF Gone, Muted, clientVars, history
  <2>4. OthersOfServer(c) /\ ServerSurvives'
    BY <1>1, <1>5, <1>9, <2>1 DEF OthersOfServer, ServerSurvives, Muted, history
  <2>5. Session(c)'
    BY <1>1, <2>1, <2>3, StillServed DEF Serving, history
  <2>6. QED
    BY <1>6, <2>2, <2>4, <2>5, ServerStep DEF history
<1>10. QED
  BY <1>7, <1>8, <1>9

\* What may come up while the server awaits a line, a head or data.
LEMMA ReadsALine ==
  ASSUME IInv, NEW c \in Clients, c = client_sock, srv = "line", up[c] # <<>>
  PROVE  /\ up[c] = <<Line(hold[c])>> /\ Stream(c) = <<>>
         /\ Asking(c) \/ (Gone(c) /\ (cut \/ Muted(c)))
<1>1. Serving(c)
  BY ServedClient
<1>2. Asking(c) \/ (Gone(c) /\ Asked(srv, up[c], Muted(c), hold[c]))
  BY <1>1 DEF Serving, AtPrompt, Sent, Answering, Stuck, Heading, Getting, Putting, Lost, Gone
<1>3. up[c] = <<Line(hold[c])>>
  BY <1>2 DEF Asking, Asked
<1>4. Gone(c) => (cut \/ Muted(c)) /\ Stream(c) = <<>>
  <2>1. todo = <<>> /\ (Gone(c) => down[c] = <<>>)
    BY ServedClient DEF ServerOK, Session, Gone
  <2>2. QED
    BY <1>3, <2>1, ConcatNone DEF Gone, Sent, Stream
<1>5. QED
  BY <1>2, <1>3, <1>4 DEF Asking

LEMMA ReadLineKeeps ==
  ASSUME IInv, NEW c \in Clients, c = client_sock, ReadLine
  PROVE  IInv'
<1> USE DEF ReadLine, Incoming, Read
<1> DEFINE words == hold[c]
           p == place[SERVER]
<1>1. /\ Session(c) /\ TypeOK /\ ServerOK /\ down[c] \in Seq(DownMsg) /\ p \in Places
      /\ up[c] \in Seq(UpMsg)
  BY ServedClient, TypesOfClient
<1>2. /\ up[c] = <<Line(words)>> /\ Stream(c) = <<>>
      /\ Asking(c) \/ (Gone(c) /\ (cut \/ Muted(c)))
  BY ReadsALine
<1>3. Head(up[c]) = Line(words) /\ Tail(up[c]) = <<>>
  BY <1>2, Heads
<1>4. Line(words).kind = "line" /\ Line(words).words = words
  BY KindsOfRecords
<1>5. /\ up' \in [Clients -> Seq(UpMsg)] /\ up'[c] = <<>>
      /\ \A d \in Clients \ {c} : up'[d] = up[d]
  BY <1>1, <1>3 DEF TypeOK
<1>6. down[c] = <<>> /\ todo = <<>>
  BY <1>1, <1>2, ConcatIsNone DEF ServerOK, Stream
<1>7. CASE words # <<>>
  <2>1. /\ last' = words[1] /\ todo' = Answer(p, words)
        /\ srv' = IF todo' = <<>> THEN "line" ELSE "write"
        /\ place' = [place EXCEPT ![SERVER] = Apply(@, words)]
        /\ skipped' = IF Mute(p, words) THEN skipped \cup {c} ELSE skipped
    BY <1>3, <1>4, <1>7 DEF Execute
  <2>2. todo' \in Seq(DownMsg) /\ Apply(p, words) \in Places
    BY <1>1, <2>1, AnswerRecords, PlacesKept DEF Contents
  <2>3. TypeOK'
    BY <1>1, <1>5, <2>1, <2>2 DEF TypeOK, clientVars
  <2>4. /\ place'[SERVER] = Apply(p, words) /\ \A d \in Clients : place'[d] = place[d]
        /\ skipped \subseteq skipped' /\ (cut => cut')
    BY <1>1, <2>1, NamesAssumption DEF TypeOK
  <2>5. \A dir \in {"top", "d"} : place'[SERVER].f[dir] = GARBLED => p.f[dir] = GARBLED
    <3>1. NONE \in Contents
      BY DEF Contents
    <3>2. QED
      BY <1>1, <2>4, <3>1, NothingGarbled
  <2>6. OthersOfServer(c) /\ ServerOK' /\ ServerSurvives'
    BY <1>1, <1>5, <2>1, <2>4, NamesAssumption DEF OthersOfServer, ServerOK, ServerSurvives
  <2>7. Stream(c)' = todo'
    BY <1>6, <2>2, ConcatNone DEF Stream
  <2>8. Serving(c)'
    <3>1. CASE Asking(c)
      <4>1. pc'[c] = "answer"
        BY <3>1 DEF Asking, clientVars
      <4>2. CASE words[1] = "put"
        <5>1. todo' = <<Echo("put")>>
          BY <1>1, <2>1, <4>2, AnswerShapes
        <5>2. srv' = "write"
          BY <2>1, <5>1, Lengths
        <5>3. QED
          BY <1>5, <2>1, <2>7, <4>1, <4>2, <5>1, <5>2 DEF Serving, Answering
      <4>3. CASE words[1] # "put" /\ todo' = <<>> /\ Mute(p, words)
        BY <1>5, <2>1, <2>7, <4>1, <4>3 DEF Serving, Stuck, Muted
      <4>4. CASE words[1] # "put" /\ todo' \in Rest(Mute(p, words))
        <5>1. todo' \in Rest(Muted(c)')
          BY <2>1, <4>4 DEF Rest, Muted
        <5>2. Answers'
          BY <2>1, <4>4 DEF Answers
        <5>3. Stream(c)' \in Rest(Muted(c))'
          BY <2>7, <5>1 DEF Rest
        <5>4. QED
          BY <1>5, <4>1, <5>2, <5>3 DEF Serving, Answering
      <4>5. QED
        BY <1>1, <2>1, <4>2, <4>3, <4>4, AnswerShapes
    <3>2. CASE Gone(c) /\ (cut \/ Muted(c))
      <4>1. pc'[c] = "gone" /\ srv' \in {"line", "write"} /\ (cut' \/ Muted(c)')
        BY <2>1, <2>4, <3>2 DEF Gone, Muted, clientVars
      <4>2. QED
        BY <1>5, <4>1 DEF Serving, Gone, Sent
    <3>3. QED
      BY <1>2, <3>1, <3>2
  <2>9. Session(c)'
    BY <1>1, <2>4, <2>8, StillServed
  <2>10. QED
    BY <2>3, <2>5, <2>6, <2>9, ServerStep
<1>8. CASE words = <<>>
  <2>1. srv' = "dead" /\ UNCHANGED <<place, last, todo, skipped>>
    BY <1>3, <1>4, <1>8
  <2>2. TypeOK'
    BY <1>1, <1>5, <2>1 DEF TypeOK, clientVars
  <2>3. hold'[c] = <<>> /\ pc'[c] = pc[c] /\ Stream(c)' = <<>>
    BY <1>2, <1>8, <2>1 DEF clientVars, Stream
  <2>4. OthersOfServer(c) /\ ServerOK' /\ ServerSurvives'
    BY <1>1, <1>5, <2>1, <2>3, NamesAssumption DEF OthersOfServer, ServerOK, ServerSurvives
  <2>5. Serving(c)'
    <3>1. Asking(c) => Lost(c)'
      BY <2>1, <2>3 DEF Asking, Lost
    <3>2. Gone(c) /\ (cut \/ Muted(c)) => Gone(c)'
      BY <2>1, <2>3 DEF Gone, Muted
    <3>3. QED
      BY <1>2, <3>1, <3>2 DEF Serving
  <2>6. Session(c)'
    BY <1>1, <2>1, <2>5, StillServed
  <2>7. QED
    BY <2>1, <2>2, <2>4, <2>6, ServerStep
<1>9. QED
  BY <1>7, <1>8

\* The server waits for a head: what the client has sent begins with one, or
\* with the end, unless the client is muted or has left.
LEMMA ReadsAHead ==
  ASSUME IInv, NEW c \in Clients, c = client_sock, srv = "puthead", up[c] # <<>>
  PROVE  \/ up[c] = <<End>>
         \/ up[c] = <<End, Line(hold[c])>>
         \/ up[c] = <<FileHead>>
         \/ \E b \in Contents :
              up[c] \in {<<FileHead, Data(b)>>, <<FileHead, Data(b), Line(hold[c])>>}
         \/ Muted(c) /\ up[c] = <<Line(hold[c])>>
<1>1. Serving(c)
  BY ServedClient
<1>2. \/ Sent("puthead", up[c], Muted(c)) \/ Sent("puthead", up[c], TRUE)
      \/ Asked("puthead", up[c], Muted(c), hold[c]) \/ up[c] = <<FileHead>>
  BY <1>1 DEF Serving, AtPrompt, Asking, Answering, Stuck, Heading, Getting, Putting, Lost, Gone,
              Answers, Sent, Asked
<1>3. QED
  BY <1>2 DEF Sent, Asked

LEMMA HeadEndsPut ==
  ASSUME IInv, NEW c \in Clients, c = client_sock, srv = "puthead", up[c] # <<>>,
         UNCHANGED <<clientVars, conn, down, todo, skipped, cut>>, client_sock' = c,
         up'[c] = Tail(up[c]),
         \/ Head(up[c]) = End /\ srv' = "line"
         \/ Head(up[c]) = FileHead /\ srv' = "putdata"
         \/ Head(up[c]) = Line(hold[c]) /\ srv' \in {"line", "dead"}
  PROVE  Serving(c)'
<1> DEFINE l == Line(hold[c])
<1>1. Serving(c) /\ Stream(c)' = Stream(c)
  BY ServedClient DEF Stream
<1>2. End.kind = "end" /\ FileHead.kind = "head" /\ l.kind = "line"
  BY KindsOfRecords
<1>3. End # FileHead /\ End # l /\ FileHead # l
  BY <1>2
<1>4. pc'[c] = pc[c] /\ hold'[c] = hold[c] /\ conn'[c] = conn[c] /\ (Muted(c)' <=> Muted(c))
  BY DEF clientVars, Muted
<1>5. CASE up[c] = <<End>>
  <2>1. srv' = "line" /\ up'[c] = <<>>
    BY <1>3, <1>5, Heads
  <2>2. AtPrompt(c) \/ Gone(c)
    <3>1. up[c] # <<FileHead>>
      BY <1>3, <1>5, Heads
    <3>2. ~Asking(c)
      <4>1. up[c] # <<End, l>> /\ \A b : up[c] # <<FileHead, Data(b), l>>
        BY <1>5, Lengths
      <4>2. up[c] # <<l>>
        BY <1>3, <1>5, Heads
      <4>3. QED
        BY <4>1, <4>2 DEF Asking, Asked
    <3>3. QED
      BY <1>1, <1>5, <3>1, <3>2, Lengths
      DEF Serving, Answering, Stuck, Heading, Getting, Putting, Lost, Answers
  <2>3. AtPrompt(c) => AtPrompt(c)'
    BY <1>1, <1>4, <2>1 DEF AtPrompt, Sent
  <2>4. Gone(c) => Gone(c)'
    <3>1. Gone(c) => cut \/ Muted(c) \/ conn[c] = "fin"
      BY DEF Gone
    <3>2. QED
      BY <1>4, <2>1, <3>1 DEF Gone, Sent
  <2>5. QED
    BY <2>2, <2>3, <2>4 DEF Serving
<1>6. CASE up[c] = <<End, l>>
  <2>1. srv' = "line" /\ up'[c] = <<l>>
    BY <1>3, <1>6, Heads
  <2>2. /\ ~Sent("puthead", up[c], TRUE) /\ ~Sent("puthead", up[c], FALSE)
        /\ ~Sent("puthead", up[c], Muted(c))
        /\ up[c] # <<FileHead>> /\ up[c] # <<>>
    <3>1. up[c] # <<>> /\ up[c] # <<End>> /\ up[c] # <<FileHead>>
      BY <1>6, Lengths
    <3>2. \A b : up[c] # <<FileHead, Data(b)>>
      BY <1>3, <1>6, Heads
    <3>3. QED
      BY <3>1, <3>2 DEF Sent
  <2>3. Asking(c) \/ Gone(c)
    BY <1>1, <2>2 DEF Serving, AtPrompt, Answering, Stuck, Heading, Getting, Putting, Lost
  <2>4. Asking(c) => Asking(c)'
    BY <1>1, <1>4, <2>1 DEF Asking, Asked
  <2>5. Gone(c) => Gone(c)'
    BY <1>4, <2>1, <2>2 DEF Gone, Asked
  <2>6. QED
    BY <2>3, <2>4, <2>5 DEF Serving
<1>7. CASE up[c] = <<FileHead>>
  <2>1. srv' = "putdata" /\ up'[c] = <<>>
    BY <1>3, <1>7, Heads
  <2>2. Head(up[c]) = FileHead /\ Len(up[c]) = 1
    BY <1>7, Heads, Lengths
  <2>3. ~Sent("puthead", up[c], FALSE) /\ ~Sent("puthead", up[c], Muted(c))
        /\ ~Asked("puthead", up[c], Muted(c), hold[c])
    <3>1. up[c] # <<>> /\ up[c] # <<End>> /\ up[c] # <<l>> /\ up[c] # <<End, l>>
      BY <1>3, <2>2, Heads, Lengths
    <3>2. \A b : up[c] # <<FileHead, Data(b)>> /\ up[c] # <<FileHead, Data(b), l>>
      BY <2>2, Lengths
    <3>3. QED
      BY <3>1, <3>2 DEF Sent, Asked
  <2>4. Putting(c) \/ Gone(c)
    BY <1>1, <1>7, <2>3, Lengths
    DEF Serving, AtPrompt, Asking, Answering, Stuck, Heading, Getting, Lost
  <2>5. Putting(c) => Putting(c)'
    BY <1>1, <1>4, <2>1 DEF Putting
  <2>6. Gone(c) => Gone(c)'
    BY <1>4, <2>1, <2>3 DEF Gone
  <2>7. QED
    BY <2>4, <2>5, <2>6 DEF Serving
<1>8. ASSUME NEW b \in Contents, up[c] = <<FileHead, Data(b)>>
      PROVE  Serving(c)'
  <2>1. srv' = "putdata" /\ up'[c] = <<Data(b)>>
    BY <1>3, <1>8, Heads
  <2>2. ~Asked("puthead", up[c], Muted(c), hold[c]) /\ up[c] # <<>> /\ up[c] # <<FileHead>>
    <3>1. Len(up[c]) = 2 /\ Head(up[c]) # End
      BY <1>3, <1>8, Heads, Lengths
    <3>2. up[c] # <<End, l>> /\ up[c] # <<l>> /\ \A x : up[c] # <<FileHead, Data(x), l>>
      <4>1. up[c] # <<End, l>>
        BY <3>1, Heads
      <4>2. up[c] # <<l>>
        BY <1>8, Lengths
      <4>3. ASSUME NEW x PROVE up[c] # <<FileHead, Data(x), l>>
        BY <1>8, Lengths
      <4>4. QED
        BY <4>1, <4>2, <4>3
    <3>3. QED
      BY <1>8, <3>2, Lengths DEF Asked
  <2>3. AtPrompt(c) \/ Gone(c)
    BY <1>1, <2>2 DEF Serving, Asking, Answering, Stuck, Heading, Getting, Putting, Lost
  <2>4. AtPrompt(c) => AtPrompt(c)'
    BY <1>1, <1>4, <2>1 DEF AtPrompt, Sent
  <2>5. Gone(c) => Gone(c)'
    <3>1. Gone(c) => cut \/ Muted(c) \/ conn[c] = "fin"
      BY DEF Gone
    <3>2. QED
      BY <1>4, <2>1, <3>1 DEF Gone, Sent
  <2>6. QED
    BY <2>3, <2>4, <2>5 DEF Serving
<1>9. ASSUME NEW b \in Contents, up[c] = <<FileHead, Data(b), l>>
      PROVE  Serving(c)'
  <2>1. srv' = "putdata" /\ up'[c] = <<Data(b), l>>
    BY <1>3, <1>9, Heads
  <2>2. /\ ~Sent("puthead", up[c], TRUE) /\ ~Sent("puthead", up[c], FALSE)
        /\ ~Sent("puthead", up[c], Muted(c))
        /\ up[c] # <<FileHead>> /\ up[c] # <<>>
    <3>1. Len(up[c]) = 3
      BY <1>9, Lengths
    <3>2. up[c] # <<>> /\ up[c] # <<End>> /\ up[c] # <<FileHead>>
      BY <3>1, Lengths
    <3>3. \A x : up[c] # <<FileHead, Data(x)>>
      BY <3>1, Lengths
    <3>4. QED
      BY <3>2, <3>3 DEF Sent
  <2>3. Asking(c) \/ Gone(c)
    BY <1>1, <2>2 DEF Serving, AtPrompt, Answering, Stuck, Heading, Getting, Putting, Lost
  <2>4. Asking(c) => Asking(c)'
    BY <1>1, <1>4, <2>1 DEF Asking, Asked
  <2>5. Gone(c) => Gone(c)'
    BY <1>4, <2>1, <2>2 DEF Gone, Asked
  <2>6. QED
    BY <2>3, <2>4, <2>5 DEF Serving
<1>10. CASE Muted(c) /\ up[c] = <<l>>
  <2>1. srv' \in {"line", "dead"} /\ up'[c] = <<>>
    BY <1>3, <1>10, Heads
  <2>2. ~Sent("puthead", up[c], TRUE) /\ up[c] # <<FileHead>> /\ up[c] # <<>>
        /\ ~Sent("puthead", up[c], Muted(c))
    <3>1. Len(up[c]) = 1 /\ Head(up[c]) = l
      BY <1>10, Heads, Lengths
    <3>2. up[c] # <<End>> /\ up[c] # <<FileHead>> /\ \A b : up[c] # <<FileHead, Data(b)>>
      BY <1>3, <3>1, Heads, Lengths
    <3>3. QED
      BY <1>10, <3>2, Lengths DEF Sent
  <2>3. Asking(c) \/ Gone(c)
    BY <1>1, <2>2 DEF Serving, AtPrompt, Answering, Stuck, Heading, Getting, Putting, Lost
  <2>4. Asking(c) => Stuck(c)' \/ Lost(c)'
    BY <1>1, <1>4, <1>10, <2>1 DEF Asking, Stuck, Lost
  <2>5. Gone(c) => Gone(c)'
    BY <1>4, <1>10, <2>1 DEF Gone, Sent
  <2>6. QED
    BY <2>3, <2>4, <2>5 DEF Serving
<1>11. QED
  BY <1>5, <1>6, <1>7, <1>8, <1>9, <1>10, ReadsAHead

LEMMA PutHeadKeeps ==
  ASSUME IInv, NEW c \in Clients, c = client_sock, PutHead
  PROVE  IInv'
<1> USE DEF PutHead, Incoming, Read
<1> DEFINE m == Head(up[c])
           p == place[SERVER]
<1>1. /\ Session(c) /\ TypeOK /\ ServerOK /\ up[c] \in Seq(UpMsg) /\ p \in Places
      /\ EMPTY \in Contents /\ srv' \in {"line", "putdata", "dead"}
  BY ServedClient, TypesOfClient DEF Contents
<1>2. Store(p, EMPTY) \in Places
  BY <1>1, PlacesKept
<1>3. /\ place' \in [Clients \cup {SERVER} -> Places]
      /\ \A d \in Clients : place'[d] = place[d]
      /\ place'[SERVER] \in {p, Store(p, EMPTY)}
  BY <1>1, <1>2, NamesAssumption DEF TypeOK
<1>4. \A dir \in {"top", "d"} : place'[SERVER].f[dir] = GARBLED => p.f[dir] = GARBLED
  BY <1>1, <1>3, NothingGarbled, ContentsAssumption
<1>5. ServerOK'
  BY <1>1, NamesAssumption DEF ServerOK
<1>6. CASE up[c] # <<>> /\ Read /\ UNCHANGED conn
  <2>1. /\ up' \in [Clients -> Seq(UpMsg)] /\ up'[c] = Tail(up[c])
        /\ \A d \in Clients \ {c} : up'[d] = up[d]
    BY <1>1, <1>6 DEF TypeOK
  <2>2. TypeOK'
    BY <1>1, <1>3, <1>6, <2>1 DEF TypeOK, clientVars, history
  <2>3. m \in {End, FileHead} \/ (m = Line(hold[c]) /\ Muted(c))
    BY <1>6, ReadsAHead, Heads
  <2>4. End.kind = "end" /\ FileHead.kind = "head" /\ Line(hold[c]).kind = "line"
    BY KindsOfRecords
  <2>5. \/ m = End /\ srv' = "line"
        \/ m = FileHead /\ srv' = "putdata"
        \/ m = Line(hold[c]) /\ srv' \in {"line", "dead"} /\ Muted(c)
    BY <1>6, <2>3, <2>4 DEF NoMore
  <2>6. OthersOfServer(c) /\ ServerSurvives'
    BY <1>3, <1>6, <2>1, <2>5 DEF OthersOfServer, ServerSurvives, Muted, history
  <2>7. Serving(c)'
    BY <1>6, <2>1, <2>5, HeadEndsPut DEF history
  <2>8. Session(c)'
    BY <1>1, <1>3, <1>6, <2>7, StillServed DEF history
  <2>9. QED
    BY <1>1, <1>4, <1>5, <2>2, <2>6, <2>8, ServerStep
<1>7. CASE NoMore /\ Failed /\ srv' \in {"line", "dead"} /\ UNCHANGED <<up, place>>
  <2>1. Gone(c) /\ pc[c] = "gone" /\ up[c] = <<>>
    BY <1>7, ServedClient DEF NoMore
  <2>2. conn' = [conn EXCEPT ![c] = IF conn[c] = "reset" THEN "broken" ELSE conn[c]]
    BY <1>7 DEF Failed
  <2>3. /\ conn' \in [Clients -> {"none", "open", "fin", "reset", "broken"}]
        /\ \A d \in Clients \ {c} : conn'[d] = conn[d]
        /\ conn'[c] \in {conn[c], "broken"}
    BY <1>1, <2>2 DEF TypeOK
  <2>4. TypeOK'
    BY <1>1, <1>7, <2>3 DEF TypeOK, clientVars, history
  <2>5. cut \/ Muted(c)
    BY <2>1, Lengths DEF Gone, Sent
  <2>6. OthersOfServer(c) /\ ServerSurvives'
    BY <1>7, <2>3, <2>5 DEF OthersOfServer, ServerSurvives, Muted, history
  <2>7. Gone(c)'
    BY <1>7, <2>1, <2>5 DEF Gone, Sent, Muted, clientVars, history
  <2>8. Session(c)'
    BY <1>1, <1>7, <2>1, <2>3, <2>7, StillServed DEF Serving, history
  <2>9. QED
    BY <1>1, <1>4, <1>5, <2>4, <2>6, <2>8, ServerStep
<1>8. QED
  BY <1>6, <1>7

\* The server waits for the data of a file.
LEMMA ReadsAFile ==
  ASSUME IInv, NEW c \in Clients, c = client_sock, srv = "putdata", up[c] # <<>>
  PROVE  \E b \in Contents : \/ AtPrompt(c) /\ up[c] = <<Data(b)>>
                             \/ Asking(c) /\ up[c] = <<Data(b), Line(hold[c])>>
                             \/ /\ Gone(c) /\ up[c] = <<Data(b)>>
                                /\ cut \/ Muted(c) \/ conn[c] = "fin"
                             \/ /\ Gone(c) /\ up[c] = <<Data(b), Line(hold[c])>>
                                /\ cut \/ Muted(c)
<1>1. Serving(c)
  BY ServedClient
<1>2. AtPrompt(c) \/ Asking(c) \/ Gone(c)
  BY <1>1 DEF Serving, Answering, Stuck, Heading, Getting, Putting, Lost, Answers
<1>3. CASE AtPrompt(c)
  BY <1>3 DEF AtPrompt, Sent
<1>4. CASE Asking(c)
  BY <1>4 DEF Asking, Asked
<1>5. CASE Gone(c)
  <2>1. \A b : Len(<<Data(b)>>) = 1 /\ Len(<<Data(b), Line(hold[c])>>) = 2
    BY Lengths
  <2>2. \A a, b : <<Data(a)>> # <<Data(b), Line(hold[c])>>
    BY <2>1
  <2>3. QED
    BY <1>5, <2>2 DEF Gone, Sent, Asked
<1>6. QED
  BY <1>2, <1>3, <1>4, <1>5

LEMMA ReadDataKeeps ==
  ASSUME IInv, NEW c \in Clients, c = client_sock, ReadData
  PROVE  IInv'
<1> USE DEF ReadData, Incoming
<1> DEFINE m == Head(up[c])
           p == place[SERVER]
<1>1. /\ Session(c) /\ TypeOK /\ ServerOK /\ up[c] \in Seq(UpMsg) /\ p \in Places
      /\ GARBLED \in Contents /\ srv' \in {"line", "astray"}
  BY ServedClient, TypesOfClient DEF Contents
\* What every case stores.
<1>2. ASSUME NEW b \in Contents, place' = [place EXCEPT ![SERVER] = Store(p, b)],
             b = GARBLED => cut' \/ skipped' # {}
      PROVE  /\ place' \in [Clients \cup {SERVER} -> Places]
             /\ \A d \in Clients : place'[d] = place[d]
             /\ \A dir \in {"top", "d"} :
                  place'[SERVER].f[dir] = GARBLED => p.f[dir] = GARBLED \/ cut' \/ skipped' # {}
  <2>1. Store(p, b) \in Places
    BY <1>1, PlacesKept
  <2>2. place' \in [Clients \cup {SERVER} -> Places] /\ \A d \in Clients : place'[d] = place[d]
    BY <1>1, <1>2, <2>1, NamesAssumption DEF TypeOK
  <2>3. place'[SERVER] = Store(p, b)
    BY <1>1, <1>2 DEF TypeOK
  <2>4. QED
    BY <1>1, <1>2, <2>2, <2>3, NothingGarbled
<1>3. srv' # "dead" /\ ServerSurvives'
  BY <1>1 DEF ServerSurvives
<1>4. CASE /\ up[c] # <<>> /\ Whole(m) /\ Read /\ srv' = "line"
           /\ place' = [place EXCEPT ![SERVER] = Store(p, m.bytes)] /\ UNCHANGED <<conn, cut>>
  <2>1. PICK b \in Contents : \/ AtPrompt(c) /\ up[c] = <<Data(b)>>
                              \/ Asking(c) /\ up[c] = <<Data(b), Line(hold[c])>>
                              \/ /\ Gone(c) /\ up[c] = <<Data(b)>>
                                 /\ cut \/ Muted(c) \/ conn[c] = "fin"
                              \/ /\ Gone(c) /\ up[c] = <<Data(b), Line(hold[c])>>
                                 /\ cut \/ Muted(c)
    BY <1>4, ReadsAFile
  <2>2. m = Data(b) /\ m.bytes = b /\ b # GARBLED
    BY <1>4, <2>1, Heads, KindsOfRecords DEF Whole
  <2>3. /\ place' \in [Clients \cup {SERVER} -> Places]
        /\ \A d \in Clients : place'[d] = place[d]
        /\ \A dir \in {"top", "d"} :
             place'[SERVER].f[dir] = GARBLED => p.f[dir] = GARBLED \/ cut' \/ skipped' # {}
    BY <1>2, <1>4, <2>2
  <2>4. /\ up' \in [Clients -> Seq(UpMsg)] /\ up'[c] = Tail(up[c])
        /\ \A d \in Clients \ {c} : up'[d] = up[d]
    BY <1>1, <1>4 DEF TypeOK, Read
  <2>5. TypeOK'
    BY <1>1, <1>4, <2>3, <2>4 DEF TypeOK, clientVars
  <2>6. OthersOfServer(c) /\ ServerOK'
    BY <1>1, <1>4, <2>3, <2>4, NamesAssumption DEF OthersOfServer, ServerOK
  <2>7. Stream(c)' = Stream(c) /\ pc'[c] = pc[c] /\ hold'[c] = hold[c] /\ (Muted(c)' <=> Muted(c))
    BY <1>4 DEF Stream, Muted, clientVars
  <2>8. Serving(c)'
    <3>1. CASE AtPrompt(c) /\ up[c] = <<Data(b)>>
      <4>1. up'[c] = <<>>
        BY <2>4, <3>1, Heads
      <4>2. QED
        BY <1>4, <2>7, <3>1, <4>1 DEF AtPrompt, Sent, Serving
    <3>2. CASE Asking(c) /\ up[c] = <<Data(b), Line(hold[c])>>
      <4>1. up'[c] = <<Line(hold[c])>>
        BY <2>4, <3>2, Heads
      <4>2. QED
        BY <1>4, <2>7, <3>2, <4>1 DEF Asking, Asked, Serving
    <3>3. CASE Gone(c) /\ up[c] = <<Data(b)>> /\ (cut \/ Muted(c) \/ conn[c] = "fin")
      <4>1. up'[c] = <<>>
        BY <2>4, <3>3, Heads
      <4>2. QED
        BY <1>4, <2>7, <3>3, <4>1 DEF Gone, Sent, Serving
    <3>4. CASE Gone(c) /\ up[c] = <<Data(b), Line(hold[c])>> /\ (cut \/ Muted(c))
      <4>1. up'[c] = <<Line(hold[c])>>
        BY <2>4, <3>4, Heads
      <4>2. QED
        BY <1>4, <2>7, <3>4, <4>1 DEF Gone, Asked, Serving
    <3>5. QED
      BY <2>1, <3>1, <3>2, <3>3, <3>4
  <2>9. Session(c)'
    BY <1>1, <1>4, <2>3, <2>8, StillServed
  <2>10. QED
    BY <1>1, <1>3, <2>3, <2>5, <2>6, <2>9, ServerStep
<1>5. CASE /\ up[c] # <<>> /\ srv' = "astray" /\ cut' = TRUE
           /\ place' = [place EXCEPT ![SERVER] = Store(p, GARBLED)] /\ UNCHANGED <<up, conn>>
  <2>1. /\ place' \in [Clients \cup {SERVER} -> Places]
        /\ \A d \in Clients : place'[d] = place[d]
        /\ \A dir \in {"top", "d"} :
             place'[SERVER].f[dir] = GARBLED => p.f[dir] = GARBLED \/ cut' \/ skipped' # {}
    BY <1>1, <1>2, <1>5
  <2>2. TypeOK'
    BY <1>1, <1>5, <2>1 DEF TypeOK, clientVars
  <2>3. OthersOfServer(c) /\ ServerOK'
    BY <1>1, <1>5, <2>1, NamesAssumption DEF OthersOfServer, ServerOK
  <2>4. Stream(c)' = Stream(c) /\ pc'[c] = pc[c]
    BY <1>5 DEF Stream, clientVars
  <2>5. AtPrompt(c) \/ Asking(c) \/ Gone(c)
    BY <1>5, ReadsAFile
  <2>6. Serving(c)'
    <3>1. AtPrompt(c) \/ Asking(c) => Lost(c)'
      BY <1>5, <2>4 DEF AtPrompt, Asking, Lost
    <3>2. Gone(c) => Gone(c)'
      BY <1>5, <2>4 DEF Gone
    <3>3. QED
      BY <2>5, <3>1, <3>2 DEF Serving
  <2>7. Session(c)'
    BY <1>1, <1>5, <2>1, <2>6, StillServed
  <2>8. QED
    BY <1>1, <1>3, <2>1, <2>2, <2>3, <2>7, ServerStep
<1>6. CASE /\ NoMore /\ Failed /\ srv' = "line"
           /\ place' = [place EXCEPT ![SERVER] = Store(p, GARBLED)] /\ UNCHANGED <<up, cut>>
  <2>1. Gone(c) /\ pc[c] = "gone" /\ up[c] = <<>>
    BY <1>6, ServedClient DEF NoMore
  <2>2. cut \/ Muted(c)
    BY <2>1, Lengths DEF Gone, Sent
  <2>3. /\ place' \in [Clients \cup {SERVER} -> Places]
        /\ \A d \in Clients : place'[d] = place[d]
        /\ \A dir \in {"top", "d"} :
             place'[SERVER].f[dir] = GARBLED => p.f[dir] = GARBLED \/ cut' \/ skipped' # {}
    BY <1>1, <1>2, <1>6, <2>2 DEF Muted
  <2>4. conn' = [conn EXCEPT ![c] = IF conn[c] = "reset" THEN "broken" ELSE conn[c]]
    BY <1>6 DEF Failed
  <2>5. /\ conn' \in [Clients -> {"none", "open", "fin", "reset", "broken"}]
        /\ \A d \in Clients \ {c} : conn'[d] = conn[d]
        /\ conn'[c] \in {conn[c], "broken"}
    BY <1>1, <2>4 DEF TypeOK
  <2>6. TypeOK'
    BY <1>1, <1>6, <2>3, <2>5 DEF TypeOK, clientVars
  <2>7. OthersOfServer(c) /\ ServerOK'
    BY <1>1, <1>6, <2>3, <2>5, NamesAssumption DEF OthersOfServer, ServerOK
  <2>8. Gone(c)'
    BY <1>6, <2>1, <2>2 DEF Gone, Sent, Muted, clientVars
  <2>9. Session(c)'
    BY <1>1, <1>6, <2>1, <2>3, <2>5, <2>8, StillServed DEF Serving
  <2>10. QED
    BY <1>1, <1>3, <2>3, <2>6, <2>7, <2>9, ServerStep
<1>7. QED
  BY <1>4, <1>5, <1>6

-----------------------------------------------------------------------------
(* The theorems.                                                           *)

LEMMA InitHolds ==
  Init => IInv
<1> SUFFICES ASSUME Init PROVE IInv
  OBVIOUS
<1> USE DEF Init
<1>1. TypeOK
  <2>1. place \in [Clients \cup {SERVER} -> Places]
    BY DEF Places, Contents
  <2>2. /\ pc \in [Clients -> {"away"}] /\ hold \in [Clients -> {NONE}]
        /\ conn \in [Clients -> {"none"}]
        /\ up \in [Clients -> Seq(UpMsg)] /\ down \in [Clients -> Seq(DownMsg)]
    OBVIOUS
  <2>3. backlog \in Seq(Clients) /\ todo \in Seq(DownMsg) /\ client_sock = NONE
        /\ srv = "accept" /\ skipped = {} /\ cut = FALSE
    OBVIOUS
  <2>4. QED
    BY <2>1, <2>2, <2>3 DEF TypeOK
<1>2. ServerOK /\ ServerSurvives
  BY DEF ServerOK, ServerSurvives
<1>3. FilesWhole
  BY ContentsAssumption DEF FilesWhole
<1>4. Sessions
  BY NamesAssumption DEF Sessions, Session, Queued
<1>5. QED
  BY <1>1, <1>2, <1>3, <1>4 DEF IInv

LEMMA StutterKeeps ==
  ASSUME IInv, UNCHANGED vars
  PROVE  IInv'
<1> USE DEF vars, clientVars, serverVars, netVars, history
<1>1. TypeOK' /\ ServerOK' /\ FilesWhole' /\ ServerSurvives'
  BY DEF IInv, TypeOK, ServerOK, FilesWhole, ServerSurvives
<1>2. ASSUME NEW c \in Clients PROVE Session(c)'
  BY BystanderOfClient DEF IInv, Sessions, Queued, Muted
<1>3. QED
  BY <1>1, <1>2 DEF IInv, Sessions

LEMMA NextKeeps ==
  IInv /\ [Next]_vars => IInv'
<1> SUFFICES ASSUME IInv, [Next]_vars PROVE IInv'
  OBVIOUS
<1>1. CASE Serve
  <2>1. CASE Accept
    BY <2>1, AcceptKeeps
  <2>2. CASE ReadLine \/ ReadEnd \/ ReadError \/ Write \/ PutHead \/ ReadData \/ Astray
    <3>1. srv # "accept"
      BY <2>2 DEF ReadLine, ReadEnd, ReadError, Write, PutHead, ReadData, Astray
    <3>2. PICK c \in Clients : c = client_sock
      BY <3>1, ServedClient
    <3>3. QED
      BY <2>2, <3>2, ReadLineKeeps, ReadEndKeeps, ReadErrorKeeps, WriteKeeps, PutHeadKeeps,
         ReadDataKeeps, AstrayKeeps
  <2>3. QED
    BY <1>1, <2>1, <2>2 DEF Serve
<1>2. ASSUME NEW c \in Clients, Work(c) PROVE IInv'
  BY <1>2, ReceiveKeeps, PutDataKeeps, GetHeadKeeps, GetDataKeeps DEF Work
<1>3. ASSUME NEW c \in Clients, User(c) PROVE IInv'
  BY <1>3, ConnectKeeps, TypeKeeps, LeaveKeeps DEF User
<1>4. CASE UNCHANGED vars
  BY <1>4, StutterKeeps
<1>5. QED
  BY <1>1, <1>2, <1>3, <1>4 DEF Next

\* Whatever is read next is of the kind that its reader takes it for.
LEMMA IInvInStep ==
  IInv => InStep
<1> SUFFICES ASSUME IInv PROVE InStep
  OBVIOUS
<1>1. ASSUME NEW c \in Clients, down[c] # <<>>
      PROVE  \/ pc[c] = "answer"  /\ Head(down[c]).kind \in {"text", "end", "echo"}
             \/ pc[c] = "gethead" /\ Head(down[c]).kind \in {"head", "end"}
             \/ pc[c] = "getdata" /\ Head(down[c]).kind = "data"
             \/ pc[c] = "astray"
  <2>1. Serving(c) /\ Stream(c) # <<>> /\ Head(down[c]) = Head(Stream(c))
    BY <1>1, TakeKeepsStream
  <2>2. Answering(c) \/ Heading(c) \/ Getting(c)
    <3>1. ~Gone(c)
      BY <1>1 DEF IInv, Sessions, Session, Gone
    <3>2. QED
      BY <2>1, <3>1 DEF Serving, AtPrompt, Asking, Stuck, Putting, Lost
  <2>3. CASE Answering(c)
    <3>1. Stream(c) \in Rest(Muted(c)) \/ Stream(c) = <<Echo("put")>>
      BY <2>3 DEF Answering
    <3>2. Head(Stream(c)) \in {Text, End} \/ \E w : Head(Stream(c)) = Echo(w)
      BY <3>1, Heads DEF Rest
    <3>3. QED
      BY <2>1, <2>3, <3>2, KindsOfRecords DEF Answering
  <2>4. CASE Heading(c)
    <3>1. Head(Stream(c)) \in {FileHead, End}
      BY <2>4, Heads DEF Heading
    <3>2. QED
      BY <2>1, <2>4, <3>1, KindsOfRecords DEF Heading
  <2>5. CASE Getting(c)
    <3>1. \E b : Head(Stream(c)) = Data(b)
      BY <2>5, Heads DEF Getting
    <3>2. QED
      BY <2>1, <2>5, <3>1, KindsOfRecords DEF Getting
  <2>6. QED
    BY <2>2, <2>3, <2>4, <2>5
<1>2. ASSUME client_sock # NONE, client_sock \notin skipped, Incoming # <<>>
      PROVE  /\ srv = "line"    => Head(Incoming).kind = "line"
             /\ srv = "puthead" => Head(Incoming).kind \in {"head", "end"}
             /\ srv = "putdata" => Head(Incoming).kind = "data"
  <2>1. PICK c \in Clients : c = client_sock
    BY <1>2 DEF IInv, TypeOK
  <2>2. Incoming = up[c] /\ up[c] # <<>> /\ ~Muted(c)
    BY <1>2, <2>1 DEF Incoming, Muted
  <2>3. CASE srv = "line"
    BY <2>1, <2>2, <2>3, ReadsALine, Heads, KindsOfRecords
  <2>4. CASE srv = "puthead"
    <3>1. Head(up[c]) \in {End, FileHead}
      BY <2>1, <2>2, <2>4, ReadsAHead, Heads
    <3>2. QED
      BY <2>2, <2>4, <3>1, KindsOfRecords
  <2>5. CASE srv = "putdata"
    <3>1. \E b : Head(up[c]) = Data(b)
      BY <2>1, <2>2, <2>5, ReadsAFile, Heads
    <3>2. QED
      BY <2>2, <2>5, <3>1, KindsOfRecords
  <2>6. QED
    BY <2>3, <2>4, <2>5
<1>3. QED
  BY <1>1, <1>2 DEF InStep

\* The inductive invariant holds in every state.
LEMMA Inductive ==
  Spec => []IInv
BY InitHolds, NextKeeps, PTL DEF Spec

\* Every variable keeps its type (the arrays and streams of client.c and server.c).
THEOREM TypeInvariant ==
  Spec => []TypeOK
<1>1. IInv => TypeOK
  BY DEF IInv
<1>2. QED
  BY <1>1, Inductive, PTL

\* For any number of clients, lines and files: no read() of client.c or
\* server.c gets a record of another kind than it takes it for, unless one
\* side has sent nothing where the other waits.
THEOREM StepInvariant ==
  Spec => []InStep
<1>1. QED
  BY IInvInStep, Inductive, PTL

\* "client died, server loops" (server.c:383): what kills the server is a
\* blank line, a muted command or a client that left in the middle of one.
THEOREM SurvivalInvariant ==
  Spec => []ServerSurvives
<1>1. IInv => ServerSurvives
  BY DEF IInv
<1>2. QED
  BY <1>1, Inductive, PTL

\* get() and put() leave whole files, with the same exceptions and that of a
\* read that returned with less.
THEOREM WholeFilesInvariant ==
  Spec => []FilesWhole
<1>1. IInv => FilesWhole
  BY DEF IInv
<1>2. QED
  BY <1>1, Inductive, PTL
=============================================================================
