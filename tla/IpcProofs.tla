------------------------------ MODULE IpcProofs -----------------------------
(***************************************************************************)
(* AnswersMatch for any number of clients, requests, events, starts and    *)
(* failures, and any capacities.  The ids do not carry the proof: that the *)
(* one line in the pipe to a client that does not subscribe is its answer  *)
(* depends on where its request is, in the pipe, half taken off it, in     *)
(* dispatch or answered.  IpcInv says so with the whole state of such a    *)
(* connection, disjunct by disjunct in the order a request passes them.    *)
(* The types and bounds of all connections, subscribers included, follow.  *)
(***************************************************************************)
EXTENDS Ipc, Integers, SequenceTheorems, WellFoundedInduction, TLAPS

MyText(c) == Text("call", client[c].id)
MyAnswer(c) == Answer(client[c].id)

Selecting(c, line) ==
    /\ task[c] \in Task /\ task[c].at = "select"
    /\ task[c].line = line /\ task[c].rx = 0
Handling(c) ==
    /\ task[c] \in Task /\ task[c].at \in {"dispatch", "write"}
    /\ task[c].line = <<>> /\ task[c].rx = 0 /\ task[c].out = MyAnswer(c)

Gone(c) == InReach(c, "off") /\ down[c] = <<>>

(* The server has died, the client has not noticed yet.                    *)
Cut(c) ==
    /\ ~InReach(c, "off") /\ ~Serving(c)
    /\ \/ down[c] = <<>>
       \/ InReach(c, "waiting") /\ down[c] = <<MyAnswer(c)>>

Resting(c) ==
    /\ InReach(c, "idle") /\ up[c] = <<>> /\ down[c] = <<>>
    /\ Selecting(c, <<>>)

HalfWritten(c) ==
    /\ InReach(c, "half") /\ down[c] = <<>>
    /\ \/ up[c] = <<MyText(c)>> /\ Selecting(c, <<>>)
       \/ up[c] = <<>> /\ Selecting(c, <<MyText(c)>>)

Written(c) ==
    /\ InReach(c, "waiting") /\ down[c] = <<>>
    /\ \/ up[c] = <<MyText(c), Newline>> /\ Selecting(c, <<>>)
       \/ up[c] = <<Newline>> /\ Selecting(c, <<MyText(c)>>)

InHand(c) ==
    /\ InReach(c, "waiting") /\ up[c] = <<>> /\ down[c] = <<>>
    /\ Handling(c)

Answered(c) ==
    /\ InReach(c, "waiting") /\ up[c] = <<>> /\ down[c] = <<MyAnswer(c)>>
    /\ Selecting(c, <<>>)

Exchange(c) ==
    /\ client[c] \in Client
    /\ \/ Gone(c) \/ Cut(c) \/ Resting(c) \/ HalfWritten(c)
       \/ Written(c) \/ InHand(c) \/ Answered(c)

Domains ==
    /\ DOMAIN task = Clients /\ DOMAIN up = Clients
    /\ DOMAIN down = Clients /\ DOMAIN client = Clients

IpcInv == Domains /\ \A c \in Clients \ Subscribers : Exchange(c)

-----------------------------------------------------------------------------
(* The sequences an exchange is made of.                                   *)
LEMMA PairOf ==
    ASSUME NEW S, NEW s \in Seq(S), Len(s) = 2
    PROVE  s = <<s[1], s[2]>>
<1>1. s[1] \in S /\ s[2] \in S
  BY ElementOfSeq
<1>2. <<s[1], s[2]>> \in Seq(S) /\ Len(<<s[1], s[2]>>) = 2
  BY <1>1
<1>3. \A i \in 1..Len(s) : s[i] = <<s[1], s[2]>>[i]
  OBVIOUS
<1>. QED
  BY <1>2, <1>3, SeqEqual

(* A second element after a first.                                         *)
LEMMA TwoAppended ==
    ASSUME NEW x, NEW y
    PROVE  Append(<<x>>, y) = <<x, y>>
<1>1. /\ Append(<<x>>, y) \in Seq({x, y}) /\ Len(Append(<<x>>, y)) = 2
      /\ Append(<<x>>, y)[1] = x /\ Append(<<x>>, y)[2] = y
  OBVIOUS
<1>. QED
  BY <1>1, PairOf

(* What the pipe holds before the newline of a request.                    *)
LEMMA FirstOfTwo ==
    ASSUME NEW x, NEW y
    PROVE  SubSeq(<<x, y>>, 1, 1) = <<x>>
<1>. DEFINE first == SubSeq(<<x, y>>, 1, 1)
<1>1. <<x, y>> \in Seq({x, y}) /\ <<x>> \in Seq({x, y}) /\ Len(<<x>>) = 1
  OBVIOUS
<1>2. first \in Seq({x, y}) /\ Len(first) = 1 /\ first[1] = x
  BY <1>1
<1>3. \A i \in 1..Len(first) : first[i] = <<x>>[i]
  BY <1>2
<1>. QED
  BY <1>1, <1>2, <1>3, SeqEqual

(* The sequences of none, one and two elements that occur.                 *)
LEMMA ShortSequences ==
    ASSUME NEW x, NEW y
    PROVE  /\ Append(<<>>, x) = <<x>>
           /\ <<>> \o <<x>> = <<x>> /\ <<>> \o <<x, y>> = <<x, y>>
           /\ <<x>> \o <<>> = <<x>>
           /\ Tail(<<x>>) = <<>>
           /\ Len(<<x>>) = 1
           /\ SubSeq(<<x>>, 1, 0) = <<>>
           /\ SubSeq(<<x, y>>, 3, 2) = <<>> /\ SubSeq(<<x>>, 2, 1) = <<>>
           /\ <<x>> # <<>> /\ <<x, y>> # <<>>
  OBVIOUS

(* A text alone has no newline in it; a newline ends the line it is in.    *)
LEMMA Lines ==
    ASSUME NEW id, NEW c
    PROVE  /\ up[c] = <<Text("call", id)>> => ~HasLine(c)
           /\ up[c] = <<Text("call", id), Newline>> =>
                HasLine(c) /\ LineEnd(up[c]) = 2
           /\ up[c] = <<Newline>> => HasLine(c) /\ LineEnd(up[c]) = 1
           /\ up[c] = <<>> => ~HasLine(c)
<1>. DEFINE T == Text("call", id)
<1>1. T # Newline
  BY DEF Text, Newline
<1>. HIDE DEF T
<1>2. ASSUME up[c] = <<T>> PROVE ~HasLine(c)
  BY <1>1, <1>2 DEF HasLine
<1>3. ASSUME up[c] = <<T, Newline>> PROVE HasLine(c) /\ LineEnd(up[c]) = 2
  <2>1. DOMAIN <<T, Newline>> = 1..2
    OBVIOUS
  <2>2. <<T, Newline>>[1] = T /\ <<T, Newline>>[2] = Newline
    OBVIOUS
  <2>3. \A i \in 1..2 : <<T, Newline>>[i] = Newline /\
             (\A j \in 1..(i - 1) : <<T, Newline>>[j] # Newline) <=> i = 2
    BY <1>1, <2>2
  <2>. QED
    BY <1>3, <2>1, <2>2, <2>3 DEF HasLine, LineEnd
<1>4. ASSUME up[c] = <<Newline>> PROVE HasLine(c) /\ LineEnd(up[c]) = 1
  <2>1. DOMAIN <<Newline>> = 1..1 /\ <<Newline>>[1] = Newline
    OBVIOUS
  <2>. QED
    BY <1>4, <2>1 DEF HasLine, LineEnd
<1>5. ASSUME up[c] = <<>> PROVE ~HasLine(c)
  BY <1>5 DEF HasLine
<1>. QED
  BY <1>2, <1>3, <1>4, <1>5 DEF T

(* The messages of an exchange.                                            *)
LEMMA Messages ==
    ASSUME NEW id \in Nat
    PROVE  /\ Answer(id) \in Message /\ Nothing \in Message
           /\ Text("call", id) \in Request
           /\ <<Text("call", id)>> \in Seq(Request)
           /\ <<>> \in Seq(Request)
  BY EmptySeq DEF Answer, Nothing, Message, Text, Request, Ask

(* A new task selects, with nothing read and no subscription.              *)
LEMMA NewTaskSelects ==
    /\ NewTask \in Task /\ NewTask.at = "select"
    /\ NewTask.line = <<>> /\ NewTask.rx = 0
<1>1. Nothing \in Message /\ <<>> \in Seq(Request)
  BY Messages
<1>2. NoTask \in Task
  BY <1>1 DEF NoTask, Task
<1>. QED
  BY <1>2 DEF NewTask, NoTask, Task

(* What handle_connection makes of a complete call.                        *)
LEMMA CallIsHandled ==
    ASSUME NEW id \in Nat, NEW r \in Task, r.at = "select", r.rx = 0,
           NEW line, line = <<Text("call", id)>>
    PROVE  LET h == Handled([r EXCEPT !.line = line]) IN
           /\ h \in Task /\ h.at = "dispatch" /\ h.line = <<>>
           /\ h.rx = 0 /\ h.out = Answer(id)
<1>. DEFINE t == [r EXCEPT !.line = line]
            rest == [t EXCEPT !.line = <<>>]
<1>1. Parses(line) /\ line[1].ask = "call" /\ line[1].id = id
  BY DEF Parses, Text
<1>2. line \in Seq(Request) /\ Answer(id) \in Message
  BY Messages
<1>3. t \in Task /\ t.line = line /\ t.rx = 0
  BY <1>2 DEF Task
<1>. HIDE DEF t
<1>4. rest \in Task /\ rest.line = <<>> /\ rest.rx = 0
  BY <1>3, Messages DEF Task
<1>5. Cleared(t) = rest
  BY DEF Cleared
<1>. HIDE DEF rest
<1>6. Handled(t) = [rest EXCEPT !.at = "dispatch", !.out = Answer(id)]
  BY <1>1, <1>3, <1>5 DEF Handled
<1>. QED
  BY <1>2, <1>4, <1>6 DEF Task, t

-----------------------------------------------------------------------------
(* What an action does to connections that are not its own: nothing.       *)
Same(c) ==
    /\ task'[c] = task[c] /\ up'[c] = up[c]
    /\ down'[c] = down[c] /\ client'[c] = client[c]

(* A connection whose state does not change stays at its place.            *)
LEMMA SameKeepsExchange ==
    ASSUME NEW c, Exchange(c), Same(c)
    PROVE  Exchange(c)'
  BY DEF Same, Exchange, Gone, Cut, Resting, HalfWritten, Written, InHand,
         Answered, Selecting, Handling, MyText, MyAnswer, InReach, Serving

ConnectionStep(c) ==
    ServerStep(c) \/ ClientStep(c) \/ Connect(c) \/ WriteText(c) \/ Leave(c)

(* A step of one connection leaves the others alone.                       *)
LEMMA StepIsLocal ==
    ASSUME Domains, NEW d \in Clients, ConnectionStep(d)
    PROVE  Domains' /\ \A c \in Clients : c # d => Same(c)
<1>. USE DEF Domains, Same
<1>1. CASE TakeText(d)
  BY <1>1 DEF TakeText
<1>2. CASE TakeLine(d)
  BY <1>2 DEF TakeLine
<1>3. CASE Dispatched(d)
  BY <1>3 DEF Dispatched
<1>4. CASE EventWins(d)
  BY <1>4 DEF EventWins
<1>5. CASE WriteLine(d)
  BY <1>5 DEF WriteLine
<1>6. CASE EndOfPipe(d)
  BY <1>6 DEF EndOfPipe
<1>7. CASE WriteNewline(d)
  BY <1>7 DEF WriteNewline
<1>8. CASE ReadLine(d)
  BY <1>8 DEF ReadLine
<1>9. CASE NoticeLoss(d) \/ Leave(d)
  BY <1>9 DEF NoticeLoss, Leave, HangUp
<1>10. CASE Connect(d)
  BY <1>10 DEF Connect
<1>11. CASE WriteText(d)
  BY <1>11 DEF WriteText
<1>. QED
  BY <1>1, <1>2, <1>3, <1>4, <1>5, <1>6, <1>7, <1>8, <1>9, <1>10, <1>11
  DEF ConnectionStep, ServerStep, ClientStep

(* The server's steps on an exchange.                                      *)
LEMMA ServerKeepsExchange ==
    ASSUME Domains, NEW c \in Clients, Exchange(c), ServerStep(c)
    PROVE  Exchange(c)'
<1>. DEFINE id == client[c].id
<1>. USE DEF Domains
<1>0. id \in Nat /\ client[c] \in Client
  BY DEF Exchange, Client
<1>1. client' = client
  BY DEF ServerStep, TakeText, TakeLine, Dispatched, EventWins, WriteLine,
         EndOfPipe
<1>2. CASE InReach(c, "off")
  <2>1. down' = down
    BY <1>2 DEF ServerStep, TakeText, TakeLine, Dispatched, EventWins,
                WriteLine, EndOfPipe
  <2>2. Gone(c)
    BY <1>2 DEF Exchange, Gone, Cut, Resting, HalfWritten, Written, InHand,
                Answered, InReach
  <2>. QED
    BY <1>0, <1>1, <2>1, <2>2 DEF Exchange, Gone, InReach
<1>3. CASE ~InReach(c, "off")
  <2>1. ~Cut(c) /\ ~Gone(c)
    BY <1>3 DEF Cut, Gone, Serving, ServerStep, TakeText, TakeLine, Dispatched,
                EventWins, WriteLine, EndOfPipe, At
  <2>2. CASE TakeText(c)
    <3>1. HalfWritten(c) /\ up[c] = <<MyText(c)>>
      BY <2>1, <2>2, Lines DEF Exchange, TakeText, Resting, HalfWritten,
         Written, InHand, Answered, Handling, At, MyText
    <3>2. Selecting(c, <<>>) /\ InReach(c, "half") /\ down[c] = <<>>
      BY <3>1, ShortSequences DEF HalfWritten
    <3>3. up'[c] = <<>> /\ down' = down
      BY <2>2 DEF TakeText
    <3>4. task'[c] = [task[c] EXCEPT !.line = <<MyText(c)>>]
      BY <2>2, <3>1, <3>2, ShortSequences DEF TakeText, Selecting
    <3>5. <<MyText(c)>> \in Seq(Request)
      BY <1>0, Messages DEF MyText
    <3>6. Selecting(c, <<MyText(c)>>)'
      BY <1>1, <3>2, <3>4, <3>5 DEF Selecting, Task, MyText
    <3>. QED
      BY <1>0, <1>1, <3>2, <3>3, <3>6 DEF Exchange, HalfWritten, InReach, MyText
  <2>3. CASE TakeLine(c)
    <3>1. Written(c)
      BY <2>1, <2>3, Lines DEF Exchange, TakeLine, Resting, HalfWritten,
         InHand, Answered, Handling, At, MyText
    <3>2. PICK r \in Task :
            /\ r = task[c] /\ r.at = "select" /\ r.rx = 0
            /\ task'[c] = Handled([r EXCEPT !.line = <<MyText(c)>>])
            /\ up'[c] = <<>>
      <4>1. CASE up[c] = <<MyText(c), Newline>> /\ Selecting(c, <<>>)
        <5>1. LineEnd(up[c]) = 2
          BY <4>1, Lines DEF MyText
        <5>2. /\ SubSeq(up[c], 1, LineEnd(up[c]) - 1) = <<MyText(c)>>
              /\ SubSeq(up[c], LineEnd(up[c]) + 1, Len(up[c])) = <<>>
          BY <4>1, <5>1, FirstOfTwo, ShortSequences
        <5>3. task[c].line \o SubSeq(up[c], 1, LineEnd(up[c]) - 1)
                = <<MyText(c)>>
          BY <4>1, <5>2, ShortSequences DEF Selecting
        <5>. QED
          BY <2>3, <4>1, <5>2, <5>3 DEF TakeLine, Selecting
      <4>2. CASE up[c] = <<Newline>> /\ Selecting(c, <<MyText(c)>>)
        <5>1. LineEnd(up[c]) = 1
          BY <4>2, Lines DEF MyText
        <5>2. /\ SubSeq(up[c], 1, LineEnd(up[c]) - 1) = <<>>
              /\ SubSeq(up[c], LineEnd(up[c]) + 1, Len(up[c])) = <<>>
          BY <4>2, <5>1, ShortSequences
        <5>3. task[c].line \o SubSeq(up[c], 1, LineEnd(up[c]) - 1)
                = <<MyText(c)>>
          BY <4>2, <5>2, ShortSequences DEF Selecting
        <5>. QED
          BY <2>3, <4>2, <5>2, <5>3 DEF TakeLine, Selecting
      <4>. QED
        BY <3>1, <4>1, <4>2 DEF Written
    <3>3. /\ task'[c] \in Task /\ task'[c].at = "dispatch"
          /\ task'[c].line = <<>> /\ task'[c].rx = 0
          /\ task'[c].out = MyAnswer(c)
      <4>. DEFINE line == <<MyText(c)>>
      <4>1. line = <<Text("call", id)>>
        BY DEF MyText
      <4>. HIDE DEF line
      <4>2. LET h == Handled([r EXCEPT !.line = line]) IN
            /\ h \in Task /\ h.at = "dispatch" /\ h.line = <<>>
            /\ h.rx = 0 /\ h.out = Answer(id)
        BY <1>0, <3>2, <4>1, CallIsHandled
      <4>. QED
        BY <3>2, <4>2 DEF line, MyAnswer
    <3>. QED
      BY <1>0, <1>1, <2>3, <3>1, <3>2, <3>3
      DEF Exchange, Written, InHand, Handling, MyAnswer, InReach, TakeLine
  <2>4. CASE Dispatched(c)
    <3>1. InHand(c)
      BY <2>1, <2>4 DEF Exchange, Dispatched, Resting, HalfWritten, Written,
         Answered, Selecting, At
    <3>2. task'[c] = [task[c] EXCEPT !.at = "write"] /\ up' = up /\ down' = down
      BY <2>4 DEF Dispatched
    <3>3. Handling(c)'
      BY <1>1, <3>1, <3>2 DEF InHand, Handling, Task, MyAnswer
    <3>. QED
      BY <1>0, <1>1, <3>1, <3>2, <3>3 DEF Exchange, InHand, InReach
  <2>5. CASE EventWins(c)
    BY <2>1, <2>5 DEF Exchange, EventWins, Resting, HalfWritten, Written,
       InHand, Answered, Selecting, Handling, At
  <2>6. CASE WriteLine(c)
    <3>1. InHand(c)
      BY <2>1, <2>6 DEF Exchange, WriteLine, Resting, HalfWritten, Written,
         Answered, Selecting, At
    <3>2. /\ task'[c] = [task[c] EXCEPT !.at = "select", !.out = Nothing]
          /\ down'[c] = Append(down[c], MyAnswer(c)) /\ up' = up
      BY <1>3, <2>6, <3>1 DEF WriteLine, InHand, Handling
    <3>3. down'[c] = <<MyAnswer(c)>>
      BY <3>1, <3>2, ShortSequences DEF InHand
    <3>4. Selecting(c, <<>>)'
      BY <1>0, <3>1, <3>2, Messages DEF InHand, Handling, Selecting, Task
    <3>. QED
      BY <1>0, <1>1, <3>1, <3>2, <3>3, <3>4
      DEF Exchange, InHand, Answered, InReach, MyAnswer
  <2>7. CASE EndOfPipe(c)
    BY <1>3, <2>7 DEF EndOfPipe
  <2>. QED
    BY <2>2, <2>3, <2>4, <2>5, <2>6, <2>7 DEF ServerStep
<1>. QED
  BY <1>2, <1>3

(* The steps of the client's end.                                          *)
LEMMA ClientKeepsExchange ==
    ASSUME Domains, NEW c \in Clients \ Subscribers, Exchange(c),
           ClientStep(c) \/ Connect(c) \/ WriteText(c) \/ Leave(c)
    PROVE  Exchange(c)'
<1>. DEFINE id == client[c].id
<1>. USE DEF Domains
<1>0. id \in Nat /\ client[c] \in Client
  BY DEF Exchange, Client
<1>1. CASE WriteNewline(c)
  <2>1. HalfWritten(c)
    BY <1>1 DEF WriteNewline, Exchange, Gone, Cut, Resting, Written, InHand,
                Answered, InReach
  <2>2. /\ up'[c] = Append(up[c], Newline) /\ task' = task /\ down' = down
        /\ client'[c] = [client[c] EXCEPT !.at = "waiting"]
    BY <1>1 DEF WriteNewline
  <2>3. client'[c] \in Client /\ client'[c].at = "waiting" /\ client'[c].id = id
    BY <1>0, <2>2 DEF Client
  <2>4. Selecting(c, <<>>) => Selecting(c, <<>>)'
    BY <2>2 DEF Selecting
  <2>5. Selecting(c, <<MyText(c)>>) => Selecting(c, <<MyText(c)>>)'
    BY <2>2, <2>3 DEF Selecting, MyText
  <2>6. MyText(c)' = MyText(c)
    BY <2>3 DEF MyText
  <2>7. CASE up[c] = <<MyText(c)>> /\ Selecting(c, <<>>)
    <3>1. up'[c] = <<MyText(c), Newline>>
      BY <2>2, <2>7, TwoAppended
    <3>. QED
      BY <2>1, <2>2, <2>3, <2>4, <2>6, <2>7, <3>1
      DEF HalfWritten, Written, InReach, Exchange
  <2>8. CASE up[c] = <<>> /\ Selecting(c, <<MyText(c)>>)
    <3>1. up'[c] = <<Newline>>
      BY <2>2, <2>8, ShortSequences
    <3>. QED
      BY <2>1, <2>2, <2>3, <2>5, <2>6, <2>8, <3>1
      DEF HalfWritten, Written, InReach, Exchange
  <2>. QED
    BY <2>1, <2>7, <2>8 DEF HalfWritten
<1>2. CASE ReadLine(c)
  <2>1. InReach(c, "waiting") /\ down[c] # <<>>
    BY <1>2 DEF ReadLine
  <2>2. down[c] = <<MyAnswer(c)>> /\ (Cut(c) \/ Answered(c))
    BY <2>1 DEF Exchange, Gone, Cut, Resting, HalfWritten, Written, InHand,
                Answered, InReach
  <2>3. /\ client'[c] = [client[c] EXCEPT !.at = "idle", !.id = @ + 1]
        /\ down'[c] = Tail(down[c]) /\ task' = task /\ up' = up
    BY <1>2 DEF ReadLine
  <2>4. client'[c] \in Client /\ client'[c].at = "idle"
    <3>. DEFINE next == id + 1
    <3>1. /\ next \in Nat
          /\ client'[c] = [client[c] EXCEPT !.at = "idle", !.id = next]
      BY <1>0, <2>3
    <3>. HIDE DEF next
    <3>. QED
      BY <1>0, <3>1 DEF Client
  <2>5. down'[c] = <<>>
    BY <2>2, <2>3, ShortSequences
  <2>6. CASE Cut(c)
    <3>1. ~Serving(c)'
      BY <2>3, <2>6 DEF Cut, Serving
    <3>2. ~InReach(c, "off")'
      BY <2>4 DEF InReach
    <3>3. Cut(c)'
      BY <2>5, <3>1, <3>2 DEF Cut
    <3>. QED
      BY <2>4, <3>3 DEF Exchange
  <2>7. CASE Answered(c)
    BY <2>3, <2>4, <2>5, <2>7 DEF Exchange, Answered, Resting, InReach,
                                  Selecting
  <2>. QED
    BY <2>2, <2>6, <2>7
<1>3. CASE NoticeLoss(c) \/ Leave(c)
  <2>1. client'[c] = Off /\ down'[c] = <<>>
    BY <1>3 DEF NoticeLoss, Leave, HangUp
  <2>. QED
    BY <2>1 DEF Exchange, Gone, InReach, Off, Client
<1>4. CASE Connect(c)
  <2>1. /\ task'[c] = NewTask /\ up'[c] = <<>> /\ down'[c] = <<>>
        /\ client'[c] = [Off EXCEPT !.at = "idle"]
    BY <1>4 DEF Connect
  <2>2. client'[c] \in Client /\ client'[c].at = "idle"
    BY <2>1 DEF Off, Client
  <2>3. Selecting(c, <<>>)'
    BY <2>1, NewTaskSelects DEF Selecting
  <2>. QED
    BY <2>1, <2>2, <2>3 DEF Exchange, Resting, InReach
<1>5. CASE WriteText(c)
  <2>1. Resting(c)
    BY <1>5 DEF WriteText, Exchange, Gone, Cut, HalfWritten, Written, InHand,
                Answered, InReach
  <2>2. task' = task /\ down' = down
    BY <1>5 DEF WriteText
  <2>3. MayAsk(c) = {"call"}
    BY DEF MayAsk
  <2>4. \/ /\ up'[c] = Append(up[c], MyText(c))
           /\ client'[c] = [client[c] EXCEPT !.at = "half"]
        \/ /\ up'[c] = up[c] \o <<MyText(c), Newline>>
           /\ client'[c] = [client[c] EXCEPT !.at = "waiting", !.id = id]
    BY <1>5, <2>3 DEF WriteText, After, MyText
  <2>5. Selecting(c, <<>>)'
    BY <2>1, <2>2 DEF Resting, Selecting
  <2>6. CASE /\ up'[c] = Append(up[c], MyText(c))
             /\ client'[c] = [client[c] EXCEPT !.at = "half"]
    <3>1. /\ client'[c] \in Client /\ client'[c].at = "half"
          /\ client'[c].id = id
      BY <1>0, <2>6 DEF Client
    <3>2. up'[c] = <<MyText(c)>> /\ down'[c] = <<>>
      BY <2>1, <2>2, <2>6, ShortSequences DEF Resting
    <3>3. HalfWritten(c)'
      BY <2>5, <3>1, <3>2 DEF HalfWritten, InReach, MyText
    <3>. QED
      BY <3>1, <3>3 DEF Exchange
  <2>7. CASE /\ up'[c] = up[c] \o <<MyText(c), Newline>>
             /\ client'[c] = [client[c] EXCEPT !.at = "waiting", !.id = id]
    <3>1. /\ client'[c] \in Client /\ client'[c].at = "waiting"
          /\ client'[c].id = id
      BY <1>0, <2>7 DEF Client
    <3>2. up'[c] = <<MyText(c), Newline>> /\ down'[c] = <<>>
      BY <2>1, <2>2, <2>7, ShortSequences DEF Resting
    <3>3. Written(c)'
      BY <2>5, <3>1, <3>2 DEF Written, InReach, MyText
    <3>. QED
      BY <3>1, <3>3 DEF Exchange
  <2>. QED
    BY <2>4, <2>6, <2>7
<1>. QED
  BY <1>1, <1>2, <1>3, <1>4, <1>5 DEF ClientStep

(* The end of a process cuts every connection.                             *)
LEMMA EndsKeepsExchange ==
    ASSUME Domains, NEW c \in Clients \ Subscribers, Exchange(c), Ends
    PROVE  Exchange(c)'
<1>1. client' = client /\ down' = down /\ task'[c].at = "none"
  BY DEF Ends, NoTask
<1>2. CASE Gone(c)
  BY <1>1, <1>2 DEF Exchange, Gone, InReach
<1>3. CASE ~Gone(c)
  <2>1. /\ ~InReach(c, "off")
        /\ \/ down[c] = <<>>
           \/ InReach(c, "waiting") /\ down[c] = <<MyAnswer(c)>>
    BY <1>3 DEF Exchange, Cut, Resting, HalfWritten, Written, InHand,
       Answered, InReach
  <2>2. ~Serving(c)' /\ MyAnswer(c)' = MyAnswer(c)
    BY <1>1 DEF Serving, MyAnswer
  <2>3. Cut(c)'
    BY <1>1, <2>1, <2>2 DEF Cut, InReach
  <2>. QED
    BY <1>1, <2>3 DEF Exchange
<1>. QED
  BY <1>2, <1>3

-----------------------------------------------------------------------------
(* Nobody is connected at first.                                           *)
LEMMA InitHasInv == Init => IpcInv
  BY DEF Init, IpcInv, Domains, Exchange, Gone, InReach, Off, Client

(* Every step: of a connection, of the accept loop, of the process.        *)
LEMMA StepKeepsInv == IpcInv /\ [Next]_ipcVars => IpcInv'
<1>. SUFFICES ASSUME IpcInv, [Next]_ipcVars PROVE IpcInv'
  OBVIOUS
<1>1. ASSUME NEW d \in Clients, ConnectionStep(d) PROVE IpcInv'
  <2>1. Domains' /\ \A c \in Clients : c # d => Same(c)
    BY <1>1, StepIsLocal DEF IpcInv
  <2>2. ASSUME NEW c \in Clients \ Subscribers PROVE Exchange(c)'
    <3>1. CASE c = d
      BY <1>1, <3>1, ServerKeepsExchange, ClientKeepsExchange
      DEF IpcInv, ConnectionStep
    <3>2. CASE c # d
      BY <2>1, <3>2, SameKeepsExchange DEF IpcInv
    <3>. QED
      BY <3>1, <3>2
  <2>. QED
    BY <2>1, <2>2 DEF IpcInv
<1>2. CASE Ends
  <2>1. Domains'
    BY <1>2 DEF Ends, IpcInv, Domains
  <2>. QED
    BY <1>2, <2>1, EndsKeepsExchange DEF IpcInv
<1>3. ASSUME UNCHANGED <<task, up, down, client>> PROVE IpcInv'
  <2>1. \A c \in Clients : Same(c)
    BY <1>3 DEF Same
  <2>2. Domains'
    BY <1>3 DEF IpcInv, Domains
  <2>. QED
    BY <2>1, <2>2, SameKeepsExchange DEF IpcInv
<1>4. CASE \E c \in Clients : ServerStep(c) \/ ClientStep(c) \/ Connect(c)
                               \/ WriteText(c) \/ Leave(c)
  BY <1>1, <1>4 DEF ConnectionStep
<1>5. CASE AcceptStep
  BY <1>2, <1>3, <1>5 DEF AcceptStep, Reconciled, CreateInstance, Wakes
<1>6. CASE ForwardStop \/ HeedStop \/ ServiceDies
  BY <1>2, <1>3, <1>6 DEF ForwardStop, HeedStop, ServiceDies
<1>7. CASE Starts \/ AskToStop \/ ConnectFails \/ Emit
  BY <1>3, <1>7 DEF Starts, AskToStop, ConnectFails, Emit
<1>8. CASE UNCHANGED ipcVars
  BY <1>3, <1>8 DEF ipcVars
<1>. QED
  BY <1>4, <1>5, <1>6, <1>7, <1>8 DEF Next

(* At each of the places, the line in the pipe is the answer awaited.      *)
LEMMA InvGivesAnswersMatch == IpcInv => AnswersMatch
  BY DEF IpcInv, AnswersMatch, Exchange, Gone, Cut, Resting, HalfWritten,
         Written, InHand, Answered, InReach, MyAnswer

(* Every connection that does not subscribe is at one of the places        *)
(* IpcInv lists (ipc_client.rs send_request, ipc_server.rs                 *)
(* handle_connection).                                                     *)
THEOREM ExchangesHold == Spec => []IpcInv
  BY InitHasInv, StepKeepsInv, PTL DEF Spec

(* The line IpcClient reads is the answer to its request, however many     *)
(* clients, subscribers, restarts and failures there are (ipc_client.rs,   *)
(* send_request).                                                          *)
THEOREM AnswersAreTheRequests == Spec => []AnswersMatch
  BY ExchangesHold, InvGivesAnswersMatch, PTL

-----------------------------------------------------------------------------
(* Types and bounds.  A process that is down serves nobody, so that events *)
(* can be counted from the start of the process: no receiver is older.     *)
PipeInv ==
    /\ IpcTypeOK
    /\ accept = "down" => \A c \in Clients : task[c] = NoTask

Below == {p \in Nat \X Nat : p[1] < p[2]}

(* A set of numbers has a least one.                                       *)
LEMMA LeastNumber ==
    ASSUME NEW S, S \subseteq Nat, S # {}
    PROVE  \E n \in S : \A m \in S : n <= m
<1>1. IsWellFoundedOn(Below, Nat)
  <2>1. OpToRel(<, Nat) = Below
    BY DEF OpToRel, Below
  <2>. QED
    BY <2>1, NatLessThanWellFounded
<1>2. PICK n \in S : \A m \in S : <<m, n>> \notin Below
  BY <1>1, WFMin
<1>3. ASSUME NEW m \in S PROVE n <= m
  <2>1. m \in Nat /\ n \in Nat /\ <<m, n>> \in Nat \X Nat
    OBVIOUS
  <2>2. ~(m < n)
    BY <1>2, <2>1 DEF Below
  <2>. QED
    BY <2>1, <2>2
<1>. QED
  BY <1>3

(* What the pipe to the server carries.                                    *)
Piece == Request \cup {Newline}

(* The pieces before a newline are texts.                                  *)
LEMMA TextsBeforeNewline ==
    ASSUME NEW s \in Seq(Piece), NEW n \in 0..Len(s),
           \A i \in 1..n : s[i] # Newline
    PROVE  SubSeq(s, 1, n) \in Seq(Request)
<1>1. \A i \in 1..n : s[i] \in Request
  BY ElementOfSeq DEF Piece
<1>. QED
  BY <1>1, SubSeqProperties

(* read_line's newline: the first one, with texts before it.               *)
LEMMA FirstNewline ==
    ASSUME NEW s \in Seq(Piece), \E i \in DOMAIN s : s[i] = Newline
    PROVE  /\ LineEnd(s) \in 1..Len(s)
           /\ SubSeq(s, 1, LineEnd(s) - 1) \in Seq(Request)
           /\ SubSeq(s, LineEnd(s) + 1, Len(s)) \in Seq(Piece)
<1>. DEFINE S == {i \in 1..Len(s) : s[i] = Newline}
            end == LineEnd(s)
<1>1. Len(s) \in Nat /\ DOMAIN s = 1..Len(s) /\ S \subseteq Nat /\ S # {}
  BY LenProperties
<1>2. PICK n \in S : \A m \in S : n <= m
  BY <1>1, LeastNumber
<1>3. \A j \in 1..(n - 1) : s[j] # Newline
  <2>. SUFFICES ASSUME NEW j \in 1..(n - 1), s[j] = Newline PROVE FALSE
    OBVIOUS
  <2>. QED
    BY <1>1, <1>2
<1>4. /\ end \in DOMAIN s /\ s[end] = Newline
      /\ \A j \in 1..(end - 1) : s[j] # Newline
  BY <1>1, <1>2, <1>3 DEF LineEnd
<1>. HIDE DEF end
<1>5. end \in 1..Len(s) /\ end - 1 \in 0..Len(s)
  BY <1>1, <1>4
<1>6. SubSeq(s, 1, end - 1) \in Seq(Request)
  BY <1>4, <1>5, TextsBeforeNewline
<1>7. SubSeq(s, end + 1, Len(s)) \in Seq(Piece)
  <2>1. \A i \in (end + 1)..Len(s) : s[i] \in Piece
    BY <1>1, <1>5, ElementOfSeq
  <2>. QED
    BY <1>1, <1>5, <2>1, SubSeqProperties
<1>. QED
  BY <1>5, <1>6, <1>7 DEF end

(* A task that is at rest, one that starts.                                *)
LEMMA NoTaskType ==
    /\ NoTask \in Task /\ NoTask.rx = 0
    /\ sent \in Nat => NoTask.rx <= sent + 1
  BY Messages DEF NoTask, Task

(* What handle_connection makes of a line.                                 *)
LEMMA HandledTypes ==
    ASSUME sent \in Nat, NEW t \in Task, t.rx <= sent + 1
    PROVE  Handled(t) \in Task /\ Handled(t).rx <= sent + 1
<1>. DEFINE rest == [t EXCEPT !.line = <<>>]
            request == t.line[1]
            rx == Subscribed(t.rx)
<1>1. rest \in Task /\ rest.rx = t.rx /\ Cleared(t) = rest
  BY Messages DEF Task, Cleared
<1>2. ASSUME Parses(t.line) PROVE request.id \in Nat
  <2>1. t.line \in Seq(Request) /\ 1 \in 1..Len(t.line)
    BY <1>2 DEF Parses, Task
  <2>2. t.line[1] \in Request
    BY <2>1, ElementOfSeq
  <2>. QED
    BY <2>2 DEF Request
<1>3. rx \in Nat /\ rx <= sent + 1
  BY DEF Subscribed, Task
<1>. HIDE DEF rest, request, rx
<1>4. CASE ~Parses(t.line)
  BY <1>1, <1>4 DEF Handled
<1>5. CASE Parses(t.line) /\ request.ask = "subscribe"
  <2>1. Handled(t) = [rest EXCEPT !.at = "write", !.rx = rx,
                                  !.out = Answer(request.id)]
    BY <1>1, <1>5 DEF Handled, request, rx
  <2>2. Answer(request.id) \in Message
    BY <1>2, <1>5, Messages
  <2>. QED
    BY <1>1, <1>3, <2>1, <2>2 DEF Task
<1>6. CASE Parses(t.line) /\ request.ask # "subscribe"
  <2>1. Handled(t) = [rest EXCEPT !.at = "dispatch",
                                  !.out = Answer(request.id)]
    BY <1>1, <1>6 DEF Handled, request
  <2>2. Answer(request.id) \in Message
    BY <1>2, <1>6, Messages
  <2>. QED
    BY <1>1, <2>1, <2>2 DEF Task
<1>. QED
  BY <1>4, <1>5, <1>6

(* An event, or Lagged.                                                    *)
LEMMA ReceivedTypes ==
    ASSUME sent \in Nat, NEW t \in Task, t.rx \in 1..sent
    PROVE  /\ Cleared(Received(t)) \in Task
           /\ Cleared(Received(t)).rx <= sent + 1
<1>. DEFINE r == Received(t)
            next == t.rx + 1
<1>0. ChannelCap \in Nat \ {0}
  BY IpcAssumption
<1>1. r \in Task /\ r.rx <= sent + 1
  <2>1. CASE t.rx < Oldest
    <3>1. Oldest \in Nat /\ Oldest <= sent + 1
      BY <1>0 DEF Oldest
    <3>2. r = [t EXCEPT !.rx = Oldest]
      BY <2>1 DEF Received
    <3>. QED
      BY <3>1, <3>2 DEF Task
  <2>2. CASE ~(t.rx < Oldest)
    <3>1. next \in Nat /\ next <= sent + 1 /\ Event(t.rx) \in Message
      BY DEF Event, Message
    <3>2. r = [t EXCEPT !.at = "write", !.out = Event(t.rx), !.rx = next]
      BY <2>2 DEF Received
    <3>. HIDE DEF next
    <3>. QED
      BY <3>1, <3>2 DEF Task
  <2>. QED
    BY <2>1, <2>2
<1>. HIDE DEF r
<1>. QED
  BY <1>1, Messages DEF Cleared, Task, r

-----------------------------------------------------------------------------
(* The steps of the server on a connection.                                *)
LEMMA ServerKeepsTypes ==
    ASSUME PipeInv, NEW c \in Clients, ServerStep(c)
    PROVE  PipeInv'
<1>0. /\ task \in [Clients -> Task] /\ task[c] \in Task
      /\ up \in [Clients -> Seq(Piece)] /\ up[c] \in Seq(Piece)
      /\ down \in [Clients -> Seq(Message)] /\ down[c] \in Seq(Message)
      /\ client \in [Clients -> Client] /\ sent \in Nat
      /\ \A d \in Clients : Len(down[d]) <= PipeCap /\ task[d].rx <= sent + 1
  BY DEF PipeInv, IpcTypeOK, Piece
<1>1. UNCHANGED <<process, sent, client>>
  BY DEF ServerStep, TakeText, TakeLine, Dispatched, EventWins, WriteLine,
         EndOfPipe
<1>2. accept # "down"
  <2>1. NoTask.at = "none"
    BY DEF NoTask
  <2>2. task[c].at # "none"
    BY DEF ServerStep, TakeText, TakeLine, Dispatched, EventWins, WriteLine,
           EndOfPipe, At
  <2>. QED
    BY <2>1, <2>2 DEF PipeInv
<1>3. ASSUME NEW t \in Task, task' = [task EXCEPT ![c] = t], t.rx <= sent + 1,
             \/ up' = up
             \/ \E s \in Seq(Piece) : up' = [up EXCEPT ![c] = s],
             \/ down' = down
             \/ \E s \in Seq(Message) :
                   down' = [down EXCEPT ![c] = s] /\ Len(s) <= PipeCap
      PROVE  PipeInv'
  <2>1. up' \in [Clients -> Seq(Piece)]
    BY <1>0, <1>3
  <2>2. /\ down' \in [Clients -> Seq(Message)]
        /\ \A d \in Clients : Len(down'[d]) <= PipeCap
    BY <1>0, <1>3
  <2>3. /\ task' \in [Clients -> Task]
        /\ \A d \in Clients : task'[d].rx <= sent + 1
    BY <1>0, <1>3
  <2>. QED
    BY <1>1, <1>2, <2>1, <2>2, <2>3 DEF PipeInv, IpcTypeOK, Piece, process
<1>4. CASE TakeText(c)
  <2>1. up[c] \in Seq(Request)
    <3>1. DOMAIN up[c] = 1..Len(up[c]) /\ Len(up[c]) \in Nat
      BY <1>0, LenProperties
    <3>2. \A i \in 1..Len(up[c]) : up[c][i] # Newline
      BY <1>4, <3>1 DEF TakeText, HasLine
    <3>. DEFINE s == up[c]
                n == Len(s)
    <3>3. /\ s \in Seq(Piece) /\ n \in 0..Len(s)
          /\ \A i \in 1..n : s[i] # Newline
      BY <1>0, <3>1, <3>2
    <3>. HIDE DEF s, n
    <3>4. SubSeq(s, 1, n) \in Seq(Request)
      BY <3>3, TextsBeforeNewline
    <3>. QED
      BY <1>0, <3>4, SubSeqFull DEF s, n
  <2>. DEFINE line == task[c].line \o up[c]
              t == [task[c] EXCEPT !.line = line]
  <2>2. line \in Seq(Request)
    BY <1>0, <2>1, ConcatProperties DEF Task
  <2>3. /\ task' = [task EXCEPT ![c] = t]
        /\ up' = [up EXCEPT ![c] = <<>>] /\ down' = down
    BY <1>4 DEF TakeText
  <2>. HIDE DEF line
  <2>4. t \in Task /\ t.rx = task[c].rx
    BY <1>0, <2>2 DEF Task
  <2>5. <<>> \in Seq(Piece)
    BY EmptySeq
  <2>. HIDE DEF t
  <2>. QED
    BY <1>0, <1>3, <2>3, <2>4, <2>5
<1>5. CASE TakeLine(c)
  <2>. DEFINE end == LineEnd(up[c])
              line == task[c].line \o SubSeq(up[c], 1, end - 1)
              t == [task[c] EXCEPT !.line = line]
              rest == SubSeq(up[c], end + 1, Len(up[c]))
  <2>1. /\ task' = [task EXCEPT ![c] = Handled(t)]
        /\ up' = [up EXCEPT ![c] = rest] /\ down' = down
    BY <1>5 DEF TakeLine
  <2>2. SubSeq(up[c], 1, end - 1) \in Seq(Request) /\ rest \in Seq(Piece)
    BY <1>0, <1>5, FirstNewline DEF TakeLine, HasLine
  <2>3. line \in Seq(Request)
    BY <1>0, <2>2, ConcatProperties DEF Task
  <2>. HIDE DEF line, rest
  <2>4. t \in Task /\ t.rx = task[c].rx
    BY <1>0, <2>3 DEF Task
  <2>. HIDE DEF t
  <2>5. Handled(t) \in Task /\ Handled(t).rx <= sent + 1
    BY <1>0, <2>4, HandledTypes
  <2>. QED
    BY <1>3, <2>1, <2>2, <2>5
<1>6. CASE Dispatched(c)
  <2>. DEFINE t == [task[c] EXCEPT !.at = "write"]
  <2>1. task' = [task EXCEPT ![c] = t] /\ up' = up /\ down' = down
    BY <1>6 DEF Dispatched
  <2>2. t \in Task /\ t.rx = task[c].rx
    BY <1>0 DEF Task
  <2>. HIDE DEF t
  <2>. QED
    BY <1>0, <1>3, <2>1, <2>2
<1>7. CASE EventWins(c)
  <2>. DEFINE t == Cleared(Received(task[c]))
  <2>1. task' = [task EXCEPT ![c] = t] /\ up' = up /\ down' = down
    BY <1>7 DEF EventWins
  <2>2. t \in Task /\ t.rx <= sent + 1
    BY <1>0, <1>7, ReceivedTypes DEF EventWins
  <2>. HIDE DEF t
  <2>. QED
    BY <1>3, <2>1, <2>2
<1>8. CASE WriteLine(c)
  <2>. DEFINE t == [task[c] EXCEPT !.at = "select", !.out = Nothing]
              s == Append(down[c], task[c].out)
  <2>1. t \in Task /\ t.rx = task[c].rx /\ task[c].out \in Message
    BY <1>0, Messages DEF Task
  <2>2. s \in Seq(Message) /\ Len(s) = Len(down[c]) + 1
    BY <1>0, <2>1, AppendProperties
  <2>3. \/ /\ \/ task' = [task EXCEPT ![c] = NoTask]
              \/ task' = [task EXCEPT ![c] = t]
           /\ down' = down
        \/ /\ task' = [task EXCEPT ![c] = t]
           /\ down' = [down EXCEPT ![c] = s] /\ Len(down[c]) < PipeCap
    BY <1>8 DEF WriteLine
  <2>4. up' = up /\ Len(down[c]) \in Nat /\ PipeCap \in Nat
    BY <1>0, <1>8, IpcAssumption, LenProperties DEF WriteLine
  <2>. HIDE DEF t, s
  <2>5. CASE task' = [task EXCEPT ![c] = NoTask] /\ down' = down
    BY <1>0, <1>3, <2>4, <2>5, NoTaskType
  <2>6. CASE task' = [task EXCEPT ![c] = t] /\ down' = down
    BY <1>0, <1>3, <2>1, <2>4, <2>6
  <2>7. CASE /\ task' = [task EXCEPT ![c] = t]
             /\ down' = [down EXCEPT ![c] = s] /\ Len(down[c]) < PipeCap
    <3>1. Len(s) <= PipeCap
      BY <2>2, <2>4, <2>7
    <3>. QED
      BY <1>0, <1>3, <2>1, <2>2, <2>4, <2>7, <3>1
  <2>. QED
    BY <2>3, <2>5, <2>6, <2>7
<1>9. CASE EndOfPipe(c)
  BY <1>0, <1>3, <1>9, NoTaskType DEF EndOfPipe
<1>. QED
  BY <1>4, <1>5, <1>6, <1>7, <1>8, <1>9 DEF ServerStep

(* The steps of the client's end.                                          *)
LEMMA ClientKeepsTypes ==
    ASSUME PipeInv, NEW c \in Clients,
           ClientStep(c) \/ Connect(c) \/ WriteText(c) \/ Leave(c)
    PROVE  PipeInv'
<1>0. /\ task \in [Clients -> Task]
      /\ up \in [Clients -> Seq(Piece)] /\ up[c] \in Seq(Piece)
      /\ down \in [Clients -> Seq(Message)] /\ down[c] \in Seq(Message)
      /\ client \in [Clients -> Client] /\ client[c] \in Client
      /\ sent \in Nat /\ client[c].id \in Nat
      /\ \A d \in Clients : Len(down[d]) <= PipeCap /\ task[d].rx <= sent + 1
  BY DEF PipeInv, IpcTypeOK, Piece, Client
<1>1. sent' = sent /\ starts' = starts /\ stop' = stop
  BY DEF ClientStep, WriteNewline, ReadLine, NoticeLoss, HangUp, Connect,
         WriteText, Leave, process
<1>2. /\ task' = task /\ accept' = accept
      \/ Connect(c)
  BY DEF ClientStep, WriteNewline, ReadLine, NoticeLoss, HangUp, WriteText,
         Leave, process
<1>e. <<>> \in Seq(Piece) /\ <<>> \in Seq(Message) /\ Len(<<>>) <= PipeCap
  BY EmptySeq, IpcAssumption
<1>3. ASSUME \/ task' = task /\ accept' = accept
             \/ Connect(c),
             NEW r \in Client, client' = [client EXCEPT ![c] = r],
             \/ up' = up
             \/ \E s \in Seq(Piece) : up' = [up EXCEPT ![c] = s],
             \/ down' = down
             \/ \E s \in Seq(Message) :
                   down' = [down EXCEPT ![c] = s] /\ Len(s) <= PipeCap
      PROVE  PipeInv'
  <2>1. up' \in [Clients -> Seq(Piece)]
    BY <1>0, <1>3
  <2>2. /\ down' \in [Clients -> Seq(Message)]
        /\ \A d \in Clients : Len(down'[d]) <= PipeCap
    BY <1>0, <1>3
  <2>3. client' \in [Clients -> Client]
    BY <1>0, <1>3
  <2>4. CASE task' = task /\ accept' = accept
    BY <1>1, <2>1, <2>2, <2>3, <2>4 DEF PipeInv, IpcTypeOK, Piece
  <2>5. CASE Connect(c)
    <3>1. task' = [task EXCEPT ![c] = NewTask] /\ accept' = "create"
      BY <2>5 DEF Connect
    <3>2. /\ task' \in [Clients -> Task]
          /\ \A d \in Clients : task'[d].rx <= sent + 1
      BY <1>0, <3>1, NewTaskSelects
    <3>. QED
      BY <1>1, <2>1, <2>2, <2>3, <3>1, <3>2 DEF PipeInv, IpcTypeOK, Piece
  <2>. QED
    BY <1>3, <2>4, <2>5
<1>4. CASE WriteNewline(c)
  <2>. DEFINE r == [client[c] EXCEPT !.at = "waiting"]
              s == Append(up[c], Newline)
  <2>1. /\ client' = [client EXCEPT ![c] = r]
        /\ up' = [up EXCEPT ![c] = s] /\ down' = down
    BY <1>4 DEF WriteNewline
  <2>2. r \in Client
    BY <1>0 DEF Client
  <2>3. s \in Seq(Piece)
    BY <1>0, AppendProperties DEF Piece
  <2>. HIDE DEF r, s
  <2>. QED
    BY <1>2, <1>3, <2>1, <2>2, <2>3
<1>5. CASE ReadLine(c)
  <2>. DEFINE next == client[c].id + 1
              r == [client[c] EXCEPT !.at = "idle", !.id = next]
              s == Tail(down[c])
  <2>1. /\ client' = client \/ client' = [client EXCEPT ![c] = r]
        /\ down' = [down EXCEPT ![c] = s] /\ up' = up
    BY <1>5 DEF ReadLine
  <2>2. next \in Nat
    BY <1>0
  <2>. HIDE DEF next
  <2>3. r \in Client
    BY <1>0, <2>2 DEF Client
  <2>4. s \in Seq(Message) /\ Len(s) = Len(down[c]) - 1
    BY <1>0, <1>5, HeadTailProperties DEF ReadLine
  <2>5. Len(s) <= PipeCap
    BY <1>0, <2>4, LenProperties, IpcAssumption
  <2>6. client = [client EXCEPT ![c] = client[c]]
    BY <1>0
  <2>. HIDE DEF r, s
  <2>7. CASE client' = client
    BY <1>0, <1>2, <1>3, <2>1, <2>4, <2>5, <2>6, <2>7
  <2>8. CASE client' = [client EXCEPT ![c] = r]
    BY <1>2, <1>3, <2>1, <2>3, <2>4, <2>5, <2>8
  <2>. QED
    BY <2>1, <2>7, <2>8
<1>6. CASE NoticeLoss(c) \/ Leave(c)
  <2>1. /\ client' = [client EXCEPT ![c] = Off]
        /\ down' = [down EXCEPT ![c] = <<>>] /\ up' = up
        /\ task' = task /\ accept' = accept
    BY <1>6 DEF NoticeLoss, Leave, HangUp, process
  <2>2. Off \in Client
    BY DEF Off, Client
  <2>3. \E s \in Seq(Message) :
           down' = [down EXCEPT ![c] = s] /\ Len(s) <= PipeCap
    BY <1>e, <2>1
  <2>. QED
    BY <1>3, <2>1, <2>2, <2>3
<1>7. CASE Connect(c)
  <2>. DEFINE r == [Off EXCEPT !.at = "idle"]
  <2>1. /\ client' = [client EXCEPT ![c] = r]
        /\ down' = [down EXCEPT ![c] = <<>>] /\ up' = [up EXCEPT ![c] = <<>>]
    BY <1>7 DEF Connect
  <2>2. r \in Client
    BY DEF Off, Client
  <2>. HIDE DEF r
  <2>3. /\ \E s \in Seq(Message) :
              down' = [down EXCEPT ![c] = s] /\ Len(s) <= PipeCap
        /\ \E s \in Seq(Piece) : up' = [up EXCEPT ![c] = s]
    BY <1>e, <2>1
  <2>. QED
    BY <1>3, <1>7, <2>1, <2>2, <2>3
<1>8. CASE WriteText(c)
  <2>1. PICK ask \in MayAsk(c) :
           LET text == Text(ask, client[c].id) IN
           IF c \in Split /\ ask # "junk"
           THEN /\ up' = [up EXCEPT ![c] = Append(@, text)]
                /\ client' = [client EXCEPT ![c].at = "half"]
           ELSE /\ up' = [up EXCEPT ![c] = @ \o <<text, Newline>>]
                /\ client' = [client EXCEPT ![c].at = After(ask),
                     ![c].id = IF ask = "junk" THEN @ + 1 ELSE @]
    BY <1>8 DEF WriteText
  <2>. DEFINE text == Text(ask, client[c].id)
              one == Append(up[c], text)
              two == up[c] \o <<text, Newline>>
              half == [client[c] EXCEPT !.at = "half"]
              next == IF ask = "junk" THEN client[c].id + 1 ELSE client[c].id
              done == [client[c] EXCEPT !.at = After(ask), !.id = next]
  <2>2. \/ /\ up' = [up EXCEPT ![c] = one]
           /\ client' = [client EXCEPT ![c] = half]
        \/ /\ up' = [up EXCEPT ![c] = two]
           /\ client' = [client EXCEPT ![c] = done]
    BY <2>1
  <2>3. text \in Piece /\ Newline \in Piece
    BY <1>0 DEF MayAsk, Ask, Text, Request, Piece
  <2>4. next \in Nat /\ After(ask) \in {"idle", "waiting"}
    BY <1>0 DEF After
  <2>. HIDE DEF text, next
  <2>5. half \in Client /\ done \in Client
    BY <1>0, <2>4 DEF Client
  <2>6. one \in Seq(Piece) /\ two \in Seq(Piece)
    <3>1. <<text, Newline>> \in Seq(Piece)
      BY <2>3
    <3>. QED
      BY <1>0, <2>3, <3>1, AppendProperties, ConcatProperties
  <2>7. down' = down
    BY <1>8 DEF WriteText
  <2>. HIDE DEF one, two, half, done
  <2>8. CASE /\ up' = [up EXCEPT ![c] = one]
             /\ client' = [client EXCEPT ![c] = half]
    BY <1>2, <1>3, <2>5, <2>6, <2>7, <2>8
  <2>9. CASE /\ up' = [up EXCEPT ![c] = two]
             /\ client' = [client EXCEPT ![c] = done]
    BY <1>2, <1>3, <2>5, <2>6, <2>7, <2>9
  <2>. QED
    BY <2>2, <2>8, <2>9
<1>. QED
  BY <1>4, <1>5, <1>6, <1>7, <1>8 DEF ClientStep

(* The end of the process.                                                 *)
LEMMA EndsKeepsTypes ==
    ASSUME PipeInv, Ends
    PROVE  PipeInv'
<1>1. /\ task' = [c \in Clients |-> NoTask] /\ up' = [c \in Clients |-> <<>>]
      /\ accept' = "down" /\ stop' = "none"
      /\ UNCHANGED <<sent, down, client, starts>>
  BY DEF Ends
<1>2. /\ task' \in [Clients -> Task]
      /\ \A c \in Clients : task'[c] = NoTask /\ task'[c].rx = 0
  BY <1>1, NoTaskType
<1>3. up' \in [Clients -> Seq(Piece)]
  BY <1>1, EmptySeq
<1>4. sent \in Nat
  BY DEF PipeInv, IpcTypeOK
<1>. QED
  BY <1>1, <1>2, <1>3, <1>4 DEF PipeInv, IpcTypeOK, Piece

(* Every step.                                                             *)
LEMMA StepKeepsTypes == PipeInv /\ [Next]_ipcVars => PipeInv'
<1>. SUFFICES ASSUME PipeInv, [Next]_ipcVars PROVE PipeInv'
  OBVIOUS
<1>0. /\ sent \in Nat /\ starts \in Nat
      /\ \A c \in Clients : task[c].rx \in Nat /\ task[c].rx <= sent + 1
  BY DEF PipeInv, IpcTypeOK, Task
<1>1. ASSUME NEW c \in Clients, ConnectionStep(c) PROVE PipeInv'
  BY <1>1, ServerKeepsTypes, ClientKeepsTypes DEF ConnectionStep
<1>2. CASE Ends
  BY <1>2, EndsKeepsTypes
<1>3. ASSUME UNCHANGED <<sent, task, up, down, client>>,
             accept' \in {"boot", "create", "sleep", "listen"}
                 \/ accept' = accept,
             stop' \in {"none", "asked", "sent"},
             starts' \in Nat
      PROVE  PipeInv'
  BY <1>3 DEF PipeInv, IpcTypeOK
<1>4. CASE AcceptStep
  BY <1>0, <1>2, <1>3, <1>4
  DEF AcceptStep, Reconciled, CreateInstance, Wakes, PipeInv, IpcTypeOK
<1>5. CASE ForwardStop \/ HeedStop \/ ServiceDies
  BY <1>0, <1>2, <1>3, <1>5 DEF ForwardStop, HeedStop, ServiceDies
<1>6. CASE AskToStop \/ ConnectFails
  BY <1>0, <1>3, <1>6 DEF AskToStop, ConnectFails, PipeInv, IpcTypeOK
<1>7. CASE Starts
  <2>1. \A c \in Clients : task'[c].rx = 0
    BY <1>7, NoTaskType DEF Starts, PipeInv
  <2>. QED
    BY <1>0, <1>7, <2>1 DEF Starts, PipeInv, IpcTypeOK
<1>8. CASE Emit
  BY <1>0, <1>8 DEF Emit, process, PipeInv, IpcTypeOK
<1>9. CASE UNCHANGED ipcVars
  BY <1>9 DEF ipcVars, PipeInv, IpcTypeOK
<1>. QED
  BY <1>1, <1>4, <1>5, <1>6, <1>7, <1>8, <1>9 DEF Next, ConnectionStep

(* Whatever the clients write and however it is read, every variable keeps *)
(* its type, no pipe holds more lines than it can, and no receiver is      *)
(* ahead of the events sent (ipc_server.rs, handle_connection).            *)
THEOREM PipesStayBounded == Spec => []IpcTypeOK
<1>1. Init => PipeInv
  <2>. SUFFICES ASSUME Init PROVE PipeInv
    OBVIOUS
  <2>1. /\ task \in [Clients -> Task]
        /\ \A c \in Clients : task[c] = NoTask /\ task[c].rx = 0
    BY NoTaskType DEF Init
  <2>2. /\ up \in [Clients -> Seq(Piece)] /\ down \in [Clients -> Seq(Message)]
        /\ \A c \in Clients : Len(down[c]) = 0
    BY EmptySeq DEF Init
  <2>3. client \in [Clients -> Client]
    BY DEF Init, Off, Client
  <2>4. PipeCap \in Nat
    BY IpcAssumption
  <2>. QED
    BY <2>1, <2>2, <2>3, <2>4 DEF Init, PipeInv, IpcTypeOK, Piece
<1>2. PipeInv => IpcTypeOK
  BY DEF PipeInv
<1>. QED
  BY <1>1, <1>2, StepKeepsTypes, PTL DEF Spec
=============================================================================
