--------------------------------- MODULE Ipc --------------------------------
(***************************************************************************)
(* The named pipe between the core and its clients: the accept loop, one   *)
(* task per connection, the broadcast of health events to connections that *)
(* subscribed, the stop signal, and at the other end the UI's IpcClient,   *)
(* which takes the next line it reads for the answer to its request.  What *)
(* a request does to the core is Controller's; here it takes a while.      *)
(* A pipe carries lines; a request is written as its text and then its     *)
(* newline, and the server may read the one without the other.             *)
(***************************************************************************)
EXTENDS Naturals, Sequences

CONSTANTS
    Clients,
    Subscribers,   \* clients other than the UI, which may subscribe
    Split,         \* clients whose text and newline are two writes
    PipeCap,       \* how many unread lines the pipe to a client holds
    ChannelCap,    \* how many events the broadcast channel keeps (64)
    MaxRequests,   \* bound: requests on one connection
    MaxEvents,     \* bound: events of one service process
    MaxStarts      \* bound: starts of the service

ASSUME IpcAssumption ==
    /\ Subscribers \subseteq Clients /\ Split \subseteq Clients
    /\ PipeCap \in Nat \ {0} /\ ChannelCap \in Nat \ {0}
    /\ {MaxRequests, MaxEvents, MaxStarts} \subseteq Nat

VARIABLES
    accept,     \* where the process and the loop of `serve' are
    stop,       \* the stop signal: asked of the process, sent to `serve'
    sent,       \* events broadcast by this process
    task,       \* handle_connection, per client
    up, down,   \* the two directions of each client's pipe
    client,     \* the other end
    starts

ipcVars == <<accept, stop, sent, task, up, down, client, starts>>
process == <<accept, stop, starts>>

-----------------------------------------------------------------------------
(* RpcRequest and RpcResponse: what tells requests apart is their id.      *)
(* "junk" is a line that does not parse as a request.                      *)
Ask == {"call", "subscribe", "junk"}
Text(ask, id) == [ask |-> ask, id |-> id]
Newline == [ask |-> "newline", id |-> 0]
Request == [ask: Ask, id: Nat]

Answer(id) == [kind |-> "answer", n |-> id]
Event(n) == [kind |-> "event", n |-> n]
Nothing == [kind |-> "nothing", n |-> 0]
Message == [kind: {"answer", "event", "nothing"}, n: Nat]

(* line: what read_line has taken off the pipe so far; rx: the event       *)
(* event_rx returns next, 0 if it is None; out: what is being written.     *)
Task == [at: {"none", "select", "dispatch", "write"},
         line: Seq(Request), rx: Nat, out: Message]
NoTask == [at |-> "none", line |-> <<>>, rx |-> 0, out |-> Nothing]

(* Mutant: every connection gets the events, subscribed or not.            *)
SubscribedFromTheStart == [NoTask EXCEPT !.at = "select", !.rx = sent + 1]

NewTask == [NoTask EXCEPT !.at = "select"]

(* id: next_id.                                                            *)
Client == [at: {"off", "idle", "half", "waiting"}, id: Nat]
Off == [at |-> "off", id |-> 1]

Serving(c) == task[c].at # "none"
At(c, place) == task[c].at = place
InReach(c, place) == client[c].at = place

-----------------------------------------------------------------------------
(* run_core, serve                                                         *)
Starts ==
    /\ accept = "down" /\ starts < MaxStarts
    /\ starts' = starts + 1
    /\ accept' = "boot" /\ stop' = "none" /\ sent' = 0
    /\ UNCHANGED <<task, up, down, client>>

(* Controller::new, reconcile_on_startup and the security attributes: the  *)
(* process ends when the first or the last of them fails.                  *)
Ends ==
    /\ accept' = "down" /\ stop' = "none"
    /\ task' = [c \in Clients |-> NoTask]
    /\ up' = [c \in Clients |-> <<>>]
    /\ UNCHANGED <<sent, down, client, starts>>

Reconciled ==
    /\ accept = "boot"
    /\ \/ Ends
       \/ /\ accept' = "create"
          /\ UNCHANGED <<stop, sent, task, up, down, client, starts>>

(* A creation that fails is tried again a second later, as often as it     *)
(* takes, and nothing on that way looks at the stop signal.                *)
CreateInstance ==
    /\ accept = "create"
    /\ accept' \in {"listen", "sleep"}
    /\ UNCHANGED <<stop, sent, task, up, down, client, starts>>

(* connect reports an error: this instance is dropped, another created.    *)
ConnectFails ==
    /\ accept = "listen" /\ accept' = "create"
    /\ UNCHANGED <<stop, sent, task, up, down, client, starts>>

Wakes ==
    /\ accept = "sleep" /\ accept' = "create"
    /\ UNCHANGED <<stop, sent, task, up, down, client, starts>>

(* The service control manager, or Ctrl+C on the console.                  *)
AskToStop ==
    /\ accept # "down" /\ stop = "none" /\ stop' = "asked"
    /\ UNCHANGED <<accept, sent, task, up, down, client, starts>>

(* Mutant: the signal reaches only a loop that is waiting for it.          *)
ForwardToWaiter ==
    /\ accept # "boot" /\ stop = "asked"
    /\ stop' = IF accept = "listen" THEN "sent" ELSE "lost"
    /\ UNCHANGED <<accept, sent, task, up, down, client, starts>>

(* The task that passes the mpsc message on to the broadcast, which keeps  *)
(* it until `serve' looks.                                                 *)
ForwardStop ==
    /\ accept \notin {"boot", "down"} /\ stop = "asked" /\ stop' = "sent"
    /\ UNCHANGED <<accept, sent, task, up, down, client, starts>>

(* serve and run_core return, and with the runtime go all connections.     *)
HeedStop == accept = "listen" /\ stop = "sent" /\ Ends

ServiceDies == accept # "down" /\ Ends

(* health_monitor's emit.                                                  *)
Emit ==
    /\ accept \notin {"boot", "down"} /\ sent < MaxEvents
    /\ sent' = sent + 1
    /\ UNCHANGED <<process, task, up, down, client>>

-----------------------------------------------------------------------------
(* The client's end.  A client opens the instance that waits; while there  *)
(* is none, open fails and the client remains off.                         *)
Connect(c) ==
    /\ accept = "listen" /\ InReach(c, "off") /\ ~Serving(c)
    /\ accept' = "create"
    /\ task' = [task EXCEPT ![c] = NewTask]
    /\ up' = [up EXCEPT ![c] = <<>>] /\ down' = [down EXCEPT ![c] = <<>>]
    /\ client' = [client EXCEPT ![c] = [Off EXCEPT !.at = "idle"]]
    /\ UNCHANGED <<stop, sent, starts>>

MayAsk(c) == IF c \in Subscribers THEN Ask ELSE {"call"}

(* A client does not wait for an answer to a line it knows to be none.     *)
After(ask) == IF ask = "junk" THEN "idle" ELSE "waiting"

(* send_request: the text, then the newline.                               *)
WriteText(c) ==
    /\ InReach(c, "idle") /\ Serving(c) /\ client[c].id <= MaxRequests
    /\ \E ask \in MayAsk(c) :
          LET text == Text(ask, client[c].id) IN
          IF c \in Split /\ ask # "junk"
          THEN /\ up' = [up EXCEPT ![c] = Append(@, text)]
               /\ client' = [client EXCEPT ![c].at = "half"]
          ELSE /\ up' = [up EXCEPT ![c] = @ \o <<text, Newline>>]
               /\ client' = [client EXCEPT ![c].at = After(ask),
                    ![c].id = IF ask = "junk" THEN @ + 1 ELSE @]
    /\ UNCHANGED <<process, sent, task, down>>

WriteNewline(c) ==
    /\ InReach(c, "half") /\ Serving(c)
    /\ up' = [up EXCEPT ![c] = Append(@, Newline)]
    /\ client' = [client EXCEPT ![c].at = "waiting"]
    /\ UNCHANGED <<process, sent, task, down>>

(* IpcClient reads one line and takes it for its answer, whatever its id;  *)
(* a subscriber tells answers from events.                                 *)
ReadLine(c) ==
    /\ down[c] # <<>>
    /\ \/ c \in Subscribers \/ InReach(c, "waiting")
    /\ down' = [down EXCEPT ![c] = Tail(@)]
    /\ LET m == Head(down[c]) IN
       client' = IF c \in Subscribers /\ m.kind = "event" THEN client
                 ELSE [client EXCEPT ![c].at = "idle", ![c].id = @ + 1]
    /\ UNCHANGED <<process, sent, task, up>>

HangUp(c) ==
    /\ client' = [client EXCEPT ![c] = Off]
    /\ down' = [down EXCEPT ![c] = <<>>]
    /\ UNCHANGED <<process, sent, task, up>>

(* The other end is gone, which the next write or read finds out.          *)
NoticeLoss(c) == ~InReach(c, "off") /\ ~Serving(c) /\ HangUp(c)

Leave(c) == ~InReach(c, "off") /\ Serving(c) /\ HangUp(c)

-----------------------------------------------------------------------------
(* handle_connection.  One poll of read_line takes all there is up to the  *)
(* newline, and keeps what it took when there is no newline yet.           *)
HasLine(c) == \E i \in DOMAIN up[c] : up[c][i] = Newline
LineEnd(s) == CHOOSE i \in DOMAIN s :
    s[i] = Newline /\ \A j \in 1..(i - 1) : s[j] # Newline

TakeText(c) ==
    /\ At(c, "select") /\ up[c] # <<>> /\ ~HasLine(c)
    /\ task' = [task EXCEPT ![c].line = @ \o up[c]]
    /\ up' = [up EXCEPT ![c] = <<>>]
    /\ UNCHANGED <<process, sent, down, client>>

Parses(line) == Len(line) = 1 /\ line[1].ask # "junk"

(* subscribe() returns the events from the next one on.                    *)
Subscribed(rx) == IF rx = 0 THEN sent + 1 ELSE rx

(* Mutant: the loop goes on without its line.clear().                      *)
NotCleared(t) == t

Cleared(t) == [t EXCEPT !.line = <<>>]

(* An empty line and one that does not parse go unanswered.                *)
Handled(t) ==
    LET rest == Cleared(t)
        request == t.line[1]
    IN IF ~Parses(t.line) THEN rest
       ELSE IF request.ask = "subscribe"
       THEN [rest EXCEPT !.at = "write", !.rx = Subscribed(@),
                         !.out = Answer(request.id)]
       ELSE [rest EXCEPT !.at = "dispatch", !.out = Answer(request.id)]

TakeLine(c) ==
    /\ At(c, "select") /\ HasLine(c)
    /\ LET end == LineEnd(up[c])
           line == task[c].line \o SubSeq(up[c], 1, end - 1)
       IN /\ task' = [task EXCEPT ![c] = Handled([@ EXCEPT !.line = line])]
          /\ up' = [up EXCEPT ![c] = SubSeq(@, end + 1, Len(@))]
    /\ UNCHANGED <<process, sent, down, client>>

Dispatched(c) ==
    /\ At(c, "dispatch")
    /\ task' = [task EXCEPT ![c].at = "write"]
    /\ UNCHANGED <<process, sent, up, down, client>>

(* recv: the next event, or Lagged, which goes on with the oldest one the  *)
(* channel still has.                                                      *)
Oldest == IF sent > ChannelCap THEN sent - ChannelCap + 1 ELSE 1

(* Mutant: a subscriber that lags is taken for one whose channel closed.   *)
ReceivedOrClosed(t) ==
    IF t.rx < Oldest THEN [t EXCEPT !.rx = 0]
    ELSE [t EXCEPT !.at = "write", !.out = Event(t.rx), !.rx = @ + 1]

Received(t) ==
    IF t.rx < Oldest THEN [t EXCEPT !.rx = Oldest]
    ELSE [t EXCEPT !.at = "write", !.out = Event(t.rx), !.rx = @ + 1]

(* The branch that loses the select! is dropped, and with the future of    *)
(* read_line the text it had taken.                                        *)
EventWins(c) ==
    /\ At(c, "select") /\ task[c].rx \in 1..sent
    /\ task' = [task EXCEPT ![c] = Cleared(Received(@))]
    /\ UNCHANGED <<process, sent, up, down, client>>

(* Mutant: a write does not wait for room in the pipe.                     *)
WriteUnbounded(c) ==
    /\ At(c, "write")
    /\ down' = [down EXCEPT ![c] = Append(@, task[c].out)]
    /\ task' = [task EXCEPT ![c].at = "select", ![c].out = Nothing]
    /\ UNCHANGED <<process, sent, up, client>>

(* A write waits for room in the pipe.  To a client that has left, an      *)
(* event ends the task; an answer is dropped.                              *)
WriteLine(c) ==
    /\ At(c, "write")
    /\ IF InReach(c, "off")
       THEN /\ task' = [task EXCEPT ![c] =
                 IF @.out.kind = "event" THEN NoTask
                 ELSE [@ EXCEPT !.at = "select", !.out = Nothing]]
            /\ UNCHANGED down
       ELSE /\ Len(down[c]) < PipeCap
            /\ down' = [down EXCEPT ![c] = Append(@, task[c].out)]
            /\ task' = [task EXCEPT ![c].at = "select", ![c].out = Nothing]
    /\ UNCHANGED <<process, sent, up, client>>

EndOfPipe(c) ==
    /\ At(c, "select") /\ InReach(c, "off") /\ up[c] = <<>>
    /\ task' = [task EXCEPT ![c] = NoTask]
    /\ UNCHANGED <<process, sent, up, down, client>>

-----------------------------------------------------------------------------
Init ==
    /\ accept = "down" /\ stop = "none" /\ sent = 0
    /\ task = [c \in Clients |-> NoTask]
    /\ up = [c \in Clients |-> <<>>] /\ down = [c \in Clients |-> <<>>]
    /\ client = [c \in Clients |-> Off]
    /\ starts = 0

ServerStep(c) ==
    \/ TakeText(c) \/ TakeLine(c) \/ Dispatched(c)
    \/ EventWins(c) \/ WriteLine(c) \/ EndOfPipe(c)

ClientStep(c) == WriteNewline(c) \/ ReadLine(c) \/ NoticeLoss(c)

AcceptStep == Reconciled \/ CreateInstance \/ Wakes

Next ==
    \/ \E c \in Clients :
          ServerStep(c) \/ ClientStep(c) \/ Connect(c) \/ WriteText(c) \/ Leave(c)
    \/ AcceptStep \/ ForwardStop \/ HeedStop
    \/ Starts \/ AskToStop \/ ServiceDies \/ ConnectFails \/ Emit

Spec == Init /\ [][Next]_ipcVars

(* tokio polls every task that can run; a select! with two ready branches  *)
(* takes either at random, so it does not pass over one of them for ever.  *)
FairSpec ==
    /\ Spec
    /\ WF_ipcVars(AcceptStep) /\ WF_ipcVars(ForwardStop) /\ SF_ipcVars(HeedStop)
    /\ \A c \in Clients : WF_ipcVars(ServerStep(c)) /\ WF_ipcVars(ClientStep(c))

-----------------------------------------------------------------------------
IpcTypeOK ==
    /\ accept \in {"down", "boot", "create", "sleep", "listen"}
    /\ stop \in {"none", "asked", "sent"}
    /\ sent \in Nat
    /\ task \in [Clients -> Task]
    /\ up \in [Clients -> Seq(Request \cup {Newline})]
    /\ down \in [Clients -> Seq(Message)]
    /\ client \in [Clients -> Client]
    /\ starts \in Nat
    /\ \A c \in Clients : Len(down[c]) <= PipeCap /\ task[c].rx <= sent + 1

(* IpcClient never compares ids: the line it reads is the answer to the    *)
(* request it has just sent, because the server writes nothing else to it  *)
(* and one answer per request (ipc_client.rs send_request).                *)
AnswersMatch ==
    \A c \in Clients \ Subscribers :
        down[c] # <<>> => /\ InReach(c, "waiting")
                          /\ down[c] = <<Answer(client[c].id)>>

(* A request ends: it is answered, or the client learns that the           *)
(* connection is gone.  Nothing in send_request limits the wait.           *)
RequestsEnd ==
    \A c \in Clients : InReach(c, "waiting") ~> ~InReach(c, "waiting")

(* A subscriber that lags loses events but never the latest one: as long   *)
(* as it stays connected it gets to the last event that was broadcast      *)
(* (handle_connection, which goes on after an error of recv).              *)
UpToDate(c) == task[c].rx = sent + 1 /\ At(c, "select") /\ down[c] = <<>>
LatestEventArrives ==
    \A c \in Subscribers : task[c].rx # 0 ~> UpToDate(c) \/ ~Serving(c)

(* A service that is asked to stop, while it boots or at any moment after, *)
(* stops, however often a pipe instance fails meanwhile, unless from some  *)
(* moment on no instance can be created any more: the loop that tries      *)
(* again does not look at the signal (serve; main.rs, the task that        *)
(* forwards it).                                                           *)
StopIsHeeded ==
    []<>(accept \in {"listen", "down"})
        => (stop # "none" ~> accept = "down")
=============================================================================
